------------------------------ MODULE MCDeals ------------------------------
(* Deals for Evaluator.  Each has a board and the cards that the holes of  *)
(* three players are dealt from; between them every rank of a hand is made *)
(* by somebody, and the hand ends before the flop or on any street after.  *)
EXTENDS Integers

Card(x) == [rank |-> x \div 10, suit |-> x % 10]

Cards(S) == {Card(x) : x \in S}

(* A card is written as its rank followed by the digit of its suit.        *)
LowStraights == [board |-> Cards({20, 30, 40, 51, 90}),
                 pool  |-> Cards({140, 60, 61, 141, 72, 91, 50})]

HighStraights == [board |-> Cards({100, 110, 120, 131, 22}),
                  pool  |-> Cards({140, 130, 90, 141, 102, 121, 23})]

FullHouses == [board |-> Cards({70, 71, 132, 133, 30}),
               pool  |-> Cards({72, 130, 131, 32, 31, 143, 23})]

HighCards == [board |-> Cards({22, 51, 93, 131, 110}),
              pool  |-> Cards({123, 32, 40, 82, 71, 143, 101})]

TurnPairs == [board |-> Cards({22, 51, 93, 130}),
              pool  |-> Cards({143, 32, 40, 92, 91, 52, 133})]

FlopPairs == [board |-> Cards({22, 81, 113}),
              pool  |-> Cards({141, 140, 20, 21, 133, 132, 80})]

NoBoard == [board |-> {}, pool |-> Cards({141, 140, 20, 21, 133, 132})]

AllDeals == {LowStraights, HighStraights, FullHouses, HighCards, TurnPairs, FlopPairs, NoBoard}
=============================================================================
