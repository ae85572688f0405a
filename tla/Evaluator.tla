----------------------------- MODULE Evaluator -----------------------------
(***************************************************************************)
(* The engine's hand evaluator and the showdown that uses it: every active *)
(* player gets the best of the five-card combinations of the hole cards    *)
(* and the board, and every pot goes to the best results among the players *)
(* eligible for it.  GameState has Rankings for all of this; here the      *)
(* cards are named.  A combination is a set: nothing in the code depends   *)
(* on the order of its five cards.                                         *)
(***************************************************************************)
EXTENDS Integers, FiniteSets, FiniteSetsExt

CONSTANTS
    Players,  \* the players of the hand
    Deals,    \* the deals: a board, and the cards the players are dealt from
    NotYet    \* "not dealt yet", "no showdown yet"

(* A deal is of finitely many cards, whose ranks are numbers. *)
ASSUME DealsAssumption ==
    /\ IsFiniteSet(Players)
    /\ \A d \in Deals : /\ IsFiniteSet(d.board) /\ IsFiniteSet(d.pool)
                        /\ \A c \in d.board \cup d.pool : c.rank \in Nat

VARIABLES
    board,        \* GameState.Board, a set, or NotYet
    hole,         \* the players' hole cards, or NotYet
    results,      \* the HandResults of the active players, or NotYet
    winnersByPot  \* the winners of a pot, for every eligible set, or NotYet

showdownVars == <<board, hole, results, winnersByPot>>

Ten == 10
Ace == 14

(* The names of the ranks of a hand, from the lowest. *)
HandRank == <<"high card", "one pair", "two pair", "three of a kind", "straight",
              "flush", "full house", "four of a kind", "straight flush", "royal flush">>

ShowdownInit ==
    /\ board = NotYet
    /\ hole = NotYet
    /\ results = NotYet
    /\ winnersByPot = NotYet
-----------------------------------------------------------------------------
(* The combinations and their ranks. *)

combinations(cards) == kSubset(5, cards)

sortedRanks(cards) == {c.rank : c \in cards}

rankCounts(cards) ==
    [r \in sortedRanks(cards) |-> Cardinality({c \in cards : c.rank = r})]

(* The ranks a combination has n cards of. *)
Holding(n, cards) ==
    LET counts == rankCounts(cards)
    IN  {r \in DOMAIN counts : counts[r] = n}

isFlush(cards) == Cardinality({c.suit : c \in cards}) = 1

isStraightMutant(cards) ==  \* the ace is only high
    LET ranks == sortedRanks(cards)
    IN  Cardinality(ranks) = 5 /\ Max(ranks) - Min(ranks) = 4

isStraight(cards) ==
    LET ranks == sortedRanks(cards)
    IN  \/ Cardinality(ranks) = 5 /\ Max(ranks) - Min(ranks) = 4
        \/ ranks = {Ace} \cup 2 .. 5

isStraightFlush(cards) == isFlush(cards) /\ isStraight(cards)

isRoyalFlush(cards) ==
    /\ isStraightFlush(cards)
    /\ Max(sortedRanks(cards)) = Ace
    /\ Min(sortedRanks(cards)) = Ten

isFourOfAKind(cards)  == Holding(4, cards) # {}

isFullHouse(cards)    == Holding(3, cards) # {} /\ Holding(2, cards) # {}

isThreeOfAKind(cards) == Holding(3, cards) # {}

isTwoPair(cards)      == Cardinality(Holding(2, cards)) = 2

isOnePair(cards)      == Holding(2, cards) # {}

(* The tests are made from the highest rank down: the first that succeeds  *)
(* is the highest that does.                                               *)
rankHand(cards) ==
    LET Is(rank) == CASE HandRank[rank] = "royal flush"     -> isRoyalFlush(cards)
                      [] HandRank[rank] = "straight flush"  -> isStraightFlush(cards)
                      [] HandRank[rank] = "four of a kind"  -> isFourOfAKind(cards)
                      [] HandRank[rank] = "full house"      -> isFullHouse(cards)
                      [] HandRank[rank] = "flush"           -> isFlush(cards)
                      [] HandRank[rank] = "straight"        -> isStraight(cards)
                      [] HandRank[rank] = "three of a kind" -> isThreeOfAKind(cards)
                      [] HandRank[rank] = "two pair"        -> isTwoPair(cards)
                      [] HandRank[rank] = "one pair"        -> isOnePair(cards)
                      [] HandRank[rank] = "high card"       -> TRUE
    IN  Max({rank \in DOMAIN HandRank : Is(rank)})

(* Positive when a is better: the ranks in descending order are compared   *)
(* one by one, so the highest rank of which one holds more cards decides.  *)
compareCards(a, b) ==
    LET Count(r, cards) == Cardinality({c \in cards : c.rank = r})
        differ == {r \in sortedRanks(a \cup b) : Count(r, a) # Count(r, b)}
    IN  IF differ = {} THEN 0 ELSE Count(Max(differ), a) - Count(Max(differ), b)

CompareMutant(a, b) == a.rank - b.rank  \* no tie-break

Compare(a, b) ==
    IF a.rank # b.rank THEN a.rank - b.rank ELSE compareCards(a.cards, b.cards)

(* With fewer than five cards there is no combination, and the result is   *)
(* the zero value of HandResult: no rank and no cards.                     *)
Best(cards) ==
    LET Better(combo, best) ==
            LET result == [rank |-> rankHand(combo), cards |-> combo]
            IN  IF Compare(result, best) > 0 THEN result ELSE best
    IN  FoldSet(Better, [rank |-> 0, cards |-> {}], combinations(cards))

bestResultsInPot(eligible, res) ==
    LET in == eligible \cap DOMAIN res
    IN  {p \in in : \A q \in in : Compare(res[q], res[p]) <= 0}
-----------------------------------------------------------------------------
(* A hand is dealt, then shown down. *)

Deal ==
    /\ board = NotYet
    /\ \E d \in Deals :
          /\ board' = d.board
          /\ hole' \in [Players -> kSubset(2, d.pool)]
          /\ \A p, q \in Players : p # q => hole'[p] \cap hole'[q] = {}
    /\ UNCHANGED <<results, winnersByPot>>

(* determineWinners with more than one active player, and showdown.  The   *)
(* pots come from CollectBets: any set of players may be eligible for one. *)
showdown(active) ==
    /\ board # NotYet
    /\ results = NotYet
    /\ results' = [p \in active |-> Best(hole[p] \cup board)]
    /\ winnersByPot' = [e \in (SUBSET Players) \ {{}} |-> bestResultsInPot(e, results')]
    /\ UNCHANGED <<board, hole>>

ShowdownNext ==
    Deal \/ \E active \in {a \in SUBSET Players : Cardinality(a) > 1} : showdown(active)

ShowdownSpec == ShowdownInit /\ [][ShowdownNext]_showdownVars
-----------------------------------------------------------------------------
(* The rules of poker, as a reference: the strength of five cards is a     *)
(* number, their category and then the ranks that break a tie, those held  *)
(* most often first, in base Digit.                                        *)

Digit == 15

(* The highest rank of a straight: the ace is low below a two. *)
TopOfStraight(cards) ==
    {top \in 5 .. Ace :
        {c.rank : c \in cards} = {IF r = 1 THEN Ace ELSE r : r \in (top - 4) .. top}}

Category(cards) ==
    LET pairs   == {{c, d} : c \in cards, d \in cards}
        alike   == Cardinality({x \in pairs : Cardinality(x) = 2 /\ \A c, d \in x : c.rank = d.rank})
        flush   == \A c, d \in cards : c.suit = d.suit
        run     == TopOfStraight(cards)
    IN  IF flush /\ run # {}
        THEN IF Ace \in run THEN "royal flush" ELSE "straight flush"
        ELSE IF flush THEN "flush"
        ELSE IF run # {} THEN "straight"
        ELSE CASE alike = 0 -> "high card"
               [] alike = 1 -> "one pair"
               [] alike = 2 -> "two pair"
               [] alike = 3 -> "three of a kind"
               [] alike = 4 -> "full house"
               [] alike = 6 -> "four of a kind"

Strength(cards) ==
    LET Held(r) == Cardinality({c \in cards : c.rank = r})
        ranks   == {c.rank : c \in cards}
        After(r) == {q \in ranks : Held(q) < Held(r) \/ (Held(q) = Held(r) /\ q < r)}
        category == CHOOSE k \in DOMAIN HandRank : HandRank[k] = Category(cards)
        tieBreak == IF TopOfStraight(cards) # {}
                    THEN Max(TopOfStraight(cards))
                    ELSE MapThenSumSet(LAMBDA r : r * Digit ^ Cardinality(After(r)), ranks)
    IN  category * Digit ^ 5 + tieBreak

BestStrength(p) == Max({Strength(c) : c \in kSubset(5, hole[p] \cup board)})

Contenders(e) == e \cap DOMAIN results

(* The winners by the rules, for every set of eligible players. *)
WinnersOf(eligible) ==
    LET graded == {[player |-> p, strength |-> BestStrength(p)] : p \in DOMAIN results}
        Strongest(in) == {g \in in : \A h \in in : h.strength <= g.strength}
    IN  [e \in eligible |->
            {g.player : g \in Strongest({g \in graded : g.player \in e})}]

(* compareCards looks at the ranks in descending order only.  That is what *)
(* the rules do too when the hands hold the same ranks twice or more, and  *)
(* none of them is a straight with a low ace.                              *)
OrderedAlike(players) ==
    LET Several(p) == UNION {Holding(n, results[p].cards) : n \in 2 .. 4}
    IN  /\ \A p, q \in players : Several(p) = Several(q)
        /\ \A p \in players : ~({Ace, 2} \subseteq sortedRanks(results[p].cards)
                                    /\ isStraight(results[p].cards))
-----------------------------------------------------------------------------
(* Properties. *)

FiveCards == results # NotYet /\ Cardinality(board) >= 3

(* From any five of the seven cards (or of the five or six, when the hand  *)
(* ends on an earlier street), Best finds the category that the rules      *)
(* rank highest: no test of rankHand hides a better combination.           *)
RankByTheRules ==
    FiveCards =>
        \A p \in DOMAIN results : results[p].rank = BestStrength(p) \div Digit ^ 5

(* Every pot somebody still contends goes to somebody who contends it, to  *)
(* players whose hands rank highest and who tie; whoever of them does not  *)
(* win is beaten.  Before the flop all contenders share it.                *)
PotsFindWinners ==
    results # NotYet =>
        \A e \in DOMAIN winnersByPot :
            LET in  == Contenders(e)
                top == {p \in in : \A q \in in : results[q].rank <= results[p].rank}
                won == winnersByPot[e]
            IN  /\ won \subseteq top
                /\ in # {} => won # {}
                /\ \A p \in won : /\ \A q \in won : Compare(results[p], results[q]) = 0
                                  /\ \A q \in in \ won : Compare(results[p], results[q]) > 0
                /\ board = {} => won = in

(* A pot goes to winners, and to those with the best hands by the rules,   *)
(* ties included, whenever comparing the ranks in order can tell.          *)
WinnersByTheRules ==
    /\ PotsFindWinners
    /\ FiveCards =>
          LET byTheRules == WinnersOf(DOMAIN winnersByPot)
          IN  \A e \in DOMAIN winnersByPot :
              LET in  == Contenders(e)
                  top == {p \in in : \A q \in in : results[q].rank <= results[p].rank}
              IN  OrderedAlike(top) => winnersByPot[e] = byTheRules[e]

(* RULES.md: the evaluator finds each player's best five-card combination, *)
(* and every pot goes to the best result among its players.                *)
BestHandWins ==
    FiveCards => winnersByPot = WinnersOf(DOMAIN winnersByPot)
=============================================================================
