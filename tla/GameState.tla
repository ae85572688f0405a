----------------------------- MODULE GameState -----------------------------
(***************************************************************************)
(* The engine's domain package: a hand of fixed-limit Texas Hold'em is one *)
(* GameState record and every rule is a function of it.  The operators     *)
(* below map a record to the next record; HandLifecycle and EngineService  *)
(* turn them into actions.  A seat is an index into GameState.Players.     *)
(* Cards are counted, not named: the board and the deck are numbers of     *)
(* cards, and the strength of a hand enters as a rank (see Rankings).      *)
(*                                                                         *)
(* An operator whose name ends in "Mutant" is the definition after it with *)
(* one plausible mistake; no specification uses it.  PROJECT.json names    *)
(* the property that catches the mistake.                                  *)
(***************************************************************************)
EXTENDS Integers, Sequences, FiniteSets, Chips

CONSTANTS
    N,                   \* number of players dealt into the hand
    SmallBlind,          \* StartHandRequest.small_blind
    MaxRaisesPerStreet,  \* 4 in delivery/grpc/server.go
    DeckSize,            \* 52 in NewDeck
    RakePercent,         \* RakeConfig.Percent, in hundredths
    RakeCap,             \* RakeConfig.Cap
    NoFlopNoDrop         \* RakeConfig.NoFlopNoDrop

ASSUME TableAssumption == N \in Nat /\ N >= 2
ASSUME BettingAssumption ==
    SmallBlind \in Nat \ {0} /\ MaxRaisesPerStreet \in Nat \ {0}
ASSUME DeckAssumption == DeckSize \in Nat
ASSUME RakeAssumption ==
    RakePercent \in 0 .. 100 /\ RakeCap \in Nat /\ NoFlopNoDrop \in BOOLEAN

Seats == 0 .. N - 1

(* The betting structure Server.StartHand derives from the request. *)
BigBlind == 2 * SmallBlind
SmallBet == BigBlind
BigBet   == 2 * BigBlind

Street == {"preflop", "flop", "turn", "river", "showdown"}
PlayerStatus == {"active", "folded", "allin"}

Pot == [amount : Nat, eligible : SUBSET Seats]

(* A player's Stack, Status and CurrentBet are the functions stack, status *)
(* and bet; the hand's own CurrentBet is currentBet.                       *)
States ==
    [stack         : [Seats -> Nat],
     status        : [Seats -> PlayerStatus],
     bet           : [Seats -> Nat],
     pots          : Seq(Pot),
     street        : Street,
     currentBet    : Nat,
     activePlayer  : Seats,
     button        : Seats,
     eventSequence : Nat,
     raises        : Nat,
     board         : Nat,
     deck          : Nat]
-----------------------------------------------------------------------------
(* Players and whose turn it is. *)

CanAct(s, i) == s.status[i] = "active" /\ s.stack[i] > 0

PlayersWhoCanAct(s) == {i \in Seats : CanAct(s, i)}

(* ActivePlayers: everybody still contending for the pots. *)
ActivePlayers(s) == {i \in Seats : s.status[i] \in {"active", "allin"}}

IsHandOver(s) == Cardinality(PlayersWhoCanAct(s)) <= 1

(* How many seats clockwise x is from seat "from": 1 .. N. *)
Distance(from, x) == IF x > from THEN x - from ELSE x + N - from

(* The loops "for i := 1; i <= n; i++ { idx := (from + i) % n; ... }": the *)
(* first seat of S after "from", or the default when S is empty.           *)
FirstAfter(S, from, default) ==
    IF S = {} THEN default
    ELSE CHOOSE x \in S : \A y \in S : Distance(from, x) <= Distance(from, y)

NextActivePlayer(s) ==
    FirstAfter(PlayersWhoCanAct(s), s.activePlayer, s.activePlayer)

FirstActiveAfterButtonMutant(s) ==  \* whether or not the player folded
    FirstAfter(Seats, s.button, s.button)

FirstActiveAfterButton(s) == FirstAfter(ActivePlayers(s), s.button, s.button)
-----------------------------------------------------------------------------
(* Betting: ValidateAction's conditions and ApplyAction's effects. *)

BetSizeForStreet(s) ==
    CASE s.street \in {"preflop", "flop"} -> SmallBet
      [] s.street \in {"turn", "river"}   -> BigBet
      [] s.street = "showdown"            -> 0

(* The checks every action passes first: the request is from the active    *)
(* player (any other player's is refused) and that player can act.         *)
MayAct(s) == CanAct(s, s.activePlayer)

MayFold(s) == MayAct(s)

MayCheck(s) == MayAct(s) /\ s.currentBet <= s.bet[s.activePlayer]

MayCall(s) == MayAct(s) /\ s.currentBet # s.bet[s.activePlayer]

RaiseTo(s) == s.currentBet + BetSizeForStreet(s)

MayRaiseMutant(s) ==  \* one raise too many
    /\ MayAct(s)
    /\ s.raises <= MaxRaisesPerStreet
    /\ RaiseTo(s) <= s.stack[s.activePlayer] + s.bet[s.activePlayer]

MayRaise(s) ==
    /\ MayAct(s)
    /\ s.raises < MaxRaisesPerStreet
    /\ RaiseTo(s) <= s.stack[s.activePlayer] + s.bet[s.activePlayer]

Fold(s) == [s EXCEPT !.status[s.activePlayer] = "folded"]

CallMutant(s) ==  \* not capped at the stack
    LET p == s.activePlayer
        owed == s.currentBet - s.bet[p]
    IN  [s EXCEPT !.stack[p] = @ - owed, !.bet[p] = s.currentBet]

Call(s) ==
    LET p      == s.activePlayer
        owed   == s.currentBet - s.bet[p]
        amount == IF owed >= s.stack[p] THEN s.stack[p] ELSE owed
    IN  [s EXCEPT !.stack[p]  = @ - amount,
                  !.bet[p]    = @ + amount,
                  !.status[p] = IF owed >= s.stack[p] THEN "allin" ELSE @]

Raise(s) ==
    LET p      == s.activePlayer
        amount == RaiseTo(s) - s.bet[p]
    IN  [s EXCEPT !.stack[p]   = @ - amount,
                  !.bet[p]     = RaiseTo(s),
                  !.currentBet = RaiseTo(s),
                  !.raises     = @ + 1,
                  !.status[p]  = IF s.stack[p] = amount THEN "allin" ELSE @]

IsBettingRoundOverMutant(s) ==  \* one matched bet closes the street
    \E i \in PlayersWhoCanAct(s) : s.bet[i] >= s.currentBet

IsBettingRoundOver(s) ==
    \A i \in PlayersWhoCanAct(s) : s.bet[i] >= s.currentBet

AdvanceEventSequence(s) == [s EXCEPT !.eventSequence = @ + 1]
-----------------------------------------------------------------------------
(* Pots. *)

Total(pots) == Sum([k \in 1 .. Len(pots) |-> pots[k].amount], 1, Len(pots))

Contributors(c) == {i \in Seats : c[i] > 0}

(* The k-th smallest element of a finite set of naturals. *)
Ranked(S, k) == CHOOSE x \in S : Cardinality({y \in S : y <= x}) = k

CalculateMutant(contributions) ==  \* the last player is left out of a shared last pot
    LET levels   == {contributions[i] : i \in Contributors(contributions)}
        level(k) == IF k = 0 THEN 0 ELSE Ranked(levels, k)
        in(k)    == {i \in Seats : contributions[i] >= level(k)}
        last(k)  == {i \in in(k) : k = Cardinality(levels) /\ \A j \in in(k) : j <= i}
    IN  [k \in 1 .. Cardinality(levels) |->
            [amount   |-> (level(k) - level(k - 1)) * Cardinality(in(k)),
             eligible |-> IF Cardinality(in(k)) > 1 THEN in(k) \ last(k) ELSE in(k)]]

(* Calculate: turn k of its loop takes the smallest remaining contribution *)
(* from everybody who has one left.  The contributions that run out after  *)
(* k turns are the k-th smallest, level(k), so pot k holds what lies       *)
(* between level(k - 1) and level(k) of each contribution that reaches it. *)
Calculate(contributions) ==
    LET levels   == {contributions[i] : i \in Contributors(contributions)}
        level(k) == IF k = 0 THEN 0 ELSE Ranked(levels, k)
        in(k)    == {i \in Seats : contributions[i] >= level(k)}
    IN  [k \in 1 .. Cardinality(levels) |->
            [amount   |-> (level(k) - level(k - 1)) * Cardinality(in(k)),
             eligible |-> in(k)]]

mergePotsMutant(existing, newPots) ==  \* the first new pot is lost
    IF existing = << >> THEN newPots
    ELSE IF newPots = << >> THEN existing
    ELSE existing \o Tail(newPots)

mergePotsEligibleMutant(existing, newPots) ==  \* the new pot's players replace the old
    IF existing = << >> THEN newPots
    ELSE IF newPots = << >> THEN existing
    ELSE [existing EXCEPT ![Len(existing)] =
             [amount |-> @.amount + Head(newPots).amount,
              eligible |-> Head(newPots).eligible]] \o Tail(newPots)

mergePots(existing, newPots) ==
    IF existing = << >> THEN newPots
    ELSE IF newPots = << >> THEN existing
    ELSE [existing EXCEPT ![Len(existing)].amount = @ + Head(newPots).amount]
             \o Tail(newPots)

CollectBets(s) ==
    [s EXCEPT !.pots = mergePots(@, Calculate(s.bet)),
              !.bet  = [i \in Seats |-> 0]]
-----------------------------------------------------------------------------
(* Rake.  Percent is 0.05 in every configuration; its double lies just     *)
(* above 1/20, so int(float64(total) * Percent) is the integer quotient.   *)

CalculateRake(pots, street) ==
    IF NoFlopNoDrop /\ street = "preflop" THEN 0
    ELSE Lesser((Total(pots) * RakePercent) \div 100, RakeCap)

ApplyRakeMutant(pots, rake) ==  \* only the last pot is charged
    [k \in 1 .. Len(pots) |->
        IF k < Len(pots) THEN pots[k]
        ELSE [pots[k] EXCEPT !.amount = @ - Lesser(rake, @)]]

(* The rake is taken from the last pot backwards: pot k is charged what    *)
(* the pots behind it could not cover.                                     *)
ApplyRake(pots, rake) ==
    LET amount == [k \in 1 .. Len(pots) |-> pots[k].amount]
        left(k) == rake - Sum(amount, k + 1, Len(pots))
    IN  [k \in 1 .. Len(pots) |->
            [pots[k] EXCEPT !.amount =
                IF left(k) <= 0 THEN @ ELSE @ - Lesser(left(k), @)]]
-----------------------------------------------------------------------------
(* Streets. *)

NextStreet(street) ==
    CASE street = "preflop" -> "flop"
      [] street = "flop"    -> "turn"
      [] street = "turn"    -> "river"
      [] street \in {"river", "showdown"} -> "showdown"

CardsToDeal(street) ==
    CASE street = "preflop" -> 3
      [] street \in {"flop", "turn"} -> 1
      [] street \in {"river", "showdown"} -> 0

(* Deck.Deal fails when the deck is short; advanceStreet then fails and    *)
(* nothing is saved.                                                       *)
CanDeal(s) == CardsToDeal(s.street) <= s.deck

advanceStreet(s) ==
    LET c == CollectBets(s)
    IN  [c EXCEPT !.currentBet   = 0,
                  !.raises       = 0,
                  !.activePlayer = FirstActiveAfterButton(c),
                  !.street       = NextStreet(s.street),
                  !.board        = @ + CardsToDeal(s.street),
                  !.deck         = @ - CardsToDeal(s.street)]
-----------------------------------------------------------------------------
(* The start of a hand. *)

Clockwise(seat, k) == (seat + k) % N

SmallBlindIndex(button) == IF N = 2 THEN button ELSE Clockwise(button, 1)
BigBlindIndex(button)   == Clockwise(button, IF N = 2 THEN 1 ELSE 2)

CanPostBlinds(stacks, button) ==
    /\ stacks[SmallBlindIndex(button)] >= SmallBlind
    /\ stacks[BigBlindIndex(button)] >= BigBlind

postBlinds(button) ==
    [i \in Seats |-> CASE i = SmallBlindIndex(button) -> SmallBlind
                       [] i = BigBlindIndex(button)   -> BigBlind
                       [] OTHER -> 0]

(* StartHand.Execute: hole cards, blinds and the first player to act.      *)
NewHand(stacks, button) ==
    LET blinds == postBlinds(button)
        bb     == BigBlindIndex(button)
        left   == [i \in Seats |-> stacks[i] - blinds[i]]
    IN  [stack         |-> left,
         status        |-> [i \in Seats |-> "active"],
         bet           |-> blinds,
         pots          |-> << >>,
         street        |-> "preflop",
         currentBet    |-> BigBlind,
         activePlayer  |-> FirstAfter({i \in Seats : left[i] > 0}, bb, bb),
         button        |-> button,
         eventSequence |-> 1,
         raises        |-> 0,
         board         |-> 0,
         deck          |-> DeckSize - 2 * N]
-----------------------------------------------------------------------------
(* The end of a hand. *)

(* FinishHand.Execute up to determineWinners: the bets are collected and   *)
(* the rake is taken.                                                      *)
RakedHand(s) ==
    LET c == CollectBets(s)
    IN  AdvanceEventSequence(
            [c EXCEPT !.pots = ApplyRake(@, CalculateRake(@, s.street))])

(* What the evaluator can answer: any ranking of the contenders once five  *)
(* cards are known, and a tie between all of them before the flop, when    *)
(* two cards make no five-card combination and every result is empty.      *)
Rankings(s) ==
    IF s.board + 2 < 5
    THEN {[i \in ActivePlayers(s) |-> 1]}
    ELSE [ActivePlayers(s) -> 1 .. Cardinality(ActivePlayers(s))]

bestHandsInPot(pot, rank) ==
    LET in == pot.eligible \cap DOMAIN rank
    IN  {i \in in : \A j \in in : rank[j] <= rank[i]}

OddChipChoices(pots, rank) ==
    LET winners(k) == bestHandsInPot(pots[k], rank)
        odd(k) == IF winners(k) = {} THEN 0
                  ELSE pots[k].amount % Cardinality(winners(k))
    IN  {c \in [1 .. Len(pots) -> SUBSET DOMAIN rank] :
            \A k \in 1 .. Len(pots) :
                c[k] \subseteq winners(k) /\ Cardinality(c[k]) = odd(k)}

(* singleWinner and winnersToMap: what each seat is paid. *)
Winnings(s, rank, oddChips) ==
    LET share(k, i) ==
            LET winners == bestHandsInPot(s.pots[k], rank)
            IN  IF i \notin winners THEN 0
                ELSE s.pots[k].amount \div Cardinality(winners)
                         + (IF i \in oddChips[k] THEN 1 ELSE 0)
    IN  [i \in Seats |->
            IF Cardinality(ActivePlayers(s)) = 1
            THEN IF i \in ActivePlayers(s) THEN Total(s.pots) ELSE 0
            ELSE Sum([k \in 1 .. Len(s.pots) |-> share(k, i)], 1, Len(s.pots))]

(* award, and the end of FinishHand.Execute.  The pots keep their amounts. *)
Award(s, winnings) ==
    [s EXCEPT !.stack  = [i \in Seats |-> @[i] + winnings[i]],
              !.street = "showdown"]

HandEndedEvents ==
    [showdown : BOOLEAN, grossPot : Nat, netPot : Nat, rake : Nat,
     winners : [Seats -> Nat], board : Nat]

(* The HandEndedEvent FinishHand.Execute publishes for hand s. *)
HandEndedEvent(s, winnings) ==
    LET pots == CollectBets(s).pots
    IN  [showdown |-> s.street = "showdown",
         grossPot |-> Total(pots),
         netPot   |-> Total(RakedHand(s).pots),
         rake     |-> CalculateRake(pots, s.street),
         winners  |-> winnings,
         board    |-> s.board]
=============================================================================
