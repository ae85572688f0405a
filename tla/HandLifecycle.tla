--------------------------- MODULE HandLifecycle ---------------------------
(***************************************************************************)
(* The engine's use cases StartHand, ApplyAction and FinishHand, one       *)
(* request at a time, on one table: a hand is started, the players act in  *)
(* turn, the hand ends and the next one is started.  Each action is a      *)
(* whole use case, from FindByID to the last Save.  Requests the engine    *)
(* refuses change nothing and are the negations of the guards.             *)
(***************************************************************************)
EXTENDS GameState

CONSTANTS
    StartStacks,  \* the stacks a player may bring to a hand
    NoHand        \* "no hand was started yet", "no hand has ended yet"

(* table-manager deals in Table.PlayablePlayers only: seats with chips. *)
ASSUME StacksAssumption == StartStacks \subseteq Nat \ {0}
ASSUME NoHandAssumption == NoHand \notin States \cup HandEndedEvents

VARIABLES
    hand,       \* the GameState of the table's latest hand, or NoHand
    buyIn,      \* history: the stacks the latest hand was started with
    handEnded   \* the latest HandEndedEvent, or NoHand

vars == <<hand, buyIn, handEnded>>

Init ==
    /\ hand = NoHand
    /\ buyIn = [i \in Seats |-> 0]
    /\ handEnded = NoHand

Running == hand # NoHand /\ hand.street # "showdown"

(* StartHand.Execute.  table-manager starts a hand only when the table has *)
(* no active one; the stacks and the button come with the request.         *)
StartHand ==
    /\ ~Running
    /\ 2 * N <= DeckSize
    /\ \E stacks \in [Seats -> StartStacks], button \in Seats :
          /\ CanPostBlinds(stacks, button)
          /\ hand' = NewHand(stacks, button)
          /\ buyIn' = stacks
    /\ handEnded' = NoHand

(* FinishHand.Execute. *)
FinishHand(s) ==
    LET raked == RakedHand(s)
    IN  \E rank \in Rankings(raked) :
        \E oddChips \in OddChipChoices(raked.pots, rank) :
            LET winnings == Winnings(raked, rank, oddChips)
            IN  /\ hand' = Award(raked, winnings)
                /\ handEnded' = HandEndedEvent(s, winnings)

(* ApplyAction.Execute after domain.ApplyAction: acted is the hand with    *)
(* the player's action applied and its event numbered.                     *)
EndByAction(acted) ==
    /\ IsHandOver(acted)
    /\ FinishHand(acted)

EndByShowdown(acted) ==
    /\ ~IsHandOver(acted)
    /\ IsBettingRoundOver(acted)
    /\ NextStreet(acted.street) = "showdown"
    /\ CanDeal(acted)
    /\ FinishHand(advanceStreet(acted))

GoToNextStreet(acted) ==
    /\ ~IsHandOver(acted)
    /\ IsBettingRoundOver(acted)
    /\ NextStreet(acted.street) # "showdown"
    /\ CanDeal(acted)
    /\ hand' = advanceStreet(acted)
    /\ UNCHANGED handEnded

PassTurn(acted) ==
    /\ ~IsHandOver(acted)
    /\ ~IsBettingRoundOver(acted)
    /\ hand' = [acted EXCEPT !.activePlayer = NextActivePlayer(acted)]
    /\ UNCHANGED handEnded

Execute(s) ==
    LET acted == AdvanceEventSequence(s)
    IN  /\ \/ EndByAction(acted)
           \/ EndByShowdown(acted)
           \/ GoToNextStreet(acted)
           \/ PassTurn(acted)
        /\ UNCHANGED buyIn

PlayerFolds  == MayFold(hand)  /\ Execute(Fold(hand))
PlayerChecks == MayCheck(hand) /\ Execute(hand)
PlayerCalls  == MayCall(hand)  /\ Execute(Call(hand))
PlayerRaises == MayRaise(hand) /\ Execute(Raise(hand))

PlayerActs == PlayerFolds \/ PlayerChecks \/ PlayerCalls \/ PlayerRaises

(* table-manager forwards an action only while the table has an active     *)
(* hand, and forgets the hand when the engine answers with a showdown.     *)
Next == StartHand \/ (Running /\ PlayerActs)

Spec == Init /\ [][Next]_vars

(* The engine has no timer: a hand goes on only if its players keep        *)
(* acting, which is the one fairness assumption.  It is weak fairness of   *)
(* Running /\ PlayerActs with ENABLED written out: a player who may act    *)
(* may always fold.                                                        *)
PlayersKeepActing ==
    <>[](Running /\ MayAct(hand)) => []<><<Running>>_vars

FairSpec == Spec /\ PlayersKeepActing

(* A client that goes straight to the engine may also act on a hand that   *)
(* has ended: ValidateAction does not look at the street.                  *)
LateAction == hand # NoHand /\ ~Running /\ PlayerActs
-----------------------------------------------------------------------------
(* Properties. *)

(* The state of the table has its type. *)
TypeOK ==
    /\ hand \in States \cup {NoHand}
    /\ buyIn \in [Seats -> Nat]
    /\ handEnded \in HandEndedEvents \cup {NoHand}

StackTotal(f) == Sum(f, 0, N - 1)

(* CollectBets, mergePots, ApplyRake, winnersToMap and award together      *)
(* neither create nor lose a chip: while a hand runs the stacks, the bets  *)
(* and the pots make up what the players brought, and after it the stacks  *)
(* and the rake do.                                                        *)
ChipConservation ==
    hand # NoHand =>
        StackTotal(buyIn) =
            IF Running
            THEN StackTotal(hand.stack) + StackTotal(hand.bet) + Total(hand.pots)
            ELSE StackTotal(hand.stack) + StackTotal(hand.bet) + handEnded.rake

(* Whoever can still act has matched every earlier bet, so the layers of   *)
(* Calculate and the merging of mergePots leave that player eligible for   *)
(* every pot.                                                              *)
LivePlayersShareEveryPot ==
    Running =>
        \A k \in DOMAIN hand.pots :
            PlayersWhoCanAct(hand) \subseteq hand.pots[k].eligible

(* What seat i paid on the streets before this one. *)
PaidBefore(i) == buyIn[i] - hand.stack[i] - hand.bet[i]

(* NextActivePlayer and IsBettingRoundOver fit together.  A street closes  *)
(* only when the players who can act have paid alike: on the streets       *)
(* before this one, each of them paid as much as anybody.  And once there  *)
(* is a bet, the turn only ever passes to a player who has not matched it, *)
(* so nobody acts twice without a raise in between.                        *)
StreetsCloseEven ==
    Running =>
        /\ \A i \in PlayersWhoCanAct(hand), j \in Seats :
              PaidBefore(j) <= PaidBefore(i)
        /\ ~IsHandOver(hand) /\ MayAct(hand) /\ hand.currentBet > 0
              => hand.bet[hand.activePlayer] < hand.currentBet

(* Fixed limit: the bet to match is the street's opening bet and one bet   *)
(* size for each raise, the raises stay within the cap, nobody is above    *)
(* the bet to match, and an all-in player has no chips behind.             *)
WithinLimit(s) ==
    /\ s.raises <= MaxRaisesPerStreet
    /\ s.currentBet = (IF s.street = "preflop" THEN BigBlind ELSE 0)
                          + s.raises * BetSizeForStreet(s)
    /\ \A i \in Seats :
          /\ s.bet[i] <= s.currentBet
          /\ s.status[i] = "allin" => s.stack[i] = 0

(* ValidateAction and ApplyAction never leave the fixed-limit structure. *)
FixedLimit == Running => WithinLimit(hand)

BoardSize(street) ==
    CASE street = "preflop" -> 0
      [] street = "flop"    -> 3
      [] street = "turn"    -> 4
      [] street \in {"river", "showdown"} -> 5

CardsAccounted(s) ==
    /\ s.board = BoardSize(s.street)
    /\ 2 * N + s.board + s.deck = DeckSize

(* advanceStreet deals the board of the street, and no card is dealt twice *)
(* or lost: hole cards, board and deck make up the deck.                   *)
BoardFollowsStreet == Running => CardsAccounted(hand)

(* What every hand keeps, of whatever size: its types, the fixed limit and *)
(* the cards.                                                              *)
HandIsSound == TypeOK /\ FixedLimit /\ BoardFollowsStreet

(* The hand.ended event is consistent: gross pot less rake is the net pot, *)
(* the winners share exactly the net pot, nobody who folded is a winner,   *)
(* no winner of a contested hand is paid more than the pots they were      *)
(* eligible for, and no rake is taken from a hand without a flop.          *)
HandEndedAddsUp ==
    handEnded # NoHand =>
        LET won == handEnded.winners
        IN  /\ handEnded.grossPot = handEnded.netPot + handEnded.rake
            /\ StackTotal(won) = handEnded.netPot
            /\ \A i \in Seats :
                  LET claims == [k \in DOMAIN hand.pots |->
                                    IF i \in hand.pots[k].eligible
                                    THEN hand.pots[k].amount ELSE 0]
                  IN  /\ won[i] > 0 => i \in ActivePlayers(hand)
                      /\ Cardinality(ActivePlayers(hand)) > 1
                            => won[i] <= Sum(claims, 1, Len(hand.pots))
            /\ handEnded.rake <= RakeCap
            /\ NoFlopNoDrop /\ handEnded.board = 0 => handEnded.rake = 0

SameHand == hand # NoHand /\ hand'.eventSequence > hand.eventSequence

TheActorPays ==
    SameHand =>
        /\ \A i \in Seats \ {hand.activePlayer} : hand'.stack[i] >= hand.stack[i]
        /\ \A i \in Seats :
              hand.status[i] # "active" => hand'.status[i] = hand.status[i]
        /\ \A k \in DOMAIN hand.pots :
              /\ k \in DOMAIN hand'.pots
              /\ hand.pots[k].eligible = hand'.pots[k].eligible

(* A request of the active player can cost nobody else chips, brings no    *)
(* player who folded or is all-in back into the betting, and takes no pot  *)
(* away and no player's claim to one.                                      *)
OnlyTheActorPays == [][TheActorPays]_vars

(* If the players keep acting, every hand ends or the turn comes to a      *)
(* player without chips: the raise cap bounds each street and              *)
(* advanceStreet moves on to the next.  The exception is real.  postBlinds *)
(* may take a player's last chip and leave the status "active", a player   *)
(* may be all-in, and FirstActiveAfterButton and nextActiveIndex may give  *)
(* either the turn, whom ValidateAction then refuses everything; RULES.md  *)
(* has the first player who can act begin a street.  The turn never stays  *)
(* with a player who has folded and has chips.                             *)
HandEnds ==
    Running ~> (~Running \/ hand.stack[hand.activePlayer] = 0)
=============================================================================
