--------------------------- MODULE EngineService ---------------------------
(***************************************************************************)
(* One hand as the engine service runs it: every ApplyAction request is a  *)
(* goroutine that reads the hand from PostgreSQL table by table, publishes *)
(* to Kafka and saves the hand, with other requests in between and with a  *)
(* failure possible at every step.  Nothing orders two requests: Save      *)
(* checks no version and FindByID takes no lock or transaction.            *)
(*                                                                         *)
(* The player and the action of a request are chosen when it is validated: *)
(* any player may send any action, and what ValidateAction refuses is a    *)
(* request that fails (Fail).                                              *)
(***************************************************************************)
EXTENDS HandLifecycle

CONSTANTS
    Requests,     \* the requests that can be in flight at once
    MaxRequests,  \* bound: how many requests are made for the hand
    MaxOverlap    \* bound: how many are, when some of them overlap

ASSUME RequestsAssumption == MaxRequests \in Nat /\ MaxOverlap \in 0 .. MaxRequests

(* Of HandLifecycle's variables, hand is what the rows in the database     *)
(* are, and handEnded the event of the latest end that was saved.          *)
VARIABLES
    active,     \* table-manager's table has this hand as ActiveHandID
    req,        \* the requests in flight
    overlapped, \* history: two requests have been in flight at once
    requested,  \* how many requests were made so far
    published   \* the events in the Kafka topics

serviceVars == <<vars, active, req, overlapped, requested, published>>

PC == {"idle", "game", "players", "board", "deck", "pots",
       "loaded", "acted", "saved", "answered"}

Actions == {"fold", "check", "call", "raise"}

Events ==
    [kind : {"started", "ended"}, seq : Nat] \cup
    [kind : {"acted"}, seq : Nat, player : Seats, act : Actions,
     street : Street, currentBet : Nat, playerBet : Nat]

Idle == [pc |-> "idle", state |-> NoHand, ended |-> NoHand]

ServiceInit ==
    /\ Init
    /\ active = FALSE
    /\ req = [r \in Requests |-> Idle]
    /\ overlapped = FALSE
    /\ requested = 0
    /\ published = {}
-----------------------------------------------------------------------------
(* StartHand.Execute: Save, then PublishHandStarted.  When the publishing  *)
(* fails the caller never learns of the hand, and nobody acts on it.       *)
SaveNewHand ==
    /\ hand = NoHand
    /\ 2 * N <= DeckSize
    /\ \E stacks \in [Seats -> StartStacks], button \in Seats :
          /\ CanPostBlinds(stacks, button)
          /\ hand' = NewHand(stacks, button)
          /\ buyIn' = stacks
    /\ UNCHANGED <<handEnded, active, req, overlapped, requested, published>>

PublishHandStarted ==
    /\ hand # NoHand
    /\ published = {}
    /\ published' = {[kind |-> "started", seq |-> hand.eventSequence]}
    /\ active' = TRUE
    /\ UNCHANGED <<vars, req, overlapped, requested>>
-----------------------------------------------------------------------------
At(r, pc) == req[r].pc = pc

(* table-manager's Act forwards an action while the table has the hand. *)
Submit(r) ==
    /\ At(r, "idle")
    /\ active
    /\ overlapped' = (overlapped \/ \E o \in Requests : ~At(o, "idle"))
    /\ requested < IF overlapped' THEN MaxOverlap ELSE MaxRequests
    /\ requested' = requested + 1
    /\ req' = [req EXCEPT ![r].pc = "game"]
    /\ UNCHANGED <<vars, active, published>>

(* GameStateRepo.FindByID: five queries on the pool, each of which sees    *)
(* what is committed when it runs.  State is the hand read so far.         *)
Read(r, from, to, state) ==
    /\ At(r, from)
    /\ req' = [req EXCEPT ![r].pc = to, ![r].state = state]
    /\ UNCHANGED <<vars, active, overlapped, requested, published>>

findGameState(r) == Read(r, "game", "players", hand)

loadPlayers(r) ==
    Read(r, "players", "board",
         [req[r].state EXCEPT !.stack  = hand.stack,
                              !.status = hand.status,
                              !.bet    = hand.bet])

loadBoard(r) ==
    Read(r, "board", "deck", [req[r].state EXCEPT !.board = hand.board])

loadDeck(r) ==
    Read(r, "deck", "pots", [req[r].state EXCEPT !.deck = hand.deck])

loadPots(r) ==
    Read(r, "pots", "loaded", [req[r].state EXCEPT !.pots = hand.pots])
-----------------------------------------------------------------------------
(* The rest of ApplyAction.Execute. *)

May(act, s) ==
    CASE act = "fold"  -> MayFold(s)
      [] act = "check" -> MayCheck(s)
      [] act = "call"  -> MayCall(s)
      [] act = "raise" -> MayRaise(s)

ApplyAction(act, s) ==
    CASE act = "fold"  -> Fold(s)
      [] act = "check" -> s
      [] act = "call"  -> Call(s)
      [] act = "raise" -> Raise(s)

PlayerActedEvent(act, acted, player) ==
    [kind |-> "acted", seq |-> acted.eventSequence, player |-> player,
     act |-> act, street |-> acted.street, currentBet |-> acted.currentBet,
     playerBet |-> acted.bet[player]]

(* FinishHand.Execute up to Save. *)
Finished(s) ==
    LET raked == RakedHand(s)
    IN  UNION {{LET w == Winnings(raked, rank, oddChips)
                IN  [state |-> Award(raked, w), ended |-> HandEndedEvent(s, w)]
                   : oddChips \in OddChipChoices(raked.pots, rank)}
                   : rank \in Rankings(raked)}

(* What ApplyAction.Execute may go on to save for the hand "acted"; empty  *)
(* when the deck is too short for the next street.                         *)
Outcomes(acted) ==
    LET next == advanceStreet(acted)
    IN  CASE IsHandOver(acted) -> Finished(acted)
          [] ~IsHandOver(acted) /\ ~IsBettingRoundOver(acted) ->
                {[state |-> [acted EXCEPT !.activePlayer = NextActivePlayer(acted)],
                  ended |-> NoHand]}
          [] ~IsHandOver(acted) /\ IsBettingRoundOver(acted) ->
                IF ~CanDeal(acted) THEN {}
                ELSE IF next.street = "showdown" THEN Finished(next)
                ELSE {[state |-> next, ended |-> NoHand]}

PublishPlayerActedMutant(r, act) ==  \* numbered before AdvanceEventSequence
    LET s     == req[r].state
        acted == AdvanceEventSequence(ApplyAction(act, s))
    IN  /\ At(r, "loaded")
        /\ May(act, s)
        /\ published' = published \cup
              {PlayerActedEvent(act, ApplyAction(act, s), s.activePlayer)}
        /\ \E o \in Outcomes(acted) :
              req' = [req EXCEPT ![r] = [pc |-> "acted", state |-> o.state,
                                         ended |-> o.ended]]
        /\ UNCHANGED <<vars, active, overlapped, requested>>

(* Validate, apply, number and publish; then compute what will be saved.   *)
PublishPlayerActed(r, act) ==
    LET s     == req[r].state
        acted == AdvanceEventSequence(ApplyAction(act, s))
    IN  /\ At(r, "loaded")
        /\ May(act, s)
        /\ published' = published \cup
              {PlayerActedEvent(act, acted, s.activePlayer)}
        /\ \E o \in Outcomes(acted) :
              req' = [req EXCEPT ![r] = [pc |-> "acted", state |-> o.state,
                                         ended |-> o.ended]]
        /\ UNCHANGED <<vars, active, overlapped, requested>>

(* What the statements of Save make of the rows: s is what is saved.  The  *)
(* game_states row has what is not in the tables of its own.               *)
upsertGameState(rows, s) ==
    [s EXCEPT !.stack = rows.stack, !.status = rows.status, !.bet = rows.bet,
              !.board = rows.board, !.deck = rows.deck, !.pots = rows.pots]

replacePlayers(rows, s) ==
    [rows EXCEPT !.stack = s.stack, !.status = s.status, !.bet = s.bet]

replaceBoard(rows, s) == [rows EXCEPT !.board = s.board]

replaceDeck(rows, s) == [rows EXCEPT !.deck = s.deck]

replacePotsMutant(rows, s) == rows  \* the pots are inserted but not replaced

replacePots(rows, s) == [rows EXCEPT !.pots = s.pots]

(* GameStateRepo.Save: one transaction that replaces every row of the      *)
(* hand, table by table.                                                   *)
Save(r) ==
    LET s == req[r].state
    IN
    /\ At(r, "acted")
    /\ hand' = replacePots(replaceDeck(replaceBoard(replacePlayers(
                     upsertGameState(hand, s), s), s), s), s)
    /\ handEnded' = IF req[r].ended = NoHand THEN handEnded ELSE req[r].ended
    /\ req' = [req EXCEPT ![r].pc =
                  IF req[r].ended = NoHand THEN "answered" ELSE "saved"]
    /\ UNCHANGED <<buyIn, active, overlapped, requested, published>>

PublishHandEnded(r) ==
    /\ At(r, "saved")
    /\ published' = published \cup
          {[kind |-> "ended", seq |-> req[r].state.eventSequence]}
    /\ req' = [req EXCEPT ![r].pc = "answered"]
    /\ UNCHANGED <<vars, active, overlapped, requested>>

(* table-manager gets the answer: after a showdown it forgets the hand. *)
Answer(r) ==
    /\ At(r, "answered")
    /\ active' = (active /\ req[r].state.street # "showdown")
    /\ req' = [req EXCEPT ![r] = Idle]
    /\ UNCHANGED <<vars, overlapped, requested, published>>

(* The request is refused, a query, a transaction or a publication fails,  *)
(* the process stops or the answer is lost.  Nothing is undone or retried. *)
Fail(r) ==
    /\ ~At(r, "idle")
    /\ req' = [req EXCEPT ![r] = Idle]
    /\ UNCHANGED <<vars, active, overlapped, requested, published>>

ServiceNext ==
    \/ SaveNewHand
    \/ PublishHandStarted
    \/ \E r \in Requests :
          \/ Submit(r)
          \/ findGameState(r)
          \/ loadPlayers(r)
          \/ loadBoard(r)
          \/ loadDeck(r)
          \/ loadPots(r)
          \/ \E act \in Actions : PublishPlayerActed(r, act)
          \/ Save(r)
          \/ PublishHandEnded(r)
          \/ Answer(r)
          \/ Fail(r)

ServiceSpec == ServiceInit /\ [][ServiceNext]_serviceVars
-----------------------------------------------------------------------------
(* Properties. *)

(* The service's state has its type: in particular, not even a hand pieced *)
(* together from two saves makes the engine save a negative stack or bet.  *)
ServiceTypeOK ==
    /\ TypeOK
    /\ active \in BOOLEAN
    /\ overlapped \in BOOLEAN
    /\ requested \in 0 .. MaxRequests
    /\ req \in [Requests -> [pc : PC, state : States \cup {NoHand},
                             ended : HandEndedEvents \cup {NoHand}]]
    /\ published \subseteq Events

(* As long as no two requests overlap, every failure included, the service *)
(* implements the atomic use cases of HandLifecycle: FindByID sees one     *)
(* hand and Save is the step at which the whole use case happens.          *)
AtomicUseCases ==
    /\ Init
    /\ [][overlapped \/ Next \/ LateAction]_vars

(* A saved action is in the log: PublishPlayerActed comes before Save, so  *)
(* whatever hand is saved, the log has the event of the action that led    *)
(* to it, under its number and with its bets.  (A hand that has ended may  *)
(* have taken one more number, for its end.)                               *)
SavedActionIsLogged ==
    active =>
        \E e \in published :
            /\ e.kind # "ended"
            /\ \/ e.seq = hand.eventSequence
               \/ e.seq = hand.eventSequence - 1 /\ hand.street = "showdown"
            /\ e.kind = "acted" /\ hand.street # "showdown" =>
                  IF e.street = hand.street
                  THEN /\ e.currentBet = hand.currentBet
                       /\ e.playerBet = hand.bet[e.player]
                  ELSE hand.currentBet = 0

(* However requests interleave, the columns of the game_states row stay    *)
(* consistent: it is read and written as one, so the bet to match is the   *)
(* street's opening bet and one bet size per raise, within the cap.  And   *)
(* every stack, bet and pot in the tables has its type.                    *)
RowKeepsLimit ==
    /\ ServiceTypeOK
    /\ hand # NoHand /\ hand.street # "showdown" =>
          /\ hand.raises <= MaxRaisesPerStreet
          /\ hand.currentBet =
                (IF hand.street = "preflop" THEN BigBlind ELSE 0)
                    + hand.raises * BetSizeForStreet(hand)
=============================================================================
