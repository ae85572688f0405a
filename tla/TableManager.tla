---------------------------- MODULE TableManager ----------------------------
(***************************************************************************)
(* One table of the table-manager.  JoinTable, LeaveTable and Act read the *)
(* table (the row and the seats are two queries), check, call the wallet   *)
(* or the engine, change the table in memory and write it back as a whole. *)
(* Nothing serialises the requests and each may end at any of its calls.   *)
(*                                                                         *)
(* The wallet is the ledger of AtomicLedger.  The engine is external here  *)
(* (HandLifecycle has its rules): a hand starts with the stacks it is      *)
(* given and ends with another distribution of them, less the rake.        *)
(***************************************************************************)
EXTENDS Integers, Sequences, FiniteSetsExt

CONSTANTS
    Players,      \* the players
    SeatCount,    \* Table.SeatCount
    SmallBlind,   \* Table.SmallBlind
    BuyIns,       \* the buy-ins
    Opening,      \* what every player has in the wallet at first
    MaxRake,      \* external: the engine's cap on the rake of a hand
    Requests,     \* the requests that can run at once
    Rejoining,    \* may a player who was seated before join once more?
    Nobody,       \* the empty PlayerID, the empty ActiveHandID
    MaxHands,     \* bound: how many hands are started
    MaxRequests,  \* bound: how many requests there are
    MaxOverlap,   \* bound: how many there are, when some overlap
    MaxFailures   \* bound: how many calls fail

ASSUME TableConfig == SeatCount \in Nat /\ SeatCount >= 2 /\ SmallBlind \in Nat /\ SmallBlind > 0

(* JoinTable refuses a buy-in that is not positive. *)
ASSUME BuyInAssumption == BuyIns \subseteq Nat \ {0}

ASSUME PlayersAssumption == IsFiniteSet(Players) /\ Opening \in Nat

ASSUME NobodyAssumption == Nobody \notin Players \cup Nat

ASSUME BoundsAssumption ==
    /\ MaxHands \in Nat /\ MaxRequests \in Nat /\ MaxOverlap \in 0 .. MaxRequests
    /\ MaxFailures \in Nat

VARIABLES
    row,        \* the row of the table: status, button, hand
    seats,      \* the rows of its seats: player and stack
    balance,    \* the players' money in the wallet
    entries,    \* the wallet's ledger entries
    hands,      \* external: the engine's hands, in the order they started
    req,        \* the requests
    wasSeated,  \* history: the players who have joined
    cutOff,     \* history: a request ended between a call and SaveTable
    overlapped, \* history: two requests overlapped, one not sent for the other
    requests,   \* how many requests there have been
    failures    \* how many calls have failed

table  == <<row, seats>>
wallet == <<balance, entries>>
counts == <<requests, failures>>
vars   == <<table, wallet, hands, req, wasSeated, cutOff, overlapped, counts>>

Seats == 0 .. SeatCount - 1
BigBlind == 2 * SmallBlind

Rows  == [status : {"idle", "in_hand"}, button : Seats, hand : (1 .. MaxHands) \cup {Nobody}]
SeatRows == [Seats -> [player : Players \cup {Nobody}, stack : Nat]]
Calls ==
    [op : {"join"}, player : Players, seat : Seats, buyIn : BuyIns]
        \cup [op : {"leave", "act"}, player : Players, seat : {0}, buyIn : {0}]

Wallet == INSTANCE AtomicLedger WITH
    Users <- Players, Keys <- {}, Amounts <- Int, accounts <- Players

EmptySeat == [player |-> Nobody, stack |-> 0]
NewTable  == [s \in Seats |-> EmptySeat]
NoRequest == [pc |-> "idle", call |-> Nobody, row |-> Nobody, seats |-> NewTable]

(* CreateTable. *)
Init ==
    /\ row = [status |-> "idle", button |-> 0, hand |-> Nobody]
    /\ seats = NewTable
    /\ balance = [p \in Players |-> Opening]
    /\ entries = {}
    /\ hands = << >>
    /\ req = [r \in Requests |-> NoRequest]
    /\ wasSeated = {}
    /\ cutOff = FALSE
    /\ overlapped = FALSE
    /\ requests = 0
    /\ failures = 0
-----------------------------------------------------------------------------
(* The table in memory: operators on the row t and the seats ss. *)

PlayablePlayers(ss) == {s \in Seats : ss[s].player # Nobody /\ ss[s].stack > 0}
IsSeated(p, ss) == \E s \in Seats : ss[s].player = p
SeatByPlayerID(p, ss) == CHOOSE s \in Seats : ss[s].player = p

CanAutoStart(t, ss) ==
    t.status = "idle" /\ Cardinality(PlayablePlayers(ss)) >= 2

NormalizedButtonSeat(t, ss) ==
    CASE PlayablePlayers(ss) = {} -> 0
      [] t.button \in PlayablePlayers(ss) -> t.button
      [] OTHER -> Min(PlayablePlayers(ss))

(* The first seat with a playable player after seat s, around the table. *)
NextPlayable(s, ss) ==
    LET distance == Min({d \in 1 .. SeatCount : (s + d) % SeatCount \in PlayablePlayers(ss)})
    IN  (s + distance) % SeatCount

AdvanceButton(t, ss) ==
    IF PlayablePlayers(ss) = {} THEN 0
    ELSE NextPlayable(NormalizedButtonSeat(t, ss), ss)

applyStacksFromState(ss, stacks) ==
    [s \in Seats |->
        IF ss[s].player \in DOMAIN stacks
        THEN [ss[s] EXCEPT !.stack = stacks[ss[s].player]] ELSE ss[s]]

unseatBustedPlayers(ss) ==
    [s \in Seats |-> IF ss[s].stack = 0 THEN EmptySeat ELSE ss[s]]

TableAfterHandMutant(t, ss) ==  \* the status is not reset
    [t EXCEPT !.hand = Nobody, !.button = AdvanceButton(t, ss)]

TableAfterHand(t, ss) ==
    [status |-> "idle", button |-> AdvanceButton(t, ss), hand |-> Nobody]

(* startHand's request to the engine, by player. *)
StacksOf(ss) ==
    [p \in {ss[s].player : s \in PlayablePlayers(ss)} |->
        ss[SeatByPlayerID(p, ss)].stack]

SmallBlindSeat(t, ss) ==
    LET button == NormalizedButtonSeat(t, ss)
    IN  IF Cardinality(PlayablePlayers(ss)) = 2 THEN button
                                                ELSE NextPlayable(button, ss)

(* The engine's postBlinds refuses a blind that exceeds a stack. *)
CanPostBlinds(t, ss) ==
    LET sb == SmallBlindSeat(t, ss)
    IN  ss[sb].stack >= SmallBlind /\ ss[NextPlayable(sb, ss)].stack >= BigBlind
-----------------------------------------------------------------------------
(* Requests. *)

At(r, pc) == req[r].pc = pc
Call(r)   == req[r].call
Player(r) == req[r].call.player
Running   == {r \in Requests : ~At(r, "idle")}

(* A join or leave that is sent a second time is a duplicate; any other    *)
(* request that comes while one runs overlaps it.                          *)
Overlaps(call) == \E r \in Running : call # Call(r) \/ call.op = "act"

(* A request comes, and the first query of FindTable. *)
FindTable(r, call) ==
    /\ At(r, "idle")
    /\ call.op = "join" => Rejoining \/ call.player \notin wasSeated
    /\ overlapped' = (overlapped \/ Overlaps(call))
    /\ requests < IF overlapped' THEN MaxOverlap ELSE MaxRequests
    /\ requests' = requests + 1
    /\ req' = [req EXCEPT ![r] = [pc |-> "seats", call |-> call, row |-> row,
                                  seats |-> NewTable]]
    /\ UNCHANGED <<table, wallet, hands, wasSeated, cutOff, failures>>

MayJoinMutant(c, t, ss) ==  \* the player may sit at the table already
    c.op = "join" /\ ss[c.seat].player = Nobody

MayJoin(c, t, ss) ==
    c.op = "join" /\ ~IsSeated(c.player, ss) /\ ss[c.seat].player = Nobody

MayLeave(c, t, ss) ==
    c.op = "leave" /\ t.status # "in_hand" /\ IsSeated(c.player, ss)

MayAct(c, t, ss) ==
    c.op = "act" /\ t.hand # Nobody /\ IsSeated(c.player, ss)

(* The second query of FindTable, and what the request checks then. *)
loadSeats(r) ==
    /\ At(r, "seats")
    /\ LET c == Call(r)  t == req[r].row
       IN  req' = [req EXCEPT ![r] =
              CASE MayJoin(c, t, seats) \/ MayLeave(c, t, seats) ->
                      [@ EXCEPT !.pc = "wallet", !.seats = seats]
                [] MayAct(c, t, seats) -> [@ EXCEPT !.pc = "engine", !.seats = seats]
                [] OTHER -> NoRequest]
    /\ UNCHANGED <<table, wallet, hands, wasSeated, cutOff, overlapped, counts>>

joinIdempotencyKeyMutant(r) ==  \* a key of its own for every request
    <<"join", Player(r), r>>

joinIdempotencyKey(r) ==
    <<"join", Player(r), Call(r).seat, Call(r).buyIn, req[r].row,
      Cardinality(PlayablePlayers(req[r].seats))>>

cashoutIdempotencyKey(r, seat) ==
    <<"cashout", Player(r), seat, req[r].seats[seat].stack, req[r].row>>

(* The wallet applies an entry, or has applied one with its key. *)
ApplyLedgerEntry(key, player, amount) ==
    \/ Wallet!Apply([user |-> player, key |-> key, amount |-> amount])
    \/ Wallet!Applied(key) /\ UNCHANGED wallet

(* The table that a request goes on with: the hand to start, or to save. *)
GoOn(r, t, ss) ==
    req' = [req EXCEPT ![r] = [@ EXCEPT
               !.pc = IF CanAutoStart(t, ss) /\ Call(r).op # "leave" THEN "start" ELSE "save",
               !.row = t, !.seats = ss]]

(* JoinTable: the debit, and the seat is taken. *)
DebitForJoin(r) ==
    /\ At(r, "wallet")
    /\ Call(r).op = "join"
    /\ ApplyLedgerEntry(joinIdempotencyKey(r), Player(r), -Call(r).buyIn)
    /\ GoOn(r, req[r].row,
            [req[r].seats EXCEPT ![Call(r).seat] =
                [player |-> Player(r), stack |-> Call(r).buyIn]])
    /\ UNCHANGED <<table, hands, wasSeated, cutOff, overlapped, counts>>

(* ErrInsufficientFunds ends the request. *)
InsufficientFunds(r) ==
    /\ At(r, "wallet")
    /\ Call(r).op = "join"
    /\ ~Wallet!Applied(joinIdempotencyKey(r))
    /\ balance[Player(r)] < Call(r).buyIn
    /\ req' = [req EXCEPT ![r] = NoRequest]
    /\ UNCHANGED <<table, wallet, hands, wasSeated, cutOff, overlapped, counts>>

(* LeaveTable: the credit, and the seat is empty. *)
CreditForCashout(r) ==
    /\ At(r, "wallet")
    /\ Call(r).op = "leave"
    /\ LET seat == SeatByPlayerID(Player(r), req[r].seats)
       IN  /\ ApplyLedgerEntry(cashoutIdempotencyKey(r, seat), Player(r),
                               req[r].seats[seat].stack)
           /\ GoOn(r, req[r].row, [req[r].seats EXCEPT ![seat] = EmptySeat])
    /\ UNCHANGED <<table, hands, wasSeated, cutOff, overlapped, counts>>

Chips(stacks) == SumFunction(stacks)

(* The stacks the engine may answer with at showdown.  A hand that is over *)
(* may be acted on once more (see EngineService), with any outcome.        *)
FinalStacks(h) ==
    LET start == hands[h].stacks
        all   == [DOMAIN start -> 0 .. Chips(start)]
    IN  IF hands[h].over THEN all
        ELSE {stacks \in all : Chips(stacks) \in (Chips(start) - MaxRake) .. Chips(start)}

Over(h, stacks) ==
    [hands EXCEPT ![h] = [over |-> TRUE, stacks |-> stacks,
                          rake |-> @.rake + Chips(@.stacks) - Chips(stacks)]]

(* Act: the engine takes the action and the hand goes on. *)
ApplyActionGoesOn(r) ==
    /\ At(r, "engine")
    /\ LET h == req[r].row.hand
       IN  Player(r) \in DOMAIN hands[h].stacks /\ ~hands[h].over
    /\ req' = [req EXCEPT ![r].pc = "save"]
    /\ UNCHANGED <<table, wallet, hands, wasSeated, cutOff, overlapped, counts>>

(* Act: the hand is at showdown, and the table is made ready for the next. *)
ApplyActionShowdown(r) ==
    /\ At(r, "engine")
    /\ LET h == req[r].row.hand
       IN  /\ Player(r) \in DOMAIN hands[h].stacks
           /\ \E stacks \in FinalStacks(h) :
                 /\ hands' = Over(h, stacks)
                 /\ LET ss == unseatBustedPlayers(applyStacksFromState(req[r].seats, stacks))
                    IN  GoOn(r, TableAfterHand(req[r].row, ss), ss)
    /\ UNCHANGED <<table, wallet, wasSeated, cutOff, overlapped, counts>>

(* The engine refuses the action: the player is not in the hand or it is   *)
(* not the player's turn.                                                  *)
ApplyActionRefused(r) ==
    /\ At(r, "engine")
    /\ req' = [req EXCEPT ![r] = NoRequest]
    /\ UNCHANGED <<table, wallet, hands, wasSeated, cutOff, overlapped, counts>>

(* startHand. *)
StartHand(r) ==
    /\ At(r, "start")
    /\ Len(hands) < MaxHands
    /\ CanPostBlinds(req[r].row, req[r].seats)
    /\ hands' = Append(hands, [over |-> FALSE, stacks |-> StacksOf(req[r].seats), rake |-> 0])
    /\ req' = [req EXCEPT ![r].pc = "save", ![r].row.hand = Len(hands'),
                          ![r].row.status = "in_hand"]
    /\ UNCHANGED <<table, wallet, wasSeated, cutOff, overlapped, counts>>

(* The engine refuses the hand, and the request ends without SaveTable. *)
StartHandRefused(r) ==
    /\ At(r, "start")
    /\ ~CanPostBlinds(req[r].row, req[r].seats)
    /\ req' = [req EXCEPT ![r] = NoRequest]
    /\ cutOff' = TRUE
    /\ UNCHANGED <<table, wallet, hands, wasSeated, overlapped, counts>>

(* One transaction, which replaces the row and all seats. *)
SaveTable(r) ==
    /\ At(r, "save")
    /\ row' = req[r].row
    /\ seats' = req[r].seats
    /\ req' = [req EXCEPT ![r] = NoRequest]
    /\ wasSeated' = IF Call(r).op = "join" THEN wasSeated \cup {Player(r)} ELSE wasSeated
    /\ UNCHANGED <<wallet, hands, cutOff, overlapped, counts>>

(* A call fails, or its answer gets lost, or the process stops. *)
Fail(r) ==
    /\ r \in Running
    /\ failures < MaxFailures
    /\ failures' = failures + 1
    /\ req' = [req EXCEPT ![r] = NoRequest]
    /\ cutOff' = (cutOff \/ req[r].pc \in {"start", "save"})
    /\ UNCHANGED <<table, wallet, hands, wasSeated, overlapped, requests>>

Next ==
    \E r \in Requests :
        \/ \E call \in Calls : FindTable(r, call)
        \/ loadSeats(r)
        \/ DebitForJoin(r)
        \/ InsufficientFunds(r)
        \/ CreditForCashout(r)
        \/ ApplyActionGoesOn(r)
        \/ ApplyActionShowdown(r)
        \/ ApplyActionRefused(r)
        \/ StartHand(r)
        \/ StartHandRefused(r)
        \/ SaveTable(r)
        \/ Fail(r)

Spec == Init /\ [][Next]_vars
-----------------------------------------------------------------------------
(* Properties. *)

(* The rows and the requests have their types; no balance is negative. *)
TypeOK ==
    /\ row \in Rows
    /\ seats \in SeatRows
    /\ balance \in [Players -> Nat]
    /\ \A e \in entries : e.user \in Players /\ e.amount \in Int
    /\ \A h \in DOMAIN hands : hands[h].over \in BOOLEAN /\ hands[h].rake \in Int
    /\ \A r \in Running : req[r].row \in Rows /\ req[r].seats \in SeatRows
    /\ wasSeated \subseteq Players
    /\ overlapped \in BOOLEAN
    /\ requests \in 0 .. MaxRequests
    /\ failures \in 0 .. MaxFailures

(* No request runs, and the requests so far ran one after the other, with  *)
(* duplicates of joins and leaves beside them, and none was cut off after  *)
(* a call that changed money, seats or hands elsewhere.                    *)
AtRest == Running = {} /\ ~cutOff /\ ~overlapped

(* The hands whose result is on the table. *)
Settled == {h \in DOMAIN hands : hands[h].over /\ h # row.hand}

(* Joining, playing and leaving move money and make none: what is in the   *)
(* wallets, on the seats and in the rake is what the players had at first. *)
MoneyConserved ==
    AtRest =>
        SumFunction(balance) + SumFunction([s \in Seats |-> seats[s].stack])
            + SumFunction([h \in Settled |-> hands[h].rake])
        = Opening * Cardinality(Players)

(* A table is in a hand exactly when that hand is running in the engine,   *)
(* and its players then sit with the stacks they started it with.  Two     *)
(* players with chips never wait for a hand, as Join and Act start one; so *)
(* LeaveTable is refused to all but a last player.                         *)
TableFitsHand ==
    AtRest =>
        /\ row.status = "in_hand" <=> row.hand # Nobody
        /\ row.hand # Nobody =>
              LET hand == hands[row.hand]
              IN  /\ ~hand.over
                  /\ \A p \in DOMAIN hand.stacks :
                        \E s \in Seats : seats[s] = [player |-> p, stack |-> hand.stacks[p]]
        /\ row.status = "idle" => Cardinality(PlayablePlayers(seats)) < 2

(* Whatever requests run beside each other and wherever they end: a player *)
(* has one seat at most, an occupied seat has chips and an empty one none, *)
(* and the row says "in_hand" exactly when it names a hand.  The button is *)
(* on a seat of the table and no balance is negative (TypeOK).             *)
SeatsConsistent ==
    /\ TypeOK
    /\ \A s, q \in Seats :
          seats[s].player = seats[q].player /\ seats[s].player # Nobody => s = q
    /\ \A s \in Seats : seats[s].player # Nobody <=> seats[s].stack > 0
    /\ row.status = "in_hand" <=> row.hand # Nobody

(* A join takes the buy-in out of the player's wallet, as the tests have   *)
(* it ("wallet debit = %+v, want 1000").                                   *)
JoinDebitsBuyIn ==
    [][\A r \in Requests :
          DebitForJoin(r) => balance'[Player(r)] = balance[Player(r)] - Call(r).buyIn]_vars
=============================================================================
