------------------------- MODULE TableManagerProofs -------------------------
(***************************************************************************)
(* Proofs about TableManager, for any number of players, seats, requests,  *)
(* hands and failures.  First what holds whatever requests run beside each *)
(* other: the seats and the row are consistent, and no balance is          *)
(* negative.  Then what holds as long as only duplicates of a join or a    *)
(* leave overlap and no request was cut off: no money is made or lost, and *)
(* the table fits the hand that the engine runs.  Last, LiveUpdates: what  *)
(* the subscribers of the engine's PubSub and of the Hub are sent.         *)
(***************************************************************************)
EXTENDS TableManager, LiveUpdates, ChipsProofs

Pcs == {"idle", "seats", "wallet", "engine", "start", "save"}

HandRecords ==
    [over : BOOLEAN, stacks : UNION {[D -> Nat] : D \in SUBSET Players}, rake : Int]

(* A player has one seat at most, and a seat has chips if it has a player. *)
SeatsOK(ss) ==
    /\ ss \in SeatRows
    /\ \A s, q \in Seats : ss[s].player = ss[q].player /\ ss[s].player # Nobody => s = q
    /\ \A s \in Seats : ss[s].player # Nobody <=> ss[s].stack > 0

(* A row names a hand if it says "in_hand", and one of the hands hs. *)
RowOK(t, hs) ==
    /\ t \in Rows
    /\ t.status = "in_hand" <=> t.hand # Nobody
    /\ t.hand # Nobody => t.hand \in DOMAIN hs

(* A request has a sound copy of the table, checked for what comes next. *)
RequestOK(q, hs) ==
    /\ q.call \in Calls
    /\ RowOK(q.row, hs)
    /\ SeatsOK(q.seats)
    /\ q.pc = "wallet" => MayJoin(q.call, q.row, q.seats) \/ MayLeave(q.call, q.row, q.seats)
    /\ q.pc = "engine" => MayAct(q.call, q.row, q.seats)
    /\ q.pc = "start" => CanAutoStart(q.row, q.seats)

RequestRecords ==
    [pc : Pcs, call : Calls \cup {Nobody}, row : Rows \cup {Nobody}, seats : SeatRows]

(* The types of the variables, and of the counters what their bounds say. *)
Shape ==
    /\ balance \in [Players -> Nat]
    /\ \A e \in entries : e.user \in Players /\ e.amount \in Int
    /\ hands \in Seq(HandRecords) /\ Len(hands) <= MaxHands
    /\ \A h \in DOMAIN hands : ~hands[h].over => hands[h].rake = 0
    /\ req \in [Requests -> RequestRecords]
    /\ wasSeated \subseteq Players
    /\ cutOff \in BOOLEAN /\ overlapped \in BOOLEAN
    /\ requests \in 0 .. MaxRequests
    /\ failures \in 0 .. MaxFailures

TableInv ==
    /\ Shape
    /\ RowOK(row, hands)
    /\ SeatsOK(seats)
    /\ \A r \in Requests : req[r].pc # "idle" => RequestOK(req[r], hands)
-----------------------------------------------------------------------------
(* Money, while only duplicates overlap. *)

Stacks(ss) == [s \in Seats |-> ss[s].stack]
OverHands(hs) == {h \in DOMAIN hs : hs[h].over}
Rakes(hs) == [h \in OverHands(hs) |-> hs[h].rake]

(* All money is there: in the wallets bs, on the seats ss and in the rake  *)
(* of the hands hs.                                                        *)
Money(bs, ss, hs) ==
    SumFunction(bs) + SumFunction(Stacks(ss)) + SumFunction(Rakes(hs))
        = Opening * Cardinality(Players)

(* Row t and seats ss fit the engine's hands hs. *)
Fits(t, ss, hs) ==
    /\ t.hand # Nobody =>
          /\ ~hs[t.hand].over
          /\ \A p \in DOMAIN hs[t.hand].stacks :
                \E s \in Seats : ss[s] = [player |-> p, stack |-> hs[t.hand].stacks[p]]
    /\ t.status = "idle" => Cardinality(PlayablePlayers(ss)) < 2

(* The seats after a join or a leave, and the key of its ledger entry. *)
After(c, ss) ==
    IF c.op = "join" THEN [ss EXCEPT ![c.seat] = [player |-> c.player, stack |-> c.buyIn]]
    ELSE [ss EXCEPT ![SeatByPlayerID(c.player, ss)] = EmptySeat]

Key(c, t, ss) ==
    IF c.op = "join"
    THEN <<"join", c.player, c.seat, c.buyIn, t, Cardinality(PlayablePlayers(ss))>>
    ELSE <<"cashout", c.player, SeatByPlayerID(c.player, ss),
           ss[SeatByPlayerID(c.player, ss)].stack, t>>

HasKey(es, key) == \E e \in es : e.key = key

(* The seats ss do not show the call's effect. *)
Before(c, ss) == IF c.op = "join" THEN ~IsSeated(c.player, ss) ELSE IsSeated(c.player, ss)

(* What a request has done is in its copy of the table and not saved. *)
Ahead(q) == q.pc \in {"start", "save"}

Serial == ~cutOff /\ ~overlapped

SameCall ==
    \A r, q \in Running : r # q => req[r].call = req[q].call /\ req[r].call.op # "act"

(* Copies that are not changed yet are those of the stored table, or, once *)
(* a duplicate has saved, of the one before; its entry is applied then.    *)
CopyOK(q) ==
    /\ q.call.op = "act" \/ Before(q.call, seats) =>
          /\ q.row = row
          /\ q.pc # "seats" => q.seats = seats
    /\ q.pc = "wallet" /\ ~Before(q.call, seats) =>
          /\ After(q.call, q.seats) = seats
          /\ Fits(q.row, q.seats, hands)
          /\ HasKey(entries, Key(q.call, q.row, q.seats))
    /\ q.call.op = "join" /\ Before(q.call, seats) => q.call.player \notin wasSeated

(* A changed copy has all the money, and fits the hand once it may be      *)
(* saved.                                                                  *)
AheadOK(q) ==
    /\ Money(balance, q.seats, hands)
    /\ q.pc = "save" => Fits(q.row, q.seats, hands)
    /\ q.call.op = "act" => \A p \in Players : IsSeated(p, q.seats) => IsSeated(p, seats)
    /\ q.call.op # "act" /\ Before(q.call, seats) =>
          /\ q.seats = After(q.call, seats)
          /\ HasKey(entries, Key(q.call, row, seats))
    /\ q.call.op # "act" /\ ~Before(q.call, seats) => q.seats = seats
    /\ q.call.op = "join" /\ Before(q.call, seats) => q.call.player \notin wasSeated

(* The stored table has all the money and fits the hand, but for a request *)
(* that is ahead of it.                                                    *)
StoredOK ==
    /\ Money(balance, seats, hands) \/
          \E r \in Running : Ahead(req[r]) /\ (req[r].call.op = "act" \/ Before(req[r].call, seats))
    /\ Fits(row, seats, hands) \/ \E r \in Running : Ahead(req[r]) /\ req[r].call.op = "act"
    /\ \A p \in Players : IsSeated(p, seats) => p \in wasSeated

(* A player has an entry for a join or a leave only if that was saved or   *)
(* is ahead.                                                               *)
HasAhead(op, p) ==
    \E r \in Running : Ahead(req[r]) /\ req[r].call.op = op /\ req[r].call.player = p

EntriesOK ==
    \A e \in entries :
        /\ e.key[1] = "join" => e.key[2] \in wasSeated \/ HasAhead("join", e.key[2])
        /\ e.key[1] = "cashout" =>
              /\ e.key[2] \in wasSeated
              /\ ~IsSeated(e.key[2], seats) \/ HasAhead("leave", e.key[2])

RequestsFit == \A r \in Running : IF Ahead(req[r]) THEN AheadOK(req[r]) ELSE CopyOK(req[r])

AllAddsUp == SameCall /\ RequestsFit /\ StoredOK /\ EntriesOK

MoneyInv == Serial => AllAddsUp
-----------------------------------------------------------------------------
(* Operators on the table. *)

(* A set of numbers has a least one. *)
LEMMA MinIsLeast ==
    ASSUME NEW S, S \subseteq Nat, S # {}
    PROVE  Min(S) \in S /\ \A y \in S : Min(S) <= y
<1>1. \E x \in S : \A y \in S : x <= y
  <2> SUFFICES ASSUME ~ \E x \in S : \A y \in S : x <= y PROVE FALSE
    OBVIOUS
  <2> DEFINE T == {n \in Nat : \A y \in S : n <= y}
  <2>1. 0 \in T
    OBVIOUS
  <2>2. ASSUME NEW n \in Nat, n \in T PROVE n + 1 \in T
    <3>1. \A y \in S : n <= y
      BY <2>2
    <3>2. n \notin S
      BY <3>1
    <3>3. \A y \in S : n + 1 <= y
      BY <3>1, <3>2
    <3> QED
      BY <3>3
  <2>3. \A n \in Nat : n \in T
    <3> HIDE DEF T
    <3> QED
      BY <2>1, <2>2, SetInduction
  <2>4. PICK x \in S : TRUE
    OBVIOUS
  <2>5. x + 1 \in T
    BY <2>3, <2>4
  <2> QED
    BY <2>4, <2>5
<1> QED
  BY <1>1 DEF Min

LEMMA SeatsFacts ==
    /\ SeatCount \in Nat /\ SeatCount > 0 /\ 0 \in Seats /\ Seats \subseteq Nat
    /\ IsFiniteSet(Seats)
    /\ \A n \in Nat : n % SeatCount \in Seats
    /\ Nobody \notin Players /\ Nobody \notin Nat
<1>1. SeatCount \in Nat /\ SeatCount > 0 /\ 0 \in Seats /\ Seats \subseteq Nat
  BY TableConfig DEF Seats
<1>2. IsFiniteSet(Seats)
  BY <1>1, FS_Interval DEF Seats
<1>3. ASSUME NEW n \in Nat PROVE n % SeatCount \in Seats
  <2>1. n % SeatCount \in 0 .. SeatCount - 1
    BY <1>1
  <2> QED
    BY <2>1 DEF Seats
<1> QED
  BY <1>1, <1>2, <1>3, NobodyAssumption

(* Every seat is some steps around the table from every other. *)
LEMMA AroundTheTable ==
    ASSUME NEW s \in Seats, NEW x \in Seats
    PROVE  \E d \in 1 .. SeatCount : (s + d) % SeatCount = x
<1> DEFINE n == SeatCount
<1>1. n \in Nat /\ n > 0 /\ s \in 0 .. n - 1 /\ x \in 0 .. n - 1
  BY SeatsFacts DEF Seats
<1> HIDE DEF n
<1>2. x % n = x /\ (x + n) % n = x
  <2>1. x % n = x
    BY <1>1
  <2>2. x + n = 1 * n + x
    BY <1>1
  <2> QED
    BY <1>1, <2>1, <2>2
<1>3. CASE x > s
  <2>1. x - s \in 1 .. n /\ s + (x - s) = x
    BY <1>1, <1>3
  <2> QED
    BY <1>2, <2>1 DEF n
<1>4. CASE x <= s
  <2>1. x - s + n \in 1 .. n /\ s + (x - s + n) = x + n
    BY <1>1, <1>4
  <2> QED
    BY <1>2, <2>1 DEF n
<1> QED
  BY <1>1, <1>3, <1>4

LEMMA NextPlayableIsPlayable ==
    ASSUME NEW ss, NEW s \in Seats, PlayablePlayers(ss) # {}
    PROVE  NextPlayable(s, ss) \in PlayablePlayers(ss) /\ NextPlayable(s, ss) \in Seats
<1> DEFINE D == {d \in 1 .. SeatCount : (s + d) % SeatCount \in PlayablePlayers(ss)}
<1>1. PlayablePlayers(ss) \subseteq Seats
  BY DEF PlayablePlayers
<1>2. D # {} /\ D \subseteq Nat
  <2>1. PICK x \in PlayablePlayers(ss) : TRUE
    OBVIOUS
  <2>2. \E d \in 1 .. SeatCount : (s + d) % SeatCount = x
    BY <1>1, AroundTheTable
  <2> QED
    BY <2>2
<1>3. Min(D) \in D
  <2> HIDE DEF D
  <2> QED
    BY <1>2, MinIsLeast
<1>4. (s + Min(D)) % SeatCount \in PlayablePlayers(ss)
  BY <1>3
<1> QED
  BY <1>1, <1>4 DEF NextPlayable

LEMMA ButtonIsSeat ==
    ASSUME NEW ss, NEW t, t.button \in Seats
    PROVE  AdvanceButton(t, ss) \in Seats /\ NormalizedButtonSeat(t, ss) \in Seats
<1>1. PlayablePlayers(ss) \subseteq Seats /\ PlayablePlayers(ss) \subseteq Nat
  BY SeatsFacts DEF PlayablePlayers
<1>2. NormalizedButtonSeat(t, ss) \in Seats
  <2>1. PlayablePlayers(ss) # {} => Min(PlayablePlayers(ss)) \in Seats
    BY <1>1, MinIsLeast
  <2> QED
    BY <1>1, <2>1, SeatsFacts DEF NormalizedButtonSeat
<1> QED
  BY <1>2, NextPlayableIsPlayable, SeatsFacts DEF AdvanceButton

(* A join with its checks passed, a leave and a showdown keep the seats    *)
(* consistent.                                                             *)
LEMMA AfterJoin ==
    ASSUME NEW c \in Calls, NEW t, NEW ss, SeatsOK(ss), MayJoin(c, t, ss)
    PROVE  /\ SeatsOK(After(c, ss))
           /\ c.seat \in Seats /\ c.player \in Players /\ c.buyIn \in Nat /\ c.buyIn > 0
           /\ After(c, ss)[c.seat] = [player |-> c.player, stack |-> c.buyIn]
           /\ \A s \in Seats : s # c.seat => After(c, ss)[s] = ss[s]
           /\ ss[c.seat].player = Nobody /\ ss[c.seat].stack = 0
<1>1. /\ c.op = "join" /\ ~IsSeated(c.player, ss) /\ ss[c.seat].player = Nobody
  BY DEF MayJoin
<1>2. c.seat \in Seats /\ c.player \in Players /\ c.buyIn \in Nat /\ c.buyIn > 0
  <2>1. c \in [op : {"join"}, player : Players, seat : Seats, buyIn : BuyIns]
    BY <1>1 DEF Calls
  <2>2. c.seat \in Seats /\ c.player \in Players /\ c.buyIn \in BuyIns
    BY <2>1
  <2>3. c.buyIn \in Nat /\ c.buyIn # 0
    BY <2>2, BuyInAssumption
  <2> QED
    BY <2>2, <2>3
<1>3. /\ ss \in SeatRows
      /\ \A s, q \in Seats : ss[s].player = ss[q].player /\ ss[s].player # Nobody => s = q
      /\ \A s \in Seats : ss[s].player # Nobody <=> ss[s].stack > 0
  BY DEF SeatsOK
<1> DEFINE taken == [player |-> c.player, stack |-> c.buyIn]
           new == [ss EXCEPT ![c.seat] = taken]
<1>4. taken \in [player : Players \cup {Nobody}, stack : Nat]
  BY <1>2
<1>5. /\ new \in SeatRows /\ new[c.seat] = taken
      /\ \A s \in Seats : s # c.seat => new[s] = ss[s]
  BY <1>2, <1>3, <1>4 DEF SeatRows
<1>6. After(c, ss) = new
  BY <1>1 DEF After
<1>7. taken.player = c.player /\ taken.stack = c.buyIn
  OBVIOUS
<1> HIDE DEF new, taken
<1>8. \A s \in Seats : ss[s].player # c.player
  BY <1>1 DEF IsSeated
<1>9. SeatsOK(new)
  BY <1>2, <1>3, <1>5, <1>7, <1>8, SeatsFacts DEF SeatsOK
<1>10. ss[c.seat].stack = 0
  BY <1>1, <1>2, <1>3 DEF SeatRows
<1> QED
  BY <1>1, <1>2, <1>5, <1>6, <1>9, <1>10 DEF taken

LEMMA AfterLeave ==
    ASSUME NEW c \in Calls, NEW ss, SeatsOK(ss), c.op = "leave", IsSeated(c.player, ss)
    PROVE  /\ SeatsOK(After(c, ss)) /\ c.player \in Players
           /\ \E seat \in Seats :
                 /\ seat = SeatByPlayerID(c.player, ss)
                 /\ ss[seat].player = c.player /\ ss[seat].stack \in Nat
                 /\ After(c, ss)[seat] = EmptySeat
                 /\ \A s \in Seats : s # seat => After(c, ss)[s] = ss[s]
           /\ ~IsSeated(c.player, After(c, ss))
<1> DEFINE seat == SeatByPlayerID(c.player, ss)
           new == [ss EXCEPT ![seat] = EmptySeat]
<1>1. seat \in Seats /\ ss[seat].player = c.player
  BY DEF IsSeated, SeatByPlayerID
<1>2. c.player \in Players
  BY DEF Calls
<1>3. /\ ss \in SeatRows
      /\ \A s, q \in Seats : ss[s].player = ss[q].player /\ ss[s].player # Nobody => s = q
      /\ \A s \in Seats : ss[s].player # Nobody <=> ss[s].stack > 0
  BY DEF SeatsOK
<1>4. EmptySeat \in [player : Players \cup {Nobody}, stack : Nat]
      /\ EmptySeat.player = Nobody /\ EmptySeat.stack = 0
  BY DEF EmptySeat
<1>5. After(c, ss) = new
  BY DEF After
<1> HIDE DEF seat
<1>6. /\ new \in SeatRows /\ new[seat] = EmptySeat
      /\ \A s \in Seats : s # seat => new[s] = ss[s]
  BY <1>1, <1>3, <1>4 DEF SeatRows
<1> HIDE DEF new
<1>7. SeatsOK(new)
  BY <1>1, <1>3, <1>4, <1>6 DEF SeatsOK
<1>8. ~IsSeated(c.player, new)
  <2>1. \A s \in Seats : s # seat => new[s].player # c.player
    BY <1>1, <1>2, <1>3, <1>6, SeatsFacts
  <2>2. new[seat].player # c.player
    BY <1>2, <1>4, <1>6, SeatsFacts
  <2> QED
    BY <2>1, <2>2 DEF IsSeated
<1>9. ss[seat].stack \in Nat
  BY <1>1, <1>3 DEF SeatRows
<1>10. seat = SeatByPlayerID(c.player, ss)
  BY DEF seat
<1> QED
  BY <1>1, <1>2, <1>5, <1>6, <1>7, <1>8, <1>9, <1>10

LEMMA AfterShowdown ==
    ASSUME NEW ss, SeatsOK(ss), NEW D \in SUBSET Players, NEW stacks \in [D -> Nat]
    PROVE  LET new == unseatBustedPlayers(applyStacksFromState(ss, stacks))
           IN  /\ SeatsOK(new)
               /\ \A s \in Seats :
                     /\ new[s].player \in {ss[s].player, Nobody}
                     /\ new[s].stack = IF ss[s].player \in D THEN stacks[ss[s].player]
                                                             ELSE ss[s].stack
<1> DEFINE mid == applyStacksFromState(ss, stacks)
           new == unseatBustedPlayers(mid)
<1>1. /\ ss \in SeatRows
      /\ \A s, q \in Seats : ss[s].player = ss[q].player /\ ss[s].player # Nobody => s = q
      /\ \A s \in Seats : ss[s].player # Nobody <=> ss[s].stack > 0
  BY DEF SeatsOK
<1>2. /\ mid \in SeatRows
      /\ \A s \in Seats :
            /\ mid[s].player = ss[s].player
            /\ mid[s].stack = IF ss[s].player \in D THEN stacks[ss[s].player] ELSE ss[s].stack
  <2>1. DOMAIN stacks = D
    OBVIOUS
  <2>2. \A s \in Seats : ss[s] \in [player : Players \cup {Nobody}, stack : Nat]
    BY <1>1 DEF SeatRows
  <2>3. mid = [s \in Seats |-> IF ss[s].player \in D
                               THEN [ss[s] EXCEPT !.stack = stacks[ss[s].player]] ELSE ss[s]]
    BY <2>1 DEF applyStacksFromState
  <2> HIDE DEF mid
  <2> QED
    BY <2>2, <2>3 DEF SeatRows
<1>3. new = [s \in Seats |-> IF mid[s].stack = 0 THEN EmptySeat ELSE mid[s]]
  BY DEF unseatBustedPlayers
<1> HIDE DEF mid, new
<1>4. /\ EmptySeat \in [player : Players \cup {Nobody}, stack : Nat]
      /\ EmptySeat.player = Nobody /\ EmptySeat.stack = 0
  BY DEF EmptySeat
<1>5. \A s \in Seats : /\ mid[s] \in [player : Players \cup {Nobody}, stack : Nat]
                       /\ mid[s].stack \in Nat
  BY <1>2 DEF SeatRows
<1>6. new \in SeatRows
  BY <1>3, <1>4, <1>5 DEF SeatRows
<1>7. \A s \in Seats :
         /\ new[s].stack = mid[s].stack
         /\ mid[s].stack = 0 => new[s].player = Nobody
         /\ mid[s].stack > 0 => new[s].player = ss[s].player
  BY <1>2, <1>3, <1>4, <1>5
<1>8. \A s \in Seats : mid[s].stack > 0 => ss[s].player # Nobody
  BY <1>1, <1>2, SeatsFacts
<1>9. SeatsOK(new)
  BY <1>1, <1>5, <1>6, <1>7, <1>8 DEF SeatsOK
<1>10. \A s \in Seats : new[s].player \in {ss[s].player, Nobody}
  BY <1>5, <1>7
<1> QED
  BY <1>2, <1>7, <1>9, <1>10 DEF new, mid
-----------------------------------------------------------------------------
(* TableInv: what the steps do to the requests. *)

LEMMA NewTableOK == SeatsOK(NewTable) /\ NoRequest \in RequestRecords /\ NoRequest.pc = "idle"
<1>1. EmptySeat \in [player : Players \cup {Nobody}, stack : Nat]
      /\ EmptySeat.player = Nobody /\ EmptySeat.stack = 0
  BY DEF EmptySeat
<1>2. NewTable \in SeatRows /\ \A s \in Seats : NewTable[s] = EmptySeat
  BY <1>1 DEF NewTable, SeatRows
<1>3. SeatsOK(NewTable)
  BY <1>1, <1>2 DEF SeatsOK
<1> QED
  BY <1>2, <1>3 DEF NoRequest, RequestRecords, Pcs

(* Request r is replaced by x and the others stay. *)
Replaced(f, g, r, x) ==
    /\ g \in [Requests -> RequestRecords] /\ g[r] = x
    /\ \A q \in Requests : q # r => g[q] = f[q]

LEMMA ReplaceRequest ==
    ASSUME NEW f \in [Requests -> RequestRecords], NEW r \in Requests, NEW x \in RequestRecords
    PROVE  Replaced(f, [f EXCEPT ![r] = x], r, x)
  BY DEF Replaced

(* What is left to show when one request steps. *)
LEMMA RequestStep ==
    ASSUME TableInv, NEW r \in Requests, NEW x, Replaced(req, req', r, x),
           x.pc # "idle" => RequestOK(x, hands'),
           DOMAIN hands \subseteq DOMAIN hands',
           Shape', RowOK(row', hands'), SeatsOK(seats')
    PROVE  TableInv'
<1>1. ASSUME NEW q \in Requests, req'[q].pc # "idle"
      PROVE  RequestOK(req'[q], hands')
  <2>1. CASE q = r
    BY <1>1, <2>1 DEF Replaced
  <2>2. CASE q # r
    <3>1. req'[q] = req[q] /\ RequestOK(req[q], hands)
      BY <1>1, <2>2 DEF Replaced, TableInv
    <3>2. RequestOK(req[q], hands')
      BY <3>1 DEF RequestOK, RowOK
    <3> QED
      BY <3>1, <3>2
  <2> QED
    BY <2>1, <2>2
<1> QED
  BY <1>1 DEF TableInv

(* A request ends and nothing else changes but the counters. *)
LEMMA EndOfRequest ==
    ASSUME TableInv, NEW r \in Requests, req' = [req EXCEPT ![r] = NoRequest],
           UNCHANGED <<row, seats, balance, entries, hands, wasSeated, overlapped, requests>>,
           cutOff' \in BOOLEAN, failures' \in 0 .. MaxFailures
    PROVE  TableInv' /\ Replaced(req, req', r, NoRequest)
<1>1. Replaced(req, req', r, NoRequest)
  BY NewTableOK, ReplaceRequest DEF TableInv, Shape
<1>2. Shape'
  BY <1>1 DEF TableInv, Shape, Replaced
<1> QED
  BY <1>1, <1>2, NewTableOK, RequestStep DEF TableInv

LEMMA GoOnStep ==
    ASSUME TableInv, NEW r \in Requests, req[r].pc # "idle",
           NEW t, NEW ss, GoOn(r, t, ss), SeatsOK(ss), RowOK(t, hands')
    PROVE  \E x :
              /\ Replaced(req, req', r, x)
              /\ x.pc = IF CanAutoStart(t, ss) /\ req[r].call.op # "leave" THEN "start" ELSE "save"
              /\ x.call = req[r].call /\ x.row = t /\ x.seats = ss
              /\ RequestOK(x, hands')
<1> DEFINE pc == IF CanAutoStart(t, ss) /\ req[r].call.op # "leave" THEN "start" ELSE "save"
           x == [req[r] EXCEPT !.pc = pc, !.row = t, !.seats = ss]
<1>1. req \in [Requests -> RequestRecords] /\ req[r] \in RequestRecords /\ req[r].call \in Calls
  BY DEF TableInv, Shape, RequestOK
<1>2. pc \in {"start", "save"} /\ t \in Rows /\ ss \in SeatRows
  BY DEF RowOK, SeatsOK
<1>3. req' = [req EXCEPT ![r] = x]
  BY <1>1 DEF GoOn, Call
<1> HIDE DEF pc
<1>4. x \in RequestRecords /\ x.pc = pc /\ x.call = req[r].call /\ x.row = t /\ x.seats = ss
  BY <1>1, <1>2 DEF RequestRecords, Pcs
<1> HIDE DEF x
<1>5. Replaced(req, req', r, x)
  BY <1>1, <1>3, <1>4, ReplaceRequest
<1>6. pc = "start" => CanAutoStart(t, ss)
  BY DEF pc
<1>7. RequestOK(x, hands')
  BY <1>1, <1>2, <1>4, <1>6 DEF RequestOK
<1> QED
  BY <1>4, <1>5, <1>7 DEF pc

LEMMA FindTableStep ==
    ASSUME TableInv, NEW r \in Requests, NEW call \in Calls, FindTable(r, call)
    PROVE  TableInv'
           /\ Replaced(req, req', r, [pc |-> "seats", call |-> call, row |-> row, seats |-> NewTable])
<1> DEFINE x == [pc |-> "seats", call |-> call, row |-> row, seats |-> NewTable]
<1>1. /\ req' = [req EXCEPT ![r] = x]
      /\ UNCHANGED <<row, seats, balance, entries, hands, wasSeated, cutOff, failures>>
      /\ overlapped' = (overlapped \/ Overlaps(call))
      /\ requests < (IF overlapped' THEN MaxOverlap ELSE MaxRequests)
      /\ requests' = requests + 1
  BY DEF FindTable, table, wallet
<1>2. x \in RequestRecords
  BY NewTableOK DEF RequestRecords, Pcs, TableInv, RowOK, SeatsOK
<1>3. Replaced(req, req', r, x)
  BY <1>1, <1>2, ReplaceRequest DEF TableInv, Shape
<1>4. overlapped' \in BOOLEAN
  BY <1>1 DEF TableInv, Shape
<1>5. requests' \in 0 .. MaxRequests
  BY <1>1, BoundsAssumption DEF TableInv, Shape
<1>6. Shape'
  BY <1>1, <1>3, <1>4, <1>5 DEF TableInv, Shape, Replaced
<1>7. RequestOK(x, hands')
  BY <1>1, NewTableOK DEF TableInv, RequestOK
<1>8. TableInv'
  <2>1. RowOK(row', hands') /\ SeatsOK(seats') /\ DOMAIN hands \subseteq DOMAIN hands'
    BY <1>1 DEF TableInv
  <2> HIDE DEF x
  <2> QED
    BY <1>3, <1>6, <1>7, <2>1, RequestStep
<1> QED
  BY <1>3, <1>8

LEMMA LoadSeatsStep ==
    ASSUME TableInv, NEW r \in Requests, loadSeats(r)
    PROVE  /\ TableInv'
           /\ \/ Replaced(req, req', r, NoRequest)
              \/ \E x : /\ Replaced(req, req', r, x)
                        /\ x.call = req[r].call /\ x.row = req[r].row /\ x.seats = seats
                        /\ \/ /\ x.pc = "wallet"
                              /\ \/ MayJoin(x.call, x.row, x.seats)
                                 \/ MayLeave(x.call, x.row, x.seats)
                           \/ x.pc = "engine" /\ MayAct(x.call, x.row, x.seats)
<1> DEFINE c == req[r].call
           t == req[r].row
           wal == [req[r] EXCEPT !.pc = "wallet", !.seats = seats]
           eng == [req[r] EXCEPT !.pc = "engine", !.seats = seats]
           x == CASE MayJoin(c, t, seats) \/ MayLeave(c, t, seats) -> wal
                  [] MayAct(c, t, seats) -> eng
                  [] OTHER -> NoRequest
<1>1. /\ req[r].pc = "seats"
      /\ req' = [req EXCEPT ![r] = x]
      /\ UNCHANGED <<row, seats, balance, entries, hands, wasSeated, cutOff, overlapped,
                     requests, failures>>
  BY DEF loadSeats, At, Call, table, wallet, counts, TableInv, Shape
<1>2. /\ req \in [Requests -> RequestRecords] /\ req[r] \in RequestRecords
      /\ c \in Calls /\ RowOK(t, hands) /\ SeatsOK(seats) /\ seats \in SeatRows
  BY <1>1 DEF TableInv, Shape, RequestOK, SeatsOK
<1>3. /\ wal \in RequestRecords /\ wal.pc = "wallet" /\ wal.call = c /\ wal.row = t
      /\ wal.seats = seats
      /\ eng \in RequestRecords /\ eng.pc = "engine" /\ eng.call = c /\ eng.row = t
      /\ eng.seats = seats
  BY <1>2 DEF RequestRecords, Pcs
<1>4. \/ x = wal /\ (MayJoin(c, t, seats) \/ MayLeave(c, t, seats))
      \/ x = eng /\ MayAct(c, t, seats)
      \/ x = NoRequest
  <2> HIDE DEF wal, eng
  <2> QED
    OBVIOUS
<1> HIDE DEF x, wal, eng
<1>5. x \in RequestRecords
  BY <1>3, <1>4, NewTableOK
<1>6. Replaced(req, req', r, x)
  BY <1>1, <1>2, <1>5, ReplaceRequest
<1>7. Shape'
  BY <1>1, <1>6 DEF TableInv, Shape, Replaced
<1>8. x.pc # "idle" => RequestOK(x, hands')
  <2> HIDE DEF c, t
  <2> QED
    BY <1>1, <1>2, <1>3, <1>4, NewTableOK DEF RequestOK
<1>9. TableInv'
  BY <1>1, <1>6, <1>7, <1>8, RequestStep DEF TableInv
<1> QED
  BY <1>3, <1>4, <1>6, <1>9

(* The wallet applies an entry, or has one with the key. *)
LEMMA LedgerStep ==
    ASSUME TableInv, NEW key, NEW p \in Players, NEW amount \in Int,
           ApplyLedgerEntry(key, p, amount)
    PROVE  /\ balance' \in [Players -> Nat]
           /\ \A e \in entries' : e.user \in Players /\ e.amount \in Int
           /\ \/ /\ ~HasKey(entries, key)
                 /\ balance'[p] = balance[p] + amount
                 /\ \A q \in Players : q # p => balance'[q] = balance[q]
                 /\ entries' = entries \cup {[user |-> p, key |-> key, amount |-> amount]}
              \/ HasKey(entries, key) /\ balance' = balance /\ entries' = entries
<1>1. /\ balance \in [Players -> Nat]
      /\ \A e \in entries : e.user \in Players /\ e.amount \in Int
  BY DEF TableInv, Shape
<1>2. CASE Wallet!Apply([user |-> p, key |-> key, amount |-> amount])
  <2>1. /\ ~HasKey(entries, key) /\ balance[p] + amount >= 0
        /\ balance' = [balance EXCEPT ![p] = @ + amount]
        /\ entries' = entries \cup {[user |-> p, key |-> key, amount |-> amount]}
    BY <1>2 DEF Wallet!Apply, Wallet!Applied, HasKey
  <2>2. balance[p] + amount \in Nat
    BY <1>1, <2>1
  <2>3. /\ balance' \in [Players -> Nat]
        /\ balance'[p] = balance[p] + amount
        /\ \A q \in Players : q # p => balance'[q] = balance[q]
    BY <1>1, <2>1, <2>2
  <2>4. \A e \in entries' : e.user \in Players /\ e.amount \in Int
    BY <1>1, <2>1
  <2> QED
    BY <2>1, <2>3, <2>4
<1>3. CASE Wallet!Applied(key) /\ UNCHANGED wallet
  BY <1>1, <1>3 DEF Wallet!Applied, HasKey, wallet
<1> QED
  BY <1>2, <1>3 DEF ApplyLedgerEntry

(* The amount of the ledger entry of a join or a leave. *)
Amount(c, ss) == IF c.op = "join" THEN -c.buyIn ELSE ss[SeatByPlayerID(c.player, ss)].stack

(* The seats after either, and that they have the amount more or less. *)
LEMMA AfterCall ==
    ASSUME NEW c \in Calls, NEW t, NEW ss, SeatsOK(ss), MayJoin(c, t, ss) \/ MayLeave(c, t, ss)
    PROVE  /\ c.op \in {"join", "leave"} /\ c.player \in Players
           /\ SeatsOK(After(c, ss))
           /\ Amount(c, ss) \in Int
           /\ Before(c, ss) /\ ~Before(c, After(c, ss))
           /\ \E seat \in Seats :
                 /\ \A s \in Seats : s # seat => After(c, ss)[s] = ss[s]
                 /\ c.op = "join" =>
                       /\ After(c, ss)[seat] = [player |-> c.player, stack |-> c.buyIn]
                       /\ ss[seat].player = Nobody
                 /\ c.op = "leave" => After(c, ss)[seat].player = Nobody
                 /\ After(c, ss)[seat].stack = ss[seat].stack - Amount(c, ss)
<1>1. CASE MayJoin(c, t, ss)
  <2>1. c.op = "join" /\ ~IsSeated(c.player, ss)
    BY <1>1 DEF MayJoin
  <2>2. /\ SeatsOK(After(c, ss))
        /\ c.seat \in Seats /\ c.player \in Players /\ c.buyIn \in Nat /\ c.buyIn > 0
        /\ After(c, ss)[c.seat] = [player |-> c.player, stack |-> c.buyIn]
        /\ \A s \in Seats : s # c.seat => After(c, ss)[s] = ss[s]
        /\ ss[c.seat].player = Nobody /\ ss[c.seat].stack = 0
    BY <1>1, AfterJoin
  <2>3. Amount(c, ss) = -c.buyIn
    BY <2>1 DEF Amount
  <2>4. After(c, ss)[c.seat].stack = c.buyIn /\ After(c, ss)[c.seat].player = c.player
    BY <2>2
  <2>5. IsSeated(c.player, After(c, ss))
    BY <2>2, <2>4 DEF IsSeated
  <2>6. After(c, ss)[c.seat].stack = ss[c.seat].stack - Amount(c, ss)
    BY <2>2, <2>3, <2>4
  <2>7. Amount(c, ss) \in Int
    BY <2>2, <2>3
  <2> QED
    BY <2>1, <2>2, <2>5, <2>6, <2>7 DEF Before
<1>2. CASE MayLeave(c, t, ss)
  <2>1. c.op = "leave" /\ IsSeated(c.player, ss)
    BY <1>2 DEF MayLeave
  <2>2. /\ SeatsOK(After(c, ss)) /\ c.player \in Players
        /\ ~IsSeated(c.player, After(c, ss))
    BY <2>1, AfterLeave
  <2>3. PICK seat \in Seats :
           /\ seat = SeatByPlayerID(c.player, ss)
           /\ ss[seat].player = c.player /\ ss[seat].stack \in Nat
           /\ After(c, ss)[seat] = EmptySeat
           /\ \A s \in Seats : s # seat => After(c, ss)[s] = ss[s]
    BY <2>1, AfterLeave
  <2>4. Amount(c, ss) = ss[seat].stack
    BY <2>1, <2>3 DEF Amount
  <2>5. After(c, ss)[seat].player = Nobody /\ After(c, ss)[seat].stack = 0
    BY <2>3 DEF EmptySeat
  <2>6. After(c, ss)[seat].stack = ss[seat].stack - Amount(c, ss)
    BY <2>3, <2>4, <2>5
  <2>7. Amount(c, ss) \in Int
    BY <2>3, <2>4
  <2> QED
    BY <2>1, <2>2, <2>3, <2>5, <2>6, <2>7 DEF Before
<1> QED
  BY <1>1, <1>2

LEMMA SeatAfterCall ==
    ASSUME NEW c \in Calls, NEW t, NEW ss, SeatsOK(ss), MayJoin(c, t, ss) \/ MayLeave(c, t, ss)
    PROVE  \E seat \in Seats :
              /\ \A s \in Seats : s # seat => After(c, ss)[s] = ss[s]
              /\ c.op = "join" => ss[seat].player = Nobody
              /\ c.op = "leave" => After(c, ss)[seat].player = Nobody
              /\ After(c, ss)[seat].stack = ss[seat].stack - Amount(c, ss)
<1>1. \E seat \in Seats :
         /\ \A s \in Seats : s # seat => After(c, ss)[s] = ss[s]
         /\ c.op = "join" =>
               /\ After(c, ss)[seat] = [player |-> c.player, stack |-> c.buyIn]
               /\ ss[seat].player = Nobody
         /\ c.op = "leave" => After(c, ss)[seat].player = Nobody
         /\ After(c, ss)[seat].stack = ss[seat].stack - Amount(c, ss)
  BY AfterCall
<1> QED
  BY <1>1

(* DebitForJoin and CreditForCashout. *)
LEMMA WalletStep ==
    ASSUME TableInv, NEW r \in Requests, DebitForJoin(r) \/ CreditForCashout(r)
    PROVE  /\ TableInv'
           /\ req[r].pc = "wallet"
           /\ ApplyLedgerEntry(Key(req[r].call, req[r].row, req[r].seats), req[r].call.player,
                               Amount(req[r].call, req[r].seats))
           /\ UNCHANGED <<row, seats, hands, wasSeated, cutOff, overlapped>>
           /\ \E x :
                 /\ Replaced(req, req', r, x)
                 /\ x.pc = IF CanAutoStart(req[r].row, After(req[r].call, req[r].seats))
                              /\ req[r].call.op # "leave" THEN "start" ELSE "save"
                 /\ x.call = req[r].call /\ x.row = req[r].row
                 /\ x.seats = After(req[r].call, req[r].seats)
<1> DEFINE c == req[r].call
           t == req[r].row
           ss == req[r].seats
<1>1. /\ req[r].pc = "wallet"
      /\ UNCHANGED <<row, seats, hands, wasSeated, cutOff, overlapped, requests, failures>>
  BY DEF DebitForJoin, CreditForCashout, At, table, counts
<1>2. /\ c \in Calls /\ RowOK(t, hands) /\ SeatsOK(ss)
      /\ MayJoin(c, t, ss) \/ MayLeave(c, t, ss)
  BY <1>1 DEF TableInv, RequestOK
<1>3. /\ ApplyLedgerEntry(Key(c, t, ss), c.player, Amount(c, ss))
      /\ GoOn(r, t, After(c, ss))
  <2>1. CASE DebitForJoin(r)
    <3>1. /\ c.op = "join"
          /\ ApplyLedgerEntry(joinIdempotencyKey(r), c.player, -c.buyIn)
          /\ GoOn(r, t, [ss EXCEPT ![c.seat] = [player |-> c.player, stack |-> c.buyIn]])
      BY <2>1 DEF DebitForJoin, Call, Player
    <3>2. joinIdempotencyKey(r) = Key(c, t, ss)
      BY <3>1 DEF joinIdempotencyKey, Key, Call, Player
    <3> QED
      BY <3>1, <3>2 DEF After, Amount
  <2>2. CASE CreditForCashout(r)
    <3> DEFINE seat == SeatByPlayerID(c.player, ss)
    <3>1. /\ c.op = "leave"
          /\ ApplyLedgerEntry(cashoutIdempotencyKey(r, seat), c.player, ss[seat].stack)
          /\ GoOn(r, t, [ss EXCEPT ![seat] = EmptySeat])
      BY <2>2 DEF CreditForCashout, Call, Player
    <3>2. cashoutIdempotencyKey(r, seat) = Key(c, t, ss)
      BY <3>1 DEF cashoutIdempotencyKey, Key, Player
    <3> QED
      BY <3>1, <3>2 DEF After, Amount
  <2> QED
    BY <2>1, <2>2
<1>4. c.player \in Players /\ SeatsOK(After(c, ss)) /\ Amount(c, ss) \in Int
  BY <1>2, AfterCall
<1>5. PICK x :
         /\ Replaced(req, req', r, x)
         /\ x.pc = IF CanAutoStart(t, After(c, ss)) /\ c.op # "leave" THEN "start" ELSE "save"
         /\ x.call = c /\ x.row = t /\ x.seats = After(c, ss)
         /\ RequestOK(x, hands')
  <2>1. RowOK(t, hands') /\ req[r].pc # "idle"
    BY <1>1, <1>2
  <2> QED
    BY <1>3, <1>4, <2>1, GoOnStep
<1>6. Shape'
  <2>1. balance' \in [Players -> Nat] /\ \A e \in entries' : e.user \in Players /\ e.amount \in Int
    BY <1>3, <1>4, LedgerStep
  <2> QED
    BY <1>1, <1>5, <2>1 DEF TableInv, Shape, Replaced
<1>7. TableInv'
  BY <1>1, <1>5, <1>6, RequestStep DEF TableInv
<1> QED
  BY <1>1, <1>3, <1>5, <1>7

(* What the engine has of a hand. *)
LEMMA HandFacts ==
    ASSUME TableInv, NEW h \in DOMAIN hands
    PROVE  /\ h \in Nat /\ hands[h] \in HandRecords
           /\ hands[h].over \in BOOLEAN /\ hands[h].rake \in Int
           /\ DOMAIN hands[h].stacks \in SUBSET Players
           /\ IsFiniteSet(DOMAIN hands[h].stacks)
           /\ hands[h].stacks \in [DOMAIN hands[h].stacks -> Nat]
           /\ Chips(hands[h].stacks) \in Int
<1>1. h \in Nat /\ hands[h] \in HandRecords
  BY DEF TableInv, Shape
<1>2. hands[h].over \in BOOLEAN /\ hands[h].rake \in Int
      /\ hands[h].stacks \in UNION {[D -> Nat] : D \in SUBSET Players}
  BY <1>1 DEF HandRecords
<1>3. /\ DOMAIN hands[h].stacks \in SUBSET Players
      /\ hands[h].stacks \in [DOMAIN hands[h].stacks -> Nat]
  BY <1>2
<1>4. IsFiniteSet(DOMAIN hands[h].stacks)
  BY <1>3, FS_Subset, PlayersAssumption
<1>5. Chips(hands[h].stacks) \in Int
  <2>1. \A p \in DOMAIN hands[h].stacks : hands[h].stacks[p] \in Int
    BY <1>3
  <2> QED
    BY <1>4, <2>1, SumOnInt DEF Chips, SumFunction
<1> QED
  BY <1>1, <1>2, <1>3, <1>4, <1>5

LEMMA GoesOnStep ==
    ASSUME TableInv, NEW r \in Requests, ApplyActionGoesOn(r)
    PROVE  /\ TableInv'
           /\ req[r].pc = "engine"
           /\ UNCHANGED <<row, seats, balance, entries, hands, wasSeated, cutOff, overlapped>>
           /\ \E x : /\ Replaced(req, req', r, x)
                     /\ x.pc = "save" /\ x.call = req[r].call /\ x.row = req[r].row
                     /\ x.seats = req[r].seats
<1> DEFINE x == [req[r] EXCEPT !.pc = "save"]
<1>1. /\ req[r].pc = "engine"
      /\ req' = [req EXCEPT ![r].pc = "save"]
      /\ UNCHANGED <<row, seats, balance, entries, hands, wasSeated, cutOff, overlapped,
                     requests, failures>>
  BY DEF ApplyActionGoesOn, At, table, wallet, counts
<1>2. req \in [Requests -> RequestRecords] /\ req[r] \in RequestRecords /\ RequestOK(req[r], hands)
  BY <1>1 DEF TableInv, Shape
<1>3. /\ x \in RequestRecords /\ x.pc = "save" /\ x.call = req[r].call /\ x.row = req[r].row
      /\ x.seats = req[r].seats /\ req' = [req EXCEPT ![r] = x]
  BY <1>1, <1>2 DEF RequestRecords, Pcs
<1> HIDE DEF x
<1>4. Replaced(req, req', r, x)
  BY <1>2, <1>3, ReplaceRequest
<1>5. RequestOK(x, hands')
  BY <1>1, <1>2, <1>3 DEF RequestOK
<1>6. Shape'
  BY <1>1, <1>4 DEF TableInv, Shape, Replaced
<1>7. TableInv'
  BY <1>1, <1>4, <1>5, <1>6, RequestStep DEF TableInv
<1> QED
  BY <1>1, <1>3, <1>4, <1>7

(* A showdown: hand h is over with other stacks, less the rake. *)
Showdown(h, stacks, f, g) ==
    /\ DOMAIN g = DOMAIN f
    /\ g[h].over /\ g[h].stacks = stacks
    /\ g[h].rake = f[h].rake + Chips(f[h].stacks) - Chips(stacks)
    /\ \A i \in DOMAIN f : i # h => g[i] = f[i]

LEMMA ShowdownStep ==
    ASSUME TableInv, NEW r \in Requests, ApplyActionShowdown(r)
    PROVE  /\ TableInv'
           /\ req[r].pc = "engine" /\ req[r].row.hand \in DOMAIN hands
           /\ UNCHANGED <<row, seats, balance, entries, wasSeated, cutOff, overlapped>>
           /\ \E stacks \in [DOMAIN hands[req[r].row.hand].stacks -> Nat] :
              \E ss, x :
                 /\ Showdown(req[r].row.hand, stacks, hands, hands')
                 /\ ss = unseatBustedPlayers(applyStacksFromState(req[r].seats, stacks))
                 /\ Replaced(req, req', r, x)
                 /\ x.pc = IF CanAutoStart(x.row, ss) THEN "start" ELSE "save"
                 /\ x.call = req[r].call /\ x.seats = ss
                 /\ x.row.status = "idle" /\ x.row.hand = Nobody
<1> DEFINE h == req[r].row.hand
           start == hands[h].stacks
<1>1. /\ req[r].pc = "engine"
      /\ UNCHANGED <<row, seats, balance, entries, wasSeated, cutOff, overlapped,
                     requests, failures>>
  BY DEF ApplyActionShowdown, At, table, wallet, counts
<1>2. /\ RequestOK(req[r], hands) /\ req[r].call.op = "act" /\ h # Nobody /\ h \in DOMAIN hands
      /\ SeatsOK(req[r].seats) /\ req[r].row \in Rows
  BY <1>1 DEF TableInv, RequestOK, MayAct, RowOK
<1>3. PICK stacks \in FinalStacks(h) :
         /\ hands' = Over(h, stacks)
         /\ GoOn(r, TableAfterHand(req[r].row, unseatBustedPlayers(applyStacksFromState(req[r].seats, stacks))),
                 unseatBustedPlayers(applyStacksFromState(req[r].seats, stacks)))
  BY DEF ApplyActionShowdown
<1> DEFINE ss == unseatBustedPlayers(applyStacksFromState(req[r].seats, stacks))
           t == TableAfterHand(req[r].row, ss)
<1>4. /\ h \in Nat /\ hands[h] \in HandRecords /\ DOMAIN start \in SUBSET Players
      /\ start \in [DOMAIN start -> Nat] /\ IsFiniteSet(DOMAIN start)
      /\ Chips(start) \in Int /\ hands[h].rake \in Int
  BY <1>2, HandFacts
<1>5. stacks \in [DOMAIN start -> Nat]
  <2>1. stacks \in [DOMAIN start -> 0 .. Chips(start)]
    BY <1>3 DEF FinalStacks
  <2>2. 0 .. Chips(start) \subseteq Nat
    BY <1>4
  <2> QED
    BY <2>1, <2>2
<1>6. Chips(stacks) \in Int
  <2>1. \A p \in DOMAIN start : stacks[p] \in Int
    BY <1>5
  <2>2. DOMAIN stacks = DOMAIN start
    BY <1>5
  <2> QED
    BY <1>4, <2>1, <2>2, SumOnInt DEF Chips, SumFunction
<1>7. /\ hands' \in Seq(HandRecords) /\ Len(hands') = Len(hands) /\ DOMAIN hands' = DOMAIN hands
      /\ Showdown(h, stacks, hands, hands')
  <2> DEFINE rec == [over |-> TRUE, stacks |-> stacks,
                     rake |-> hands[h].rake + Chips(hands[h].stacks) - Chips(stacks)]
  <2>1. hands' = [hands EXCEPT ![h] = rec]
    BY <1>3 DEF Over
  <2>2. rec \in HandRecords
    <3>1. stacks \in UNION {[D -> Nat] : D \in SUBSET Players}
      BY <1>4, <1>5
    <3>2. hands[h].rake + Chips(hands[h].stacks) - Chips(stacks) \in Int
      BY <1>4, <1>6
    <3> QED
      BY <3>1, <3>2 DEF HandRecords
  <2>3. /\ rec.over /\ rec.stacks = stacks
        /\ rec.rake = hands[h].rake + Chips(hands[h].stacks) - Chips(stacks)
    OBVIOUS
  <2> HIDE DEF rec
  <2>4. hands \in Seq(HandRecords)
    BY DEF TableInv, Shape
  <2>5. hands' \in Seq(HandRecords) /\ Len(hands') = Len(hands) /\ DOMAIN hands' = DOMAIN hands
    BY <1>2, <2>1, <2>2, <2>4
  <2>6. hands'[h] = rec /\ \A i \in DOMAIN hands : i # h => hands'[i] = hands[i]
    BY <1>2, <2>1, <2>4
  <2> QED
    BY <2>3, <2>5, <2>6 DEF Showdown
<1>8. SeatsOK(ss)
  BY <1>2, <1>4, <1>5, AfterShowdown
<1>9. /\ t.status = "idle" /\ t.hand = Nobody /\ RowOK(t, hands')
  <2>1. req[r].row.button \in Seats
    BY <1>2 DEF Rows
  <2>2. AdvanceButton(req[r].row, ss) \in Seats
    BY <2>1, ButtonIsSeat
  <2> HIDE DEF ss
  <2>3. t = [status |-> "idle", button |-> AdvanceButton(req[r].row, ss), hand |-> Nobody]
    BY DEF TableAfterHand
  <2> QED
    BY <2>2, <2>3 DEF RowOK, Rows
<1>10. GoOn(r, t, ss)
  BY <1>3
<1> HIDE DEF ss, t
<1>11. PICK x :
          /\ Replaced(req, req', r, x)
          /\ x.pc = IF CanAutoStart(t, ss) /\ req[r].call.op # "leave" THEN "start" ELSE "save"
          /\ x.call = req[r].call /\ x.row = t /\ x.seats = ss
          /\ RequestOK(x, hands')
  BY <1>1, <1>8, <1>9, <1>10, GoOnStep
<1>12. Shape'
  <2>1. \A i \in DOMAIN hands' : ~hands'[i].over => hands'[i].rake = 0
    BY <1>7 DEF TableInv, Shape, Showdown
  <2> QED
    BY <1>1, <1>7, <1>11, <2>1 DEF TableInv, Shape, Replaced
<1>13. TableInv'
  <2>1. RowOK(row', hands')
    BY <1>1, <1>7 DEF TableInv, RowOK
  <2> QED
    BY <1>1, <1>7, <1>11, <1>12, <2>1, RequestStep DEF TableInv
<1> QED
  BY <1>1, <1>2, <1>5, <1>7, <1>9, <1>11, <1>13 DEF ss

LEMMA StartHandStep ==
    ASSUME TableInv, NEW r \in Requests, StartHand(r)
    PROVE  /\ TableInv'
           /\ req[r].pc = "start"
           /\ UNCHANGED <<row, seats, balance, entries, wasSeated, cutOff, overlapped>>
           /\ \E h, x :
                 /\ h = Len(hands) + 1 /\ h \notin DOMAIN hands
                 /\ DOMAIN hands' = DOMAIN hands \cup {h}
                 /\ \A i \in DOMAIN hands : hands'[i] = hands[i]
                 /\ ~hands'[h].over
                 /\ hands'[h].stacks = StacksOf(req[r].seats)
                 /\ Replaced(req, req', r, x)
                 /\ x.pc = "save" /\ x.call = req[r].call /\ x.seats = req[r].seats
                 /\ x.row.hand = h /\ x.row.status = "in_hand"
<1> DEFINE ss == req[r].seats
           h == Len(hands) + 1
           rec == [over |-> FALSE, stacks |-> StacksOf(ss), rake |-> 0]
           t == [req[r].row EXCEPT !.hand = h, !.status = "in_hand"]
           x == [req[r] EXCEPT !.pc = "save", !.row = t]
<1>1. /\ req[r].pc = "start" /\ Len(hands) < MaxHands
      /\ hands' = Append(hands, rec)
      /\ req' = [req EXCEPT ![r].pc = "save", ![r].row.hand = Len(hands'),
                            ![r].row.status = "in_hand"]
      /\ UNCHANGED <<row, seats, balance, entries, wasSeated, cutOff, overlapped, requests, failures>>
  BY DEF StartHand, At, table, wallet, counts
<1>2. /\ req \in [Requests -> RequestRecords] /\ req[r] \in RequestRecords
      /\ RequestOK(req[r], hands) /\ req[r].row \in Rows /\ SeatsOK(ss)
      /\ hands \in Seq(HandRecords)
  BY <1>1 DEF TableInv, Shape, RequestOK, RowOK
<1>3. rec \in HandRecords
  <2> DEFINE D == {ss[s].player : s \in PlayablePlayers(ss)}
  <2>1. ss \in SeatRows
    BY <1>2 DEF SeatsOK
  <2>2. \A s \in Seats : ss[s].player \in Players \cup {Nobody} /\ ss[s].stack \in Nat
    BY <2>1 DEF SeatRows
  <2>3. D \in SUBSET Players
    BY <2>2 DEF PlayablePlayers
  <2>4. ASSUME NEW p \in D PROVE ss[SeatByPlayerID(p, ss)].stack \in Nat
    <3>1. \E s \in Seats : ss[s].player = p
      BY DEF PlayablePlayers
    <3>2. SeatByPlayerID(p, ss) \in Seats
      BY <3>1 DEF SeatByPlayerID
    <3> QED
      BY <2>2, <3>2
  <2>5. StacksOf(ss) = [p \in D |-> ss[SeatByPlayerID(p, ss)].stack]
    BY DEF StacksOf
  <2> HIDE DEF D
  <2>6. StacksOf(ss) \in [D -> Nat]
    BY <2>4, <2>5
  <2>7. StacksOf(ss) \in UNION {[E -> Nat] : E \in SUBSET Players}
    BY <2>3, <2>6
  <2> QED
    BY <2>7 DEF HandRecords
<1>4. rec.over = FALSE /\ rec.stacks = StacksOf(ss) /\ rec.rake = 0
  OBVIOUS
<1> HIDE DEF rec
<1>5. /\ hands' \in Seq(HandRecords) /\ Len(hands') = h /\ h \in Nat /\ h > 0
      /\ DOMAIN hands' = DOMAIN hands \cup {h} /\ h \notin DOMAIN hands
      /\ \A i \in DOMAIN hands : hands'[i] = hands[i]
      /\ hands'[h] = rec
  <2>1. Len(hands) \in Nat /\ DOMAIN hands = 1 .. Len(hands)
    BY <1>2
  <2>2. hands' \in Seq(HandRecords) /\ Len(hands') = Len(hands) + 1
    BY <1>1, <1>2, <1>3
  <2>3. DOMAIN hands' = 1 .. Len(hands) + 1
    BY <2>2
  <2>4. \A i \in 1 .. Len(hands) : hands'[i] = hands[i]
    BY <1>1, <1>2, <1>3
  <2>5. hands'[Len(hands) + 1] = rec
    BY <1>1, <1>2, <1>3
  <2> QED
    BY <2>1, <2>2, <2>3, <2>4, <2>5
<1>6. /\ t \in Rows /\ t.hand = h /\ t.status = "in_hand"
  <2>1. h \in 1 .. MaxHands
    BY <1>1, <1>5, BoundsAssumption
  <2> HIDE DEF h
  <2> QED
    BY <1>2, <2>1 DEF Rows
<1>7. req' = [req EXCEPT ![r] = x]
  BY <1>1, <1>2, <1>5 DEF RequestRecords, Rows
<1> HIDE DEF t, h
<1>8. /\ x \in RequestRecords /\ x.pc = "save" /\ x.call = req[r].call /\ x.row = t
      /\ x.seats = ss
  BY <1>2, <1>6 DEF RequestRecords, Pcs
<1> HIDE DEF x
<1>9. Replaced(req, req', r, x)
  BY <1>2, <1>7, <1>8, ReplaceRequest
<1>10. RequestOK(x, hands')
  <2>1. RowOK(t, hands')
    BY <1>5, <1>6, NobodyAssumption DEF RowOK
  <2> QED
    BY <1>2, <1>8, <2>1 DEF RequestOK
<1>11. Shape'
  <2>1. \A i \in DOMAIN hands' : ~hands'[i].over => hands'[i].rake = 0
    BY <1>4, <1>5 DEF TableInv, Shape
  <2>2. Len(hands') <= MaxHands
    BY <1>1, <1>2, <1>5, BoundsAssumption DEF h
  <2> QED
    BY <1>1, <1>5, <1>9, <2>1, <2>2 DEF TableInv, Shape, Replaced
<1>12. TableInv'
  <2>1. RowOK(row', hands') /\ SeatsOK(seats')
    BY <1>1, <1>5 DEF TableInv, RowOK
  <2> QED
    BY <1>5, <1>9, <1>10, <1>11, <2>1, RequestStep
<1>13. ~hands'[h].over /\ hands'[h].stacks = StacksOf(ss)
  BY <1>4, <1>5
<1>14. h = Len(hands) + 1
  BY DEF h
<1> QED
  BY <1>1, <1>5, <1>6, <1>8, <1>9, <1>12, <1>13, <1>14

LEMMA SaveTableStep ==
    ASSUME TableInv, NEW r \in Requests, SaveTable(r)
    PROVE  /\ TableInv'
           /\ req[r].pc = "save"
           /\ row' = req[r].row /\ seats' = req[r].seats
           /\ wasSeated' = IF req[r].call.op = "join" THEN wasSeated \cup {req[r].call.player}
                                                      ELSE wasSeated
           /\ UNCHANGED <<balance, entries, hands, cutOff, overlapped>>
           /\ Replaced(req, req', r, NoRequest)
<1>1. /\ req[r].pc = "save" /\ row' = req[r].row /\ seats' = req[r].seats
      /\ req' = [req EXCEPT ![r] = NoRequest]
      /\ wasSeated' = IF req[r].call.op = "join" THEN wasSeated \cup {req[r].call.player}
                                                 ELSE wasSeated
      /\ UNCHANGED <<balance, entries, hands, cutOff, overlapped, requests, failures>>
  BY DEF SaveTable, At, Call, Player, wallet, counts
<1>2. RequestOK(req[r], hands)
  BY <1>1 DEF TableInv
<1>3. req[r].call.player \in Players
  BY <1>2 DEF RequestOK, Calls
<1>4. Replaced(req, req', r, NoRequest)
  BY <1>1, NewTableOK, ReplaceRequest DEF TableInv, Shape
<1>5. Shape'
  BY <1>1, <1>3, <1>4 DEF TableInv, Shape, Replaced
<1>6. TableInv'
  BY <1>1, <1>2, <1>4, <1>5, NewTableOK, RequestStep DEF RequestOK
<1> QED
  BY <1>1, <1>4, <1>6

(* The steps that only end a request.  One that is ahead is cut off. *)
LEMMA EndStep ==
    ASSUME TableInv, NEW r \in Requests,
           InsufficientFunds(r) \/ ApplyActionRefused(r) \/ StartHandRefused(r) \/ Fail(r)
    PROVE  /\ TableInv'
           /\ UNCHANGED <<row, seats, balance, entries, hands, wasSeated, overlapped>>
           /\ Replaced(req, req', r, NoRequest)
           /\ req[r].pc # "idle"
           /\ cutOff' \/ (cutOff' = cutOff /\ ~Ahead(req[r]))
<1>1. /\ req' = [req EXCEPT ![r] = NoRequest]
      /\ UNCHANGED <<row, seats, balance, entries, hands, wasSeated, overlapped, requests>>
      /\ req[r].pc # "idle"
  BY DEF InsufficientFunds, ApplyActionRefused, StartHandRefused, Fail, At, Running,
         table, wallet, counts
<1>2. failures' \in 0 .. MaxFailures
  <2>1. failures \in 0 .. MaxFailures
    BY DEF TableInv, Shape
  <2> QED
    BY <2>1, BoundsAssumption
       DEF InsufficientFunds, ApplyActionRefused, StartHandRefused, Fail, counts
<1>3. cutOff' \in BOOLEAN /\ (cutOff' \/ (cutOff' = cutOff /\ ~Ahead(req[r])))
  <2>1. cutOff \in BOOLEAN
    BY DEF TableInv, Shape
  <2>2. CASE InsufficientFunds(r) \/ ApplyActionRefused(r)
    BY <2>1, <2>2 DEF InsufficientFunds, ApplyActionRefused, At, Ahead
  <2>3. CASE StartHandRefused(r)
    BY <2>3 DEF StartHandRefused
  <2>4. CASE Fail(r)
    BY <2>1, <2>4 DEF Fail, Ahead
  <2> QED
    BY <2>2, <2>3, <2>4
<1>4. TableInv' /\ Replaced(req, req', r, NoRequest)
  BY <1>1, <1>2, <1>3, EndOfRequest
<1> QED
  BY <1>1, <1>3, <1>4

LEMMA InitTableInv == Init => TableInv
<1> SUFFICES ASSUME Init PROVE TableInv
  OBVIOUS
<1>1. RowOK(row, hands)
  BY SeatsFacts DEF Init, RowOK, Rows
<1>2. SeatsOK(seats)
  BY NewTableOK DEF Init
<1>3. req \in [Requests -> RequestRecords] /\ \A r \in Requests : req[r].pc = "idle"
  BY NewTableOK DEF Init
<1>4. balance \in [Players -> Nat]
  BY PlayersAssumption DEF Init
<1>5. hands \in Seq(HandRecords) /\ Len(hands) = 0 /\ DOMAIN hands = {}
  BY DEF Init
<1>6. requests \in 0 .. MaxRequests /\ failures \in 0 .. MaxFailures
  BY BoundsAssumption DEF Init
<1>7. cutOff \in BOOLEAN /\ overlapped \in BOOLEAN /\ entries = {} /\ wasSeated = {}
  BY DEF Init
<1>8. Shape
  BY <1>3, <1>4, <1>5, <1>6, <1>7, BoundsAssumption DEF Shape
<1> QED
  BY <1>1, <1>2, <1>3, <1>8 DEF TableInv

LEMMA NextTableInv == TableInv /\ [Next]_vars => TableInv'
<1> SUFFICES ASSUME TableInv, [Next]_vars PROVE TableInv'
  OBVIOUS
<1>1. ASSUME NEW r \in Requests, NEW call \in Calls, FindTable(r, call) PROVE TableInv'
  BY <1>1, FindTableStep
<1>2. ASSUME NEW r \in Requests, loadSeats(r) PROVE TableInv'
  BY <1>2, LoadSeatsStep
<1>3. ASSUME NEW r \in Requests, DebitForJoin(r) \/ CreditForCashout(r) PROVE TableInv'
  BY <1>3, WalletStep
<1>4. ASSUME NEW r \in Requests, ApplyActionGoesOn(r) PROVE TableInv'
  BY <1>4, GoesOnStep
<1>5. ASSUME NEW r \in Requests, ApplyActionShowdown(r) PROVE TableInv'
  BY <1>5, ShowdownStep
<1>6. ASSUME NEW r \in Requests, StartHand(r) PROVE TableInv'
  BY <1>6, StartHandStep
<1>7. ASSUME NEW r \in Requests, SaveTable(r) PROVE TableInv'
  BY <1>7, SaveTableStep
<1>8. ASSUME NEW r \in Requests,
             InsufficientFunds(r) \/ ApplyActionRefused(r) \/ StartHandRefused(r) \/ Fail(r)
      PROVE  TableInv'
  BY <1>8, EndStep
<1>9. CASE UNCHANGED vars
  <2>1. UNCHANGED <<row, seats, balance, entries, hands, req, wasSeated, cutOff, overlapped,
                    requests, failures>>
    BY <1>9 DEF vars, table, wallet, counts
  <2> QED
    BY <2>1 DEF TableInv, Shape
<1> QED
  BY <1>1, <1>2, <1>3, <1>4, <1>5, <1>6, <1>7, <1>8, <1>9 DEF Next

(* The invariant holds of every behaviour: requests that run beside each   *)
(* other, fail half-way or come twice keep TableInv.                       *)
THEOREM TableInvHolds == Spec => []TableInv
  BY InitTableInv, NextTableInv, PTL DEF Spec

(* SeatsConsistent: whatever requests run beside each other, with copies   *)
(* of the table that are out of date and calls that fail, a player has one *)
(* seat, a seat has chips if it has a player, the row names a hand if it   *)
(* is in one, and no balance is negative.                                  *)
THEOREM SeatsConsistentHolds == Spec => []SeatsConsistent
<1>1. TableInv => SeatsConsistent
  <2> SUFFICES ASSUME TableInv PROVE SeatsConsistent
    OBVIOUS
  <2>1. row \in Rows /\ (row.status = "in_hand" <=> row.hand # Nobody)
    BY DEF TableInv, RowOK
  <2>2. /\ seats \in SeatRows
        /\ \A s, q \in Seats :
              seats[s].player = seats[q].player /\ seats[s].player # Nobody => s = q
        /\ \A s \in Seats : seats[s].player # Nobody <=> seats[s].stack > 0
    BY DEF TableInv, SeatsOK
  <2>3. \A h \in DOMAIN hands : hands[h].over \in BOOLEAN /\ hands[h].rake \in Int
    BY HandFacts
  <2>4. \A r \in Running : req[r].row \in Rows /\ req[r].seats \in SeatRows
    BY DEF TableInv, RequestOK, RowOK, SeatsOK, Running, At
  <2>5. TypeOK
    BY <2>1, <2>2, <2>3, <2>4 DEF TypeOK, TableInv, Shape
  <2> QED
    BY <2>1, <2>2, <2>5 DEF SeatsConsistent
<1> QED
  BY <1>1, TableInvHolds, PTL
-----------------------------------------------------------------------------
(* What a step does to the money and to the fit of table and hand. *)

LEMMA StacksSum ==
    ASSUME NEW ss, SeatsOK(ss)
    PROVE  /\ \A s \in Seats : Stacks(ss)[s] = ss[s].stack /\ ss[s].stack \in Nat
           /\ SumFunction(Stacks(ss)) = SumFunctionOnSet(Stacks(ss), Seats)
           /\ SumFunction(Stacks(ss)) \in Int
<1>1. DOMAIN Stacks(ss) = Seats /\ \A s \in Seats : Stacks(ss)[s] = ss[s].stack
  BY DEF Stacks
<1>2. \A s \in Seats : ss[s].stack \in Nat
  BY DEF SeatsOK, SeatRows
<1>3. SumFunction(Stacks(ss)) = SumFunctionOnSet(Stacks(ss), Seats)
  BY <1>1 DEF SumFunction
<1>4. SumFunctionOnSet(Stacks(ss), Seats) \in Int
  <2>1. \A s \in Seats : Stacks(ss)[s] \in Int
    BY <1>1, <1>2
  <2> QED
    BY <2>1, SumOnInt, SeatsFacts
<1> QED
  BY <1>1, <1>2, <1>3, <1>4

LEMMA RakesSum ==
    ASSUME TableInv
    PROVE  /\ IsFiniteSet(OverHands(hands)) /\ DOMAIN Rakes(hands) = OverHands(hands)
           /\ \A h \in OverHands(hands) : Rakes(hands)[h] = hands[h].rake /\ hands[h].rake \in Int
           /\ SumFunction(Rakes(hands)) \in Int
<1>1. IsFiniteSet(DOMAIN hands)
  <2>1. Len(hands) \in Nat /\ DOMAIN hands = 1 .. Len(hands)
    BY DEF TableInv, Shape
  <2> QED
    BY <2>1, FS_Interval
<1>2. IsFiniteSet(OverHands(hands))
  BY <1>1, FS_Subset DEF OverHands
<1>3. \A h \in OverHands(hands) : Rakes(hands)[h] = hands[h].rake /\ hands[h].rake \in Int
  BY HandFacts DEF OverHands, Rakes
<1>4. DOMAIN Rakes(hands) = OverHands(hands)
  BY DEF Rakes
<1>5. SumFunction(Rakes(hands)) \in Int
  BY <1>2, <1>3, <1>4, SumOnInt DEF SumFunction
<1> QED
  BY <1>2, <1>3, <1>4, <1>5

LEMMA BalancesSum ==
    ASSUME NEW b \in [Players -> Nat]
    PROVE  SumFunction(b) = SumFunctionOnSet(b, Players) /\ SumFunction(b) \in Int
<1>1. DOMAIN b = Players /\ \A p \in Players : b[p] \in Int
  OBVIOUS
<1> QED
  BY <1>1, SumOnInt, PlayersAssumption DEF SumFunction

(* A join and a leave move the amount between the wallet and the seat. *)
LEMMA MoneyMoves ==
    ASSUME TableInv, NEW c \in Calls, NEW t, NEW ss, SeatsOK(ss),
           MayJoin(c, t, ss) \/ MayLeave(c, t, ss),
           Money(balance, ss, hands),
           balance' \in [Players -> Nat],
           balance'[c.player] = balance[c.player] + Amount(c, ss),
           \A q \in Players : q # c.player => balance'[q] = balance[q]
    PROVE  Money(balance', After(c, ss), hands)
<1> DEFINE a == Amount(c, ss)
           new == After(c, ss)
           p == c.player
<1>1. p \in Players /\ SeatsOK(new) /\ a \in Int
  BY AfterCall
<1>2. PICK seat \in Seats :
         /\ \A s \in Seats : s # seat => new[s] = ss[s]
         /\ new[seat].stack = ss[seat].stack - a
  BY SeatAfterCall
<1>3. balance \in [Players -> Nat]
  BY DEF TableInv, Shape
<1> HIDE DEF a, new, p
<1>4. SumFunction(balance') = SumFunction(balance) + a
  <2>1. /\ \A q \in Players : balance[q] \in Int /\ balance'[q] \in Int
        /\ \A q \in Players \ {p} : balance'[q] = balance[q]
    BY <1>3 DEF p
  <2>2. SumFunctionOnSet(balance', Players)
           = SumFunctionOnSet(balance, Players) - balance[p] + balance'[p]
    BY <1>1, <2>1, SumOnChange, PlayersAssumption
  <2>3. balance'[p] = balance[p] + a /\ balance[p] \in Int
    BY <1>1, <1>3 DEF p, a
  <2> QED
    BY <1>1, <1>3, <2>2, <2>3, BalancesSum
<1>5. SumFunction(Stacks(new)) = SumFunction(Stacks(ss)) - a
  <2>1. /\ \A s \in Seats : Stacks(ss)[s] \in Int /\ Stacks(new)[s] \in Int
        /\ \A s \in Seats \ {seat} : Stacks(new)[s] = Stacks(ss)[s]
    BY <1>1, <1>2, StacksSum
  <2>2. SumFunctionOnSet(Stacks(new), Seats)
           = SumFunctionOnSet(Stacks(ss), Seats) - Stacks(ss)[seat] + Stacks(new)[seat]
    <3> DEFINE f == Stacks(ss)
               e == Stacks(new)
    <3>1. /\ \A s \in Seats : f[s] \in Int /\ e[s] \in Int
          /\ \A s \in Seats \ {seat} : e[s] = f[s]
      BY <2>1
    <3> HIDE DEF f, e
    <3>2. IsFiniteSet(Seats) /\ seat \in Seats
      BY SeatsFacts
    <3>3. SumFunctionOnSet(e, Seats) = SumFunctionOnSet(f, Seats) - f[seat] + e[seat]
      BY <3>1, <3>2, SumOnChange
    <3> QED
      BY <3>3 DEF f, e
  <2>3. Stacks(new)[seat] = Stacks(ss)[seat] - a /\ Stacks(ss)[seat] \in Int
    BY <1>1, <1>2, StacksSum
  <2> QED
    BY <1>1, <2>2, <2>3, StacksSum
<1>6. /\ SumFunction(balance) \in Int /\ SumFunction(Stacks(ss)) \in Int
      /\ SumFunction(Rakes(hands)) \in Int
  BY <1>3, BalancesSum, StacksSum, RakesSum
<1>7. Money(balance', new, hands)
  BY <1>1, <1>4, <1>5, <1>6 DEF Money
<1> QED
  BY <1>7 DEF new

(* At a showdown what the players of the hand lose is the rake. *)
LEMMA MoneyAtShowdown ==
    ASSUME TableInv, TableInv', NEW t, NEW ss, SeatsOK(ss), t.hand \in DOMAIN hands, t.hand # Nobody,
           Fits(t, ss, hands), Money(balance, ss, hands),
           NEW stacks \in [DOMAIN hands[t.hand].stacks -> Nat],
           Showdown(t.hand, stacks, hands, hands')
    PROVE  Money(balance, unseatBustedPlayers(applyStacksFromState(ss, stacks)), hands')
<1> DEFINE h == t.hand
           start == hands[h].stacks
           D == DOMAIN start
           new == unseatBustedPlayers(applyStacksFromState(ss, stacks))
           place == [p \in D |-> CHOOSE s \in Seats : ss[s] = [player |-> p, stack |-> start[p]]]
<1>1. /\ D \in SUBSET Players /\ IsFiniteSet(D) /\ start \in [D -> Nat] /\ stacks \in [D -> Nat]
      /\ h \in DOMAIN hands /\ Chips(start) \in Int /\ hands[h].rake \in Int
  BY HandFacts
<1>2. /\ ~hands[h].over
      /\ \A p \in D : \E s \in Seats : ss[s] = [player |-> p, stack |-> start[p]]
  BY DEF Fits
<1>3. \A p \in D : place[p] \in Seats /\ ss[place[p]] = [player |-> p, stack |-> start[p]]
  BY <1>2
<1>4. /\ SeatsOK(new)
      /\ \A s \in Seats : new[s].stack = IF ss[s].player \in D THEN stacks[ss[s].player]
                                                               ELSE ss[s].stack
  <2> HIDE DEF D
  <2> QED
    BY <1>1, AfterShowdown
<1>5. Chips(start) = SumFunctionOnSet(start, D) /\ Chips(stacks) = SumFunctionOnSet(stacks, D)
      /\ SumFunctionOnSet(stacks, D) \in Int
  <2>1. DOMAIN stacks = D /\ \A p \in D : stacks[p] \in Int
    BY <1>1
  <2>2. SumFunctionOnSet(stacks, D) \in Int
    BY <1>1, <2>1, SumOnInt
  <2> QED
    BY <2>1, <2>2 DEF Chips, SumFunction
<1> HIDE DEF new, place, D, start, h
<1>6. Matched(Stacks(ss), Stacks(new), Seats, start, stacks, D, place)
  <2>1. \A s \in Seats : /\ Stacks(ss)[s] = ss[s].stack /\ ss[s].stack \in Nat
                         /\ Stacks(new)[s] = new[s].stack /\ new[s].stack \in Nat
    BY <1>4, StacksSum
  <2>2. \A p \in D : start[p] \in Nat /\ stacks[p] \in Nat
    BY <1>1
  <2>3. \A p \in D : ss[place[p]].player = p /\ ss[place[p]].stack = start[p]
    <3> SUFFICES ASSUME NEW p \in D
                 PROVE  ss[place[p]].player = p /\ ss[place[p]].stack = start[p]
      OBVIOUS
    <3>1. ss[place[p]] = [player |-> p, stack |-> start[p]]
      BY <1>3
    <3> QED
      BY <3>1
  <2>4. \A p, q \in D : place[p] = place[q] => p = q
    BY <2>3
  <2>5. \A p \in D : Stacks(new)[place[p]] = Stacks(ss)[place[p]] - start[p] + stacks[p]
    <3> SUFFICES ASSUME NEW p \in D
                 PROVE  Stacks(new)[place[p]] = Stacks(ss)[place[p]] - start[p] + stacks[p]
      OBVIOUS
    <3>1. place[p] \in Seats /\ start[p] \in Nat /\ stacks[p] \in Nat
      BY <1>3, <2>2
    <3>2. new[place[p]].stack = stacks[p]
      BY <1>4, <2>3, <3>1
    <3>3. Stacks(ss)[place[p]] = start[p] /\ Stacks(new)[place[p]] = stacks[p]
      BY <2>1, <2>3, <3>1, <3>2
    <3> QED
      BY <3>1, <3>3
  <2>6. ASSUME NEW s \in Seats, \A p \in D : place[p] # s
        PROVE  Stacks(new)[s] = Stacks(ss)[s]
    <3>1. ss[s].player \notin D
      <4> SUFFICES ASSUME ss[s].player \in D PROVE FALSE
        OBVIOUS
      <4>1. ss[place[ss[s].player]].player = ss[s].player /\ place[ss[s].player] \in Seats
        BY <1>3, <2>3
      <4>2. ss[s].player # Nobody
        BY <1>1, SeatsFacts
      <4>3. place[ss[s].player] = s
        BY <4>1, <4>2 DEF SeatsOK
      <4> QED
        BY <2>6, <4>3
    <3> QED
      BY <1>4, <2>1, <3>1
  <2>7. IsFiniteSet(Seats) /\ IsFiniteSet(D)
    BY <1>1, SeatsFacts
  <2>8. /\ \A s \in Seats : Stacks(ss)[s] \in Int /\ Stacks(new)[s] \in Int
        /\ \A p \in D : start[p] \in Int /\ stacks[p] \in Int /\ place[p] \in Seats
    <3>1. \A s \in Seats : Stacks(ss)[s] \in Int /\ Stacks(new)[s] \in Int
      BY <2>1
    <3>2. \A p \in D : start[p] \in Int /\ stacks[p] \in Int
      BY <2>2
    <3> QED
      BY <1>3, <3>1, <3>2
  <2> QED
    BY <2>4, <2>5, <2>6, <2>7, <2>8 DEF Matched
<1>7. SumFunction(Stacks(new)) = SumFunction(Stacks(ss)) - Chips(start) + Chips(stacks)
  BY <1>4, <1>5, <1>6, SumOnMatched, StacksSum
<1>8. SumFunction(Rakes(hands')) = SumFunction(Rakes(hands)) + (Chips(start) - Chips(stacks))
  <2>1. /\ DOMAIN hands' = DOMAIN hands /\ hands'[h].over
        /\ hands'[h].rake = hands[h].rake + Chips(start) - Chips(stacks)
        /\ \A i \in DOMAIN hands : i # h => hands'[i] = hands[i]
    BY DEF Showdown, h, start
  <2>2. OverHands(hands') = OverHands(hands) \cup {h} /\ h \notin OverHands(hands)
    BY <1>1, <1>2, <2>1 DEF OverHands
  <2>3. hands[h].rake = 0
    BY <1>1, <1>2 DEF TableInv, Shape
  <2>4. hands'[h].rake = Chips(start) - Chips(stacks) /\ hands'[h].rake \in Int
    BY <1>1, <1>5, <2>1, <2>3
  <2>5. /\ DOMAIN Rakes(hands') = OverHands(hands')
        /\ \A i \in OverHands(hands') : Rakes(hands')[i] = hands'[i].rake
    BY DEF Rakes
  <2>6. \A i \in OverHands(hands) : Rakes(hands)[i] = Rakes(hands')[i] /\ Rakes(hands)[i] \in Int
    <3>1. \A i \in OverHands(hands) : i \in DOMAIN hands /\ i # h /\ i \in OverHands(hands')
      BY <2>2 DEF OverHands
    <3> QED
      BY <2>1, <2>5, <3>1, RakesSum
  <2>7. Rakes(hands')[h] = Chips(start) - Chips(stacks) /\ Rakes(hands')[h] \in Int
    BY <2>2, <2>4, <2>5
  <2>8. OneMore(Rakes(hands), Rakes(hands'), OverHands(hands), h)
    BY <2>2, <2>5, <2>6, <2>7, RakesSum DEF OneMore
  <2>9. SumFunction(Rakes(hands')) = SumFunction(Rakes(hands)) + Rakes(hands')[h]
    BY <2>8, SumWithOneMore
  <2> QED
    BY <2>7, <2>9
<1>9. /\ SumFunction(balance) \in Int /\ SumFunction(Stacks(ss)) \in Int
      /\ SumFunction(Rakes(hands)) \in Int
  BY BalancesSum, StacksSum, RakesSum DEF TableInv, Shape
<1>10. Money(balance, new, hands')
  BY <1>1, <1>5, <1>7, <1>8, <1>9 DEF Money
<1> QED
  BY <1>10 DEF new

(* Another hand leaves the money and the fit of the table as they are. *)
LEMMA HandAdded ==
    ASSUME NEW f, NEW g, NEW h, h \notin DOMAIN f, DOMAIN g = DOMAIN f \cup {h},
           \A i \in DOMAIN f : g[i] = f[i], ~g[h].over
    PROVE  /\ \A bs, ss : Money(bs, ss, f) => Money(bs, ss, g)
           /\ \A t, ss : RowOK(t, f) /\ Fits(t, ss, f) => Fits(t, ss, g)
<1>1. OverHands(g) = OverHands(f)
  BY DEF OverHands
<1>2. Rakes(g) = Rakes(f)
  BY <1>1 DEF Rakes, OverHands
<1>3. \A bs, ss : Money(bs, ss, f) => Money(bs, ss, g)
  BY <1>2 DEF Money
<1>4. ASSUME NEW t, NEW ss, RowOK(t, f), Fits(t, ss, f) PROVE Fits(t, ss, g)
  <2>1. t.hand # Nobody => g[t.hand] = f[t.hand]
    BY <1>4 DEF RowOK
  <2> QED
    BY <1>4, <2>1 DEF Fits
<1> QED
  BY <1>3, <1>4

LEMMA PlayableFinite ==
    ASSUME NEW ss
    PROVE  IsFiniteSet(PlayablePlayers(ss)) /\ Cardinality(PlayablePlayers(ss)) \in Nat
<1>1. PlayablePlayers(ss) \subseteq Seats
  BY DEF PlayablePlayers
<1> QED
  BY <1>1, FS_Subset, FS_CardinalityType, SeatsFacts

(* The table that is to be saved after a join or a leave fits the hand. *)
LEMMA FitsAfterCall ==
    ASSUME NEW c \in Calls, NEW t, NEW ss, NEW hs, SeatsOK(ss), RowOK(t, hs), Fits(t, ss, hs),
           \A p \in DOMAIN hs[t.hand].stacks : t.hand # Nobody => p \in Players,
           MayJoin(c, t, ss) \/ MayLeave(c, t, ss),
           ~(CanAutoStart(t, After(c, ss)) /\ c.op # "leave")
    PROVE  Fits(t, After(c, ss), hs)
<1> DEFINE new == After(c, ss)
<1>1. c.op \in {"join", "leave"} /\ SeatsOK(new)
  BY AfterCall
<1>2. PICK seat \in Seats :
         /\ \A s \in Seats : s # seat => new[s] = ss[s]
         /\ c.op = "join" => ss[seat].player = Nobody
         /\ c.op = "leave" => new[seat].player = Nobody
  BY SeatAfterCall
<1> HIDE DEF new
<1>3. CASE c.op = "leave"
  <2>1. t.status = "idle" /\ t.hand = Nobody
    BY <1>3 DEF MayJoin, MayLeave, RowOK, Rows
  <2>2. PlayablePlayers(new) \subseteq PlayablePlayers(ss)
    BY <1>2, <1>3 DEF PlayablePlayers
  <2>3. Cardinality(PlayablePlayers(new)) <= Cardinality(PlayablePlayers(ss))
    BY <2>2, PlayableFinite, FS_Subset
  <2>4. Cardinality(PlayablePlayers(ss)) < 2
    BY <2>1 DEF Fits
  <2> QED
    BY <2>1, <2>3, <2>4, PlayableFinite DEF Fits, new
<1>4. CASE c.op = "join"
  <2>1. t.status = "idle" => Cardinality(PlayablePlayers(new)) < 2
    BY <1>4, PlayableFinite DEF CanAutoStart, new
  <2>2. ASSUME t.hand # Nobody, NEW p \in DOMAIN hs[t.hand].stacks
        PROVE  \E s \in Seats : new[s] = [player |-> p, stack |-> hs[t.hand].stacks[p]]
    <3>1. PICK s \in Seats : ss[s] = [player |-> p, stack |-> hs[t.hand].stacks[p]]
      BY <2>2 DEF Fits
    <3>2. ss[s].player = p /\ p # Nobody
      BY <2>2, <3>1, SeatsFacts
    <3>3. new[s] = ss[s]
      BY <1>2, <1>4, <3>2
    <3> QED
      BY <3>1, <3>3
  <2> QED
    BY <2>1, <2>2 DEF Fits, new
<1> QED
  BY <1>1, <1>3, <1>4

(* A hand starts with the stacks of its players. *)
LEMMA FitsNewHand ==
    ASSUME NEW t, NEW ss, NEW hs, SeatsOK(ss), t.status = "in_hand",
           ~hs[t.hand].over, hs[t.hand].stacks = StacksOf(ss)
    PROVE  Fits(t, ss, hs)
<1> DEFINE D == {ss[s].player : s \in PlayablePlayers(ss)}
<1>1. StacksOf(ss) = [p \in D |-> ss[SeatByPlayerID(p, ss)].stack]
  BY DEF StacksOf
<1>2. ASSUME NEW p \in D
      PROVE  \E s \in Seats : ss[s] = [player |-> p, stack |-> StacksOf(ss)[p]]
  <2> DEFINE s == SeatByPlayerID(p, ss)
  <2>1. \E q \in Seats : ss[q].player = p
    BY DEF PlayablePlayers
  <2>2. s \in Seats /\ ss[s].player = p
    BY <2>1 DEF SeatByPlayerID
  <2>3. StacksOf(ss)[p] = ss[s].stack
    BY <1>1
  <2> HIDE DEF s
  <2>4. ss[s] \in [player : Players \cup {Nobody}, stack : Nat]
    BY <2>2 DEF SeatsOK, SeatRows
  <2>5. ss[s] = [player |-> p, stack |-> ss[s].stack]
    BY <2>2, <2>4
  <2> QED
    BY <2>2, <2>3, <2>5
<1>3. DOMAIN StacksOf(ss) = D
  BY <1>1
<1> HIDE DEF D
<1> QED
  BY <1>2, <1>3 DEF Fits
-----------------------------------------------------------------------------
(* MoneyInv: first the requests that run beside each other. *)

LEMMA SameCallStays ==
    ASSUME SameCall, NEW r \in Requests, NEW x, Replaced(req, req', r, x),
           x.pc # "idle" => req[r].pc # "idle" /\ x.call = req[r].call
    PROVE  SameCall' /\ Running' \subseteq Running
<1>1. \A q \in Running' : q \in Running /\ req'[q].call = req[q].call
  BY DEF Replaced, Running, At
<1> QED
  BY <1>1 DEF SameCall

(* The steps of a request that has changed nothing yet. *)
LEMMA QuietStep ==
    ASSUME AllAddsUp, SameCall', NEW r \in Requests, NEW x, Replaced(req, req', r, x),
           ~Ahead(req[r]),
           UNCHANGED <<row, seats, balance, entries, hands, wasSeated>>,
           x.pc # "idle" => IF Ahead(x) THEN AheadOK(x) ELSE CopyOK(x)
    PROVE  AllAddsUp'
<1>1. /\ row' = row /\ seats' = seats /\ balance' = balance /\ entries' = entries
      /\ hands' = hands /\ wasSeated' = wasSeated
  OBVIOUS
<1>2. \A q \in Running : Ahead(req[q]) => q # r /\ q \in Running' /\ req'[q] = req[q]
  BY DEF Replaced, Running, At
<1>3. RequestsFit'
  <2> SUFFICES ASSUME NEW q \in Running'
               PROVE  IF Ahead(req'[q]) THEN AheadOK(req[q])' ELSE CopyOK(req[q])'
    BY DEF RequestsFit, Ahead
  <2>1. IF Ahead(req'[q]) THEN AheadOK(req'[q]) ELSE CopyOK(req'[q])
    <3>1. CASE q = r
      BY <3>1 DEF Replaced, Running, At
    <3>2. CASE q # r
      <4>1. q \in Running /\ req'[q] = req[q]
        BY <3>2 DEF Replaced, Running, At
      <4> QED
        BY <4>1 DEF AllAddsUp, RequestsFit
    <3> QED
      BY <3>1, <3>2
  <2>2. AheadOK(req'[q]) => AheadOK(req[q])'
    BY <1>1 DEF AheadOK
  <2>3. CopyOK(req'[q]) => CopyOK(req[q])'
    BY <1>1 DEF CopyOK
  <2> QED
    BY <2>1, <2>2, <2>3
<1>4. StoredOK'
  <2>1. StoredOK
    BY DEF AllAddsUp
  <2> QED
    BY <1>1, <1>2, <2>1 DEF StoredOK, Ahead
<1>5. EntriesOK'
  <2>1. \A op, p : HasAhead(op, p) => HasAhead(op, p)'
    BY <1>2 DEF HasAhead, Ahead
  <2>2. EntriesOK
    BY DEF AllAddsUp
  <2> QED
    BY <1>1, <2>1, <2>2 DEF EntriesOK
<1> QED
  BY <1>3, <1>4, <1>5 DEF AllAddsUp

LEMMA FindTableMoney ==
    ASSUME TableInv, AllAddsUp, ~Rejoining, ~overlapped', NEW r \in Requests, NEW call \in Calls,
           FindTable(r, call)
    PROVE  AllAddsUp'
<1> DEFINE x == [pc |-> "seats", call |-> call, row |-> row, seats |-> NewTable]
<1>1. /\ req[r].pc = "idle" /\ (call.op = "join" => call.player \notin wasSeated)
      /\ ~Overlaps(call)
      /\ UNCHANGED <<row, seats, balance, entries, hands, wasSeated>>
  BY DEF FindTable, At, table, wallet
<1>2. Replaced(req, req', r, x)
  BY FindTableStep
<1>3. x.pc = "seats" /\ x.call = call /\ x.row = row
  OBVIOUS
<1> HIDE DEF x
<1>4. \A q \in Running : req[q].call = call /\ call.op # "act"
  BY <1>1 DEF Overlaps, Call
<1>5. SameCall'
  <2>1. \A q \in Running' : q # r => q \in Running /\ req'[q] = req[q]
    BY <1>2 DEF Replaced, Running, At
  <2>2. \A q \in Running' : req'[q].call = call /\ (q # r => call.op # "act")
    BY <1>2, <1>3, <1>4, <2>1 DEF Replaced
  <2> QED
    BY <2>2 DEF SameCall
<1>6. CopyOK(x) /\ ~Ahead(x) /\ ~Ahead(req[r])
  BY <1>1, <1>3 DEF CopyOK, Ahead
<1> QED
  BY <1>1, <1>2, <1>5, <1>6, QuietStep

LEMMA LoadSeatsMoney ==
    ASSUME TableInv, AllAddsUp, NEW r \in Requests, loadSeats(r)
    PROVE  AllAddsUp'
<1>1. /\ req[r].pc = "seats" /\ r \in Running /\ ~Ahead(req[r]) /\ CopyOK(req[r])
      /\ UNCHANGED <<row, seats, balance, entries, hands, wasSeated>>
  BY DEF loadSeats, At, table, wallet, Running, Ahead, AllAddsUp, RequestsFit
<1>2. PICK x : /\ Replaced(req, req', r, x)
               /\ \/ x.pc = "idle"
                  \/ /\ x.call = req[r].call /\ x.row = req[r].row /\ x.seats = seats
                     /\ \/ /\ x.pc = "wallet"
                           /\ \/ MayJoin(x.call, x.row, x.seats)
                              \/ MayLeave(x.call, x.row, x.seats)
                        \/ x.pc = "engine" /\ MayAct(x.call, x.row, x.seats)
  BY LoadSeatsStep, NewTableOK
<1>3. SameCall'
  BY <1>1, <1>2, SameCallStays DEF AllAddsUp
<1>4. ASSUME x.pc # "idle" PROVE ~Ahead(x) /\ CopyOK(x)
  <2>1. x.call = req[r].call /\ x.row = req[r].row /\ x.seats = seats
    BY <1>2, <1>4
  <2>2. x.pc \in {"wallet", "engine"}
    BY <1>2, <1>4
  <2>3. req[r].call \in Calls /\ SeatsOK(seats)
    BY <1>1 DEF TableInv, RequestOK
  <2>4. x.pc = "wallet" => Before(x.call, seats)
    BY <1>2, <2>1, <2>3, AfterCall
  <2>5. x.pc = "engine" => x.call.op = "act"
    BY <1>2, <1>4 DEF MayAct
  <2> QED
    BY <1>1, <2>1, <2>2, <2>4, <2>5 DEF CopyOK, Ahead
<1> QED
  BY <1>1, <1>2, <1>3, <1>4, QuietStep

LEMMA EndMoney ==
    ASSUME TableInv, AllAddsUp, ~cutOff', NEW r \in Requests,
           InsufficientFunds(r) \/ ApplyActionRefused(r) \/ StartHandRefused(r) \/ Fail(r)
    PROVE  AllAddsUp'
<1>1. /\ UNCHANGED <<row, seats, balance, entries, hands, wasSeated>>
      /\ Replaced(req, req', r, NoRequest) /\ ~Ahead(req[r]) /\ NoRequest.pc = "idle"
  BY EndStep, NewTableOK
<1>2. SameCall'
  BY <1>1, SameCallStays DEF AllAddsUp
<1> QED
  BY <1>1, <1>2, QuietStep

(* Act, in which nothing runs beside the request: it has the stored table, *)
(* which fits the hand, and the money is all there.                        *)
LEMMA ActorIsAlone ==
    ASSUME TableInv, AllAddsUp, NEW r \in Requests, req[r].pc = "engine"
    PROVE  /\ Running = {r} /\ req[r].call.op = "act" /\ ~Ahead(req[r])
           /\ req[r].row = row /\ req[r].seats = seats
           /\ Money(balance, seats, hands) /\ Fits(row, seats, hands)
<1>1. r \in Running /\ ~Ahead(req[r])
  BY DEF Running, At, Ahead
<1>2. req[r].call.op = "act"
  BY DEF TableInv, RequestOK, MayAct
<1>3. Running = {r}
  BY <1>1, <1>2 DEF AllAddsUp, SameCall
<1>4. CopyOK(req[r])
  BY <1>1 DEF AllAddsUp, RequestsFit
<1>5. req[r].row = row /\ req[r].seats = seats
  BY <1>2, <1>4 DEF CopyOK
<1>6. Money(balance, seats, hands) /\ Fits(row, seats, hands)
  BY <1>1, <1>3 DEF AllAddsUp, StoredOK
<1> QED
  BY <1>1, <1>2, <1>3, <1>5, <1>6

LEMMA GoesOnMoney ==
    ASSUME TableInv, AllAddsUp, NEW r \in Requests, ApplyActionGoesOn(r)
    PROVE  AllAddsUp'
<1>1. req[r].pc = "engine" /\ UNCHANGED <<row, seats, balance, entries, hands, wasSeated>>
  BY GoesOnStep
<1>2. PICK x : /\ Replaced(req, req', r, x)
               /\ x.pc = "save" /\ x.call = req[r].call /\ x.row = req[r].row
               /\ x.seats = req[r].seats
  BY GoesOnStep
<1>3. /\ req[r].call.op = "act" /\ ~Ahead(req[r]) /\ req[r].row = row /\ req[r].seats = seats
      /\ Money(balance, seats, hands) /\ Fits(row, seats, hands)
  BY <1>1, ActorIsAlone
<1>4. SameCall'
  BY <1>1, <1>2, SameCallStays DEF AllAddsUp
<1>5. AheadOK(x) /\ Ahead(x)
  BY <1>2, <1>3 DEF AheadOK, Ahead
<1> QED
  BY <1>1, <1>2, <1>3, <1>4, <1>5, QuietStep

LEMMA ShowdownMoney ==
    ASSUME TableInv, TableInv', AllAddsUp, NEW r \in Requests, ApplyActionShowdown(r)
    PROVE  AllAddsUp'
<1> DEFINE h == req[r].row.hand
<1>1. /\ req[r].pc = "engine" /\ h \in DOMAIN hands
      /\ UNCHANGED <<row, seats, balance, entries, wasSeated>>
  BY ShowdownStep
<1>2. PICK stacks \in [DOMAIN hands[h].stacks -> Nat] :
      \E ss, x :
         /\ Showdown(h, stacks, hands, hands')
         /\ ss = unseatBustedPlayers(applyStacksFromState(req[r].seats, stacks))
         /\ Replaced(req, req', r, x)
         /\ x.pc = IF CanAutoStart(x.row, ss) THEN "start" ELSE "save"
         /\ x.call = req[r].call /\ x.seats = ss
         /\ x.row.status = "idle" /\ x.row.hand = Nobody
  BY ShowdownStep
<1> DEFINE ss == unseatBustedPlayers(applyStacksFromState(seats, stacks))
<1>3. /\ Running = {r} /\ req[r].call.op = "act" /\ ~Ahead(req[r])
      /\ req[r].row = row /\ req[r].seats = seats
      /\ Money(balance, seats, hands) /\ Fits(row, seats, hands)
  BY <1>1, ActorIsAlone
<1>4. PICK x :
         /\ Showdown(h, stacks, hands, hands')
         /\ Replaced(req, req', r, x)
         /\ x.pc = IF CanAutoStart(x.row, ss) THEN "start" ELSE "save"
         /\ x.call = req[r].call /\ x.seats = ss
         /\ x.row.status = "idle" /\ x.row.hand = Nobody
  BY <1>2, <1>3
<1>5. SeatsOK(seats) /\ h # Nobody
  BY <1>1 DEF TableInv, RequestOK, MayAct
<1>6. Money(balance, ss, hands')
  BY <1>1, <1>3, <1>4, <1>5, MoneyAtShowdown
<1>7. ASSUME NEW p \in Players, IsSeated(p, ss) PROVE IsSeated(p, seats)
  <2>1. DOMAIN hands[h].stacks \in SUBSET Players
    BY <1>1, HandFacts
  <2>2. \A s \in Seats : ss[s].player \in {seats[s].player, Nobody}
    BY <1>5, <2>1, AfterShowdown
  <2> HIDE DEF ss
  <2> QED
    BY <1>7, <2>2, SeatsFacts DEF IsSeated
<1> HIDE DEF ss, h
<1>8. x.pc = "save" => Fits(x.row, ss, hands')
  <2>1. x.pc = "save" => ~(Cardinality(PlayablePlayers(ss)) >= 2)
    BY <1>4 DEF CanAutoStart
  <2> QED
    BY <1>4, <2>1, PlayableFinite DEF Fits
<1>9. Running' = {r} /\ req'[r] = x /\ Ahead(x)
  BY <1>3, <1>4 DEF Replaced, Running, At, Ahead
<1>10. AheadOK(req[r])'
  BY <1>1, <1>3, <1>4, <1>6, <1>7, <1>8, <1>9 DEF AheadOK
<1>11. RequestsFit'
  BY <1>9, <1>10 DEF RequestsFit, Ahead
<1>12. SameCall'
  BY <1>9 DEF SameCall
<1>13. StoredOK'
  BY <1>1, <1>3, <1>4, <1>9 DEF AllAddsUp, StoredOK, Ahead
<1>14. EntriesOK'
  <2>1. \A op, p : ~HasAhead(op, p)
    BY <1>3 DEF HasAhead
  <2> QED
    BY <1>1, <2>1 DEF AllAddsUp, EntriesOK
<1> QED
  BY <1>11, <1>12, <1>13, <1>14 DEF AllAddsUp

(* DebitForJoin and CreditForCashout: the wallet applies the entry, or has *)
(* applied it for a duplicate, which is ahead or has saved the table.      *)
LEMMA WalletMoney ==
    ASSUME TableInv, AllAddsUp, NEW r \in Requests, DebitForJoin(r) \/ CreditForCashout(r)
    PROVE  AllAddsUp'
<1> DEFINE c == req[r].call
           t == req[r].row
           ss == req[r].seats
           key == Key(c, t, ss)
<1>1. /\ req[r].pc = "wallet" /\ UNCHANGED <<row, seats, hands, wasSeated>>
      /\ ApplyLedgerEntry(key, c.player, Amount(c, ss))
  BY WalletStep
<1>2. PICK x : /\ Replaced(req, req', r, x)
               /\ x.pc = IF CanAutoStart(t, After(c, ss)) /\ c.op # "leave" THEN "start" ELSE "save"
               /\ x.call = c /\ x.row = t /\ x.seats = After(c, ss)
  BY WalletStep
<1>3. r \in Running /\ req[r].pc # "idle" /\ ~Ahead(req[r]) /\ Ahead(x) /\ x.pc # "idle"
  BY <1>1, <1>2 DEF Running, At, Ahead
<1>4. /\ c \in Calls /\ RowOK(t, hands) /\ SeatsOK(ss)
      /\ MayJoin(c, t, ss) \/ MayLeave(c, t, ss)
  BY <1>1 DEF TableInv, RequestOK
<1>5. c.op \in {"join", "leave"} /\ c.player \in Players /\ Amount(c, ss) \in Int
  BY <1>4, AfterCall
<1>6. CopyOK(req[r]) /\ SameCall /\ StoredOK /\ EntriesOK /\ RequestsFit
  BY <1>3 DEF AllAddsUp, RequestsFit
<1>7. SameCall'
  BY <1>2, <1>3, <1>6, SameCallStays
<1>8. \A q \in Running : req[q].call = c
  BY <1>3, <1>6 DEF SameCall
<1> HIDE DEF c, t, ss, key
<1>9. Fits(row, seats, hands)
  BY <1>5, <1>6, <1>8 DEF StoredOK
<1>10. Fits(t, ss, hands)
  BY <1>1, <1>6, <1>9 DEF CopyOK, c, t, ss
<1>11. x.pc = "save" => Fits(t, After(c, ss), hands)
  <2>1. \A p \in DOMAIN hands[t.hand].stacks : t.hand # Nobody => p \in Players
    BY <1>4, HandFacts DEF RowOK
  <2>2. x.pc = "save" => ~(CanAutoStart(t, After(c, ss)) /\ c.op # "leave")
    BY <1>2
  <2> QED
    BY <1>4, <1>10, <2>1, <2>2, FitsAfterCall
<1>12. CASE HasKey(entries, key)
  <2>1. balance' = balance /\ entries' = entries
    BY <1>1, <1>5, <1>12, LedgerStep
  <2>2. CASE Before(c, seats)
    <3>1. t = row /\ ss = seats /\ (c.op = "join" => c.player \notin wasSeated)
      BY <1>1, <1>6, <2>2 DEF CopyOK, c, t, ss
    <3>2. PICK e \in entries : e.key = key
      BY <1>12 DEF HasKey
    <3>3. /\ c.op = "join" => key[1] = "join" /\ key[2] = c.player
          /\ c.op = "leave" => key[1] = "cashout" /\ key[2] = c.player
      BY DEF Key, key
    <3>4. c.op = "leave" => IsSeated(c.player, seats)
      BY <2>2 DEF Before
    <3>5. HasAhead(c.op, c.player)
      BY <1>5, <1>6, <3>1, <3>2, <3>3, <3>4 DEF EntriesOK
    <3>6. PICK q \in Running : Ahead(req[q])
      BY <3>5 DEF HasAhead
    <3>7. AheadOK(req[q])
      BY <1>6, <3>6 DEF RequestsFit
    <3>8. Money(balance, After(c, ss), hands)
      BY <1>5, <1>8, <2>2, <3>1, <3>6, <3>7 DEF AheadOK
    <3>9. AheadOK(x)
      BY <1>2, <1>5, <1>11, <1>12, <2>2, <3>1, <3>8 DEF AheadOK, key
    <3> QED
      BY <1>1, <1>2, <1>3, <1>7, <2>1, <3>9, QuietStep
  <2>3. CASE ~Before(c, seats)
    <3>1. After(c, ss) = seats
      BY <1>1, <1>6, <2>3 DEF CopyOK, c, ss
    <3>2. Money(balance, seats, hands)
      BY <1>5, <1>6, <1>8, <2>3 DEF StoredOK
    <3>3. AheadOK(x)
      BY <1>2, <1>5, <1>11, <2>3, <3>1, <3>2 DEF AheadOK
    <3> QED
      BY <1>1, <1>2, <1>3, <1>7, <2>1, <3>3, QuietStep
  <2> QED
    BY <2>2, <2>3
<1>13. CASE ~HasKey(entries, key)
  <2>1. /\ balance' \in [Players -> Nat]
        /\ balance'[c.player] = balance[c.player] + Amount(c, ss)
        /\ \A q \in Players : q # c.player => balance'[q] = balance[q]
        /\ entries' = entries \cup {[user |-> c.player, key |-> key, amount |-> Amount(c, ss)]}
    BY <1>1, <1>5, <1>13, LedgerStep
  <2>2. Before(c, seats)
    BY <1>1, <1>6, <1>13 DEF CopyOK, c, t, ss, key
  <2>3. t = row /\ ss = seats /\ (c.op = "join" => c.player \notin wasSeated)
    BY <1>1, <1>6, <2>2 DEF CopyOK, c, t, ss
  <2>4. \A q \in Running : ~Ahead(req[q])
    <3> SUFFICES ASSUME NEW q \in Running, Ahead(req[q]) PROVE FALSE
      OBVIOUS
    <3>1. AheadOK(req[q])
      BY <1>6 DEF RequestsFit
    <3> QED
      BY <1>5, <1>8, <1>13, <2>2, <2>3, <3>1 DEF AheadOK, key
  <2>5. Money(balance, seats, hands)
    BY <1>6, <2>4 DEF StoredOK
  <2>6. Money(balance', After(c, ss), hands)
    BY <1>4, <2>1, <2>3, <2>5, MoneyMoves
  <2> DEFINE new == [user |-> c.player, key |-> key, amount |-> Amount(c, ss)]
  <2>7. new.key = key /\ new \in entries' /\ HasKey(entries', key)
    <3>1. new.key = key
      OBVIOUS
    <3>2. new \in entries'
      BY <2>1
    <3> QED
      BY <3>1, <3>2 DEF HasKey
  <2>8. req'[r] = x /\ r \in Running'
    BY <1>2, <1>3 DEF Replaced, Running, At
  <2>9. \A q \in Running' : q # r => q \in Running /\ req'[q] = req[q]
    BY <1>2 DEF Replaced, Running, At
  <2>10. AheadOK(req[r])'
    BY <1>1, <1>2, <1>5, <1>11, <2>2, <2>3, <2>6, <2>7, <2>8 DEF AheadOK, key
  <2>11. RequestsFit'
    <3> SUFFICES ASSUME NEW q \in Running'
                 PROVE  IF Ahead(req'[q]) THEN AheadOK(req[q])' ELSE CopyOK(req[q])'
      BY DEF RequestsFit, Ahead
    <3>1. CASE q = r
      BY <1>3, <2>8, <2>10, <3>1
    <3>2. CASE q # r
      <4>1. q \in Running /\ req'[q] = req[q] /\ ~Ahead(req[q]) /\ req[q].call = c
        BY <1>8, <2>4, <2>9, <3>2
      <4>2. CopyOK(req[q])
        BY <1>6, <4>1 DEF RequestsFit
      <4>3. CopyOK(req[q])'
        BY <1>1, <2>2, <4>1, <4>2 DEF CopyOK
      <4> QED
        BY <4>1, <4>3
    <3> QED
      BY <3>1, <3>2
  <2>12. StoredOK'
    <3>1. \E q \in Running' : Ahead(req'[q]) /\ Before(req'[q].call, seats')
      BY <1>1, <1>2, <1>3, <2>2, <2>8
    <3>2. Fits(row', seats', hands')
      BY <1>1, <1>9
    <3> QED
      BY <1>1, <1>6, <3>1, <3>2 DEF StoredOK, Ahead
  <2>13. EntriesOK'
    <3>1. \A op, p : ~HasAhead(op, p)
      BY <2>4 DEF HasAhead
    <3>2. \E q \in Running' :
             Ahead(req'[q]) /\ req'[q].call.op = c.op /\ req'[q].call.player = c.player
      BY <1>2, <1>3, <2>8
    <3> HIDE DEF new
    <3>3. new.key = key
      BY <2>7
    <3>4. /\ c.op = "join" => key[1] = "join" /\ key[2] = c.player
          /\ c.op = "leave" => key[1] = "cashout" /\ key[2] = c.player
      BY DEF Key, key
    <3>5. c.op = "leave" => c.player \in wasSeated
      BY <1>5, <1>6, <2>2 DEF StoredOK, Before
    <3> SUFFICES ASSUME NEW e \in entries'
                 PROVE  /\ e.key[1] = "join" => e.key[2] \in wasSeated' \/ HasAhead("join", e.key[2])'
                        /\ e.key[1] = "cashout" =>
                              /\ e.key[2] \in wasSeated'
                              /\ ~IsSeated(e.key[2], seats') \/ HasAhead("leave", e.key[2])'
      BY DEF EntriesOK
    <3>6. CASE e \in entries
      BY <1>1, <1>6, <3>1, <3>6 DEF EntriesOK
    <3>7. CASE e = new
      <4>1. CASE c.op = "join"
        BY <3>2, <3>3, <3>4, <3>7, <4>1 DEF HasAhead, Ahead
      <4>2. CASE c.op = "leave"
        BY <1>1, <3>2, <3>3, <3>4, <3>5, <3>7, <4>2 DEF HasAhead, Ahead
      <4> QED
        BY <1>5, <4>1, <4>2
    <3> QED
      BY <2>1, <3>6, <3>7 DEF new
  <2> QED
    BY <1>7, <2>11, <2>12, <2>13 DEF AllAddsUp
<1> QED
  BY <1>12, <1>13

LEMMA StartHandMoney ==
    ASSUME TableInv, AllAddsUp, NEW r \in Requests, StartHand(r)
    PROVE  AllAddsUp'
<1>1. req[r].pc = "start" /\ UNCHANGED <<row, seats, balance, entries, wasSeated>>
  BY StartHandStep
<1>2. PICK h, x :
         /\ h = Len(hands) + 1 /\ h \notin DOMAIN hands
         /\ DOMAIN hands' = DOMAIN hands \cup {h}
         /\ \A i \in DOMAIN hands : hands'[i] = hands[i]
         /\ ~hands'[h].over
         /\ hands'[h].stacks = StacksOf(req[r].seats)
         /\ Replaced(req, req', r, x)
         /\ x.pc = "save" /\ x.call = req[r].call /\ x.seats = req[r].seats
         /\ x.row.hand = h /\ x.row.status = "in_hand"
  BY StartHandStep
<1>3. /\ \A bs, ss : Money(bs, ss, hands) => Money(bs, ss, hands')
      /\ \A t, ss : RowOK(t, hands) /\ Fits(t, ss, hands) => Fits(t, ss, hands')
  BY <1>2, HandAdded
<1>4. /\ r \in Running /\ req[r].pc # "idle" /\ Ahead(req[r]) /\ Ahead(x)
      /\ SeatsOK(req[r].seats) /\ RowOK(row, hands)
  BY <1>1, <1>2 DEF Running, At, Ahead, TableInv, RequestOK
<1>5. SameCall /\ RequestsFit /\ StoredOK /\ EntriesOK /\ AheadOK(req[r])
  BY <1>4 DEF AllAddsUp, RequestsFit
<1>6. SameCall'
  BY <1>2, <1>4, <1>5, SameCallStays
<1>7. /\ req'[r] = x /\ r \in Running'
      /\ \A q \in Requests : q # r => req'[q] = req[q] /\ (q \in Running' <=> q \in Running)
  BY <1>2 DEF Replaced, Running, At
<1>8. Fits(x.row, x.seats, hands')
  BY <1>2, <1>4, FitsNewHand
<1>9. AheadOK(req[r])'
  BY <1>1, <1>2, <1>3, <1>5, <1>7, <1>8 DEF AheadOK
<1>10. RequestsFit'
  <2> SUFFICES ASSUME NEW q \in Running'
               PROVE  IF Ahead(req'[q]) THEN AheadOK(req[q])' ELSE CopyOK(req[q])'
    BY DEF RequestsFit, Ahead
  <2>1. CASE q = r
    BY <1>4, <1>7, <1>9, <2>1
  <2>2. CASE q # r
    <3>1. q \in Requests /\ q \in Running /\ req'[q] = req[q]
      BY <1>7, <2>2 DEF Running
    <3>2. RowOK(req[q].row, hands)
      BY <3>1 DEF TableInv, RequestOK, Running, At
    <3>3. AheadOK(req[q]) => AheadOK(req[q])'
      BY <1>1, <1>3, <3>1, <3>2 DEF AheadOK
    <3>4. CopyOK(req[q]) => CopyOK(req[q])'
      BY <1>1, <1>3, <3>1, <3>2 DEF CopyOK
    <3> QED
      BY <1>5, <3>1, <3>3, <3>4 DEF RequestsFit
  <2> QED
    BY <2>1, <2>2
<1>11. \A q \in Running : Ahead(req[q]) =>
          q \in Running' /\ Ahead(req'[q]) /\ req'[q].call = req[q].call
  BY <1>2, <1>4, <1>7 DEF Running
<1>12. StoredOK'
  BY <1>1, <1>3, <1>4, <1>5, <1>11 DEF StoredOK, Ahead
<1>13. EntriesOK'
  <2>1. \A op, p : HasAhead(op, p) => HasAhead(op, p)'
    BY <1>11 DEF HasAhead, Ahead
  <2> QED
    BY <1>1, <1>5, <2>1 DEF EntriesOK
<1> QED
  BY <1>6, <1>10, <1>12, <1>13 DEF AllAddsUp

(* Who sits at the table after a join or a leave. *)
LEMMA SeatedAfter ==
    ASSUME NEW c \in Calls, c.op # "act", NEW ss, SeatsOK(ss), Before(c, ss)
    PROVE  /\ c.player \in Players /\ ~Before(c, After(c, ss))
           /\ \A p \in Players : IsSeated(p, After(c, ss)) =>
                 IsSeated(p, ss) \/ (c.op = "join" /\ p = c.player)
<1>1. c.op \in {"join", "leave"} /\ c.player \in Players
  BY DEF Calls
<1>2. CASE c.op = "join"
  <2> DEFINE taken == [player |-> c.player, stack |-> c.buyIn]
             new == [ss EXCEPT ![c.seat] = taken]
  <2>1. c.seat \in Seats
    BY <1>2 DEF Calls
  <2>2. new[c.seat] = taken /\ taken.player = c.player /\ \A s \in Seats : s # c.seat => new[s] = ss[s]
    BY <2>1 DEF SeatsOK, SeatRows
  <2>3. After(c, ss) = new
    BY <1>2 DEF After
  <2> HIDE DEF new, taken
  <2>4. IsSeated(c.player, new)
    BY <2>1, <2>2 DEF IsSeated
  <2>5. ASSUME NEW p \in Players, IsSeated(p, new) PROVE IsSeated(p, ss) \/ p = c.player
    BY <2>2, <2>5 DEF IsSeated
  <2> QED
    BY <1>1, <1>2, <2>3, <2>4, <2>5 DEF Before
<1>3. CASE c.op = "leave"
  <2>1. IsSeated(c.player, ss)
    BY <1>3 DEF Before
  <2>2. ~IsSeated(c.player, After(c, ss))
    BY <1>3, <2>1, AfterLeave
  <2>3. PICK seat \in Seats :
           /\ After(c, ss)[seat] = EmptySeat
           /\ \A s \in Seats : s # seat => After(c, ss)[s] = ss[s]
    BY <1>3, <2>1, AfterLeave
  <2>4. After(c, ss)[seat].player = Nobody
    BY <2>3 DEF EmptySeat
  <2>5. ASSUME NEW p \in Players, IsSeated(p, After(c, ss)) PROVE IsSeated(p, ss)
    BY <2>3, <2>4, <2>5, SeatsFacts DEF IsSeated
  <2> QED
    BY <1>1, <1>3, <2>2, <2>5 DEF Before
<1> QED
  BY <1>1, <1>2, <1>3

(* SaveTable of an action, which is alone. *)
LEMMA SaveActMoney ==
    ASSUME TableInv, AllAddsUp, NEW r \in Requests, SaveTable(r), req[r].call.op = "act"
    PROVE  AllAddsUp'
<1>1. /\ req[r].pc = "save" /\ row' = req[r].row /\ seats' = req[r].seats
      /\ wasSeated' = wasSeated /\ UNCHANGED <<balance, entries, hands>>
      /\ Replaced(req, req', r, NoRequest)
  BY SaveTableStep
<1>2. r \in Running /\ Ahead(req[r])
  BY <1>1 DEF Running, At, Ahead
<1>3. Running = {r} /\ AheadOK(req[r])
  BY <1>2 DEF AllAddsUp, RequestsFit, SameCall
<1>4. Running' = {}
  BY <1>1, <1>3, NewTableOK DEF Replaced, Running, At
<1>5. /\ Money(balance', seats', hands') /\ Fits(row', seats', hands')
      /\ \A p \in Players : IsSeated(p, seats') => IsSeated(p, seats)
  BY <1>1, <1>3 DEF AheadOK
<1>6. StoredOK'
  BY <1>1, <1>5 DEF AllAddsUp, StoredOK
<1>7. EntriesOK'
  <2>1. \A p : ~HasAhead("join", p) /\ ~HasAhead("leave", p)
    BY <1>3 DEF HasAhead
  <2>2. wasSeated \subseteq Players
    BY DEF TableInv, Shape
  <2> QED
    BY <1>1, <1>5, <2>1, <2>2 DEF AllAddsUp, EntriesOK
<1> QED
  BY <1>4, <1>6, <1>7 DEF AllAddsUp, SameCall, RequestsFit

(* SaveTable of a join or a leave: the stored table shows its effect then, *)
(* and a duplicate that runs on saves the same.                            *)
LEMMA SaveCallMoney ==
    ASSUME TableInv, AllAddsUp, NEW r \in Requests, SaveTable(r), req[r].call.op # "act"
    PROVE  AllAddsUp'
<1> DEFINE c == req[r].call
           ss == req[r].seats
<1>1. /\ req[r].pc = "save" /\ row' = req[r].row /\ seats' = ss
      /\ wasSeated' = (IF c.op = "join" THEN wasSeated \cup {c.player} ELSE wasSeated)
      /\ UNCHANGED <<balance, entries, hands>>
      /\ Replaced(req, req', r, NoRequest)
  BY SaveTableStep
<1>2. r \in Running /\ Ahead(req[r]) /\ c \in Calls /\ SeatsOK(seats) /\ wasSeated \subseteq Players
  BY <1>1 DEF Running, At, Ahead, TableInv, RequestOK, Shape
<1>3. SameCall /\ RequestsFit /\ StoredOK /\ EntriesOK /\ AheadOK(req[r])
  BY <1>2 DEF AllAddsUp, RequestsFit
<1>4. \A q \in Running : req[q].call = c
  BY <1>2, <1>3 DEF SameCall
<1>5. /\ Before(c, seats) => ss = After(c, seats) /\ HasKey(entries, Key(c, row, seats))
      /\ ~Before(c, seats) => ss = seats
      /\ c.op = "join" /\ Before(c, seats) => c.player \notin wasSeated
      /\ Money(balance, ss, hands) /\ Fits(req[r].row, ss, hands)
  BY <1>1, <1>3 DEF AheadOK
<1>6. /\ c.op \in {"join", "leave"}
      /\ ~Before(c, ss)
      /\ \A p \in Players : IsSeated(p, ss) => IsSeated(p, seats) \/ (c.op = "join" /\ p = c.player)
  BY <1>2, <1>5, SeatedAfter DEF Calls
<1>7. Fits(row, seats, hands)
  BY <1>3, <1>4, <1>6 DEF StoredOK
<1>8. \A q \in Running' : q # r /\ q \in Running /\ req'[q] = req[q] /\ req[q].call = c
  BY <1>1, <1>4, NewTableOK DEF Replaced, Running, At
<1>9. SameCall'
  BY <1>6, <1>8 DEF SameCall
<1> HIDE DEF c, ss
<1>10. RequestsFit'
  <2> SUFFICES ASSUME NEW q \in Running'
               PROVE  IF Ahead(req'[q]) THEN AheadOK(req[q])' ELSE CopyOK(req[q])'
    BY DEF RequestsFit, Ahead
  <2>1. q \in Running /\ req'[q] = req[q] /\ req[q].call = c
    BY <1>8
  <2>2. IF Ahead(req[q]) THEN AheadOK(req[q]) ELSE CopyOK(req[q])
    BY <1>3, <2>1 DEF RequestsFit
  <2>3. AheadOK(req[q]) => AheadOK(req[q])'
    BY <1>1, <1>5, <1>6, <2>1 DEF AheadOK
  <2>4. CopyOK(req[q]) => CopyOK(req[q])'
    <3> SUFFICES ASSUME CopyOK(req[q])
                 PROVE  req[q].pc = "wallet" =>
                           /\ After(c, req[q].seats) = ss
                           /\ Fits(req[q].row, req[q].seats, hands)
                           /\ HasKey(entries, Key(c, req[q].row, req[q].seats))
      BY <1>1, <1>6, <2>1 DEF CopyOK
    <3>1. CASE Before(c, seats)
      BY <1>5, <1>7, <2>1, <3>1 DEF CopyOK
    <3>2. CASE ~Before(c, seats)
      BY <1>5, <2>1, <3>2 DEF CopyOK
    <3> QED
      BY <3>1, <3>2
  <2> QED
    BY <2>1, <2>2, <2>3, <2>4
<1>11. StoredOK'
  <2>1. ASSUME NEW p \in Players, IsSeated(p, seats') PROVE p \in wasSeated'
    BY <1>1, <1>3, <1>6, <2>1 DEF StoredOK
  <2> QED
    BY <1>1, <1>5, <2>1 DEF StoredOK
<1>12. EntriesOK'
  <2>1. \A op, p : HasAhead(op, p) => op = c.op /\ p = c.player
    BY <1>4 DEF HasAhead
  <2> SUFFICES ASSUME NEW e \in entries
               PROVE  /\ e.key[1] = "join" => e.key[2] \in wasSeated'
                      /\ e.key[1] = "cashout" => e.key[2] \in wasSeated' /\ ~IsSeated(e.key[2], seats')
    BY <1>1 DEF EntriesOK
  <2>2. e.key[1] = "join" => e.key[2] \in wasSeated'
    BY <1>1, <1>3, <2>1 DEF EntriesOK
  <2>3. ASSUME e.key[1] = "cashout" PROVE e.key[2] \in wasSeated' /\ ~IsSeated(e.key[2], ss)
    <3>1. /\ e.key[2] \in wasSeated /\ e.key[2] \in Players
          /\ ~IsSeated(e.key[2], seats) \/ (c.op = "leave" /\ e.key[2] = c.player)
      BY <1>2, <1>3, <2>1, <2>3 DEF EntriesOK
    <3>2. CASE c.op = "leave" /\ e.key[2] = c.player
      BY <1>1, <1>6, <3>1, <3>2 DEF Before
    <3>3. CASE ~IsSeated(e.key[2], seats)
      BY <1>1, <1>5, <1>6, <3>1, <3>3
    <3> QED
      BY <3>1, <3>2, <3>3
  <2> QED
    BY <1>1, <2>2, <2>3
<1> QED
  BY <1>9, <1>10, <1>11, <1>12 DEF AllAddsUp

LEMMA InitMoneyInv == Init => MoneyInv
<1> SUFFICES ASSUME Init PROVE AllAddsUp
  BY DEF MoneyInv
<1>1. /\ row.status = "idle" /\ row.hand = Nobody /\ seats = NewTable
      /\ balance = [p \in Players |-> Opening] /\ entries = {} /\ hands = << >>
      /\ req = [r \in Requests |-> NoRequest]
  BY DEF Init
<1>2. Running = {}
  BY <1>1, NewTableOK DEF Running, At
<1>3. \A s \in Seats : seats[s].player = Nobody /\ seats[s].stack = 0
  BY <1>1 DEF NewTable, EmptySeat
<1>4. Fits(row, seats, hands)
  <2>1. PlayablePlayers(seats) = {}
    BY <1>3 DEF PlayablePlayers
  <2>2. Cardinality(PlayablePlayers(seats)) = 0
    BY <2>1, FS_EmptySet
  <2> QED
    BY <1>1, <2>2 DEF Fits
<1>5. Money(balance, seats, hands)
  <2>1. SumFunction(balance) = Opening * Cardinality(Players)
    <3>1. DOMAIN balance = Players /\ \A p \in Players : balance[p] = Opening
      BY <1>1
    <3>2. Opening \in Int /\ IsFiniteSet(Players)
      BY PlayersAssumption
    <3>3. SumFunctionOnSet(balance, Players) = Opening * Cardinality(Players)
      BY <3>1, <3>2, SumOnConstant
    <3> QED
      BY <3>1, <3>3 DEF SumFunction
  <2>2. SumFunction(Stacks(seats)) = 0
    <3>1. \A s \in Seats : Stacks(seats)[s] = 0
      BY <1>3 DEF Stacks
    <3>2. DOMAIN Stacks(seats) = Seats
      BY DEF Stacks
    <3>3. IsFiniteSet(Seats) /\ 0 \in Int
      BY SeatsFacts
    <3>4. SumFunctionOnSet(Stacks(seats), Seats) = 0 * Cardinality(Seats)
      BY <3>1, <3>3, SumOnConstant
    <3>5. Cardinality(Seats) \in Nat
      BY <3>3, FS_CardinalityType
    <3> QED
      BY <3>2, <3>4, <3>5 DEF SumFunction
  <2>3. SumFunction(Rakes(hands)) = 0
    <3>1. DOMAIN Rakes(hands) = {}
      BY <1>1 DEF Rakes, OverHands
    <3> QED
      BY <3>1, SumOnEmpty DEF SumFunction
  <2>4. Opening * Cardinality(Players) \in Int
    BY PlayersAssumption, FS_CardinalityType
  <2> QED
    BY <2>1, <2>2, <2>3, <2>4 DEF Money
<1>6. StoredOK
  <2>1. \A p \in Players : ~IsSeated(p, seats)
    BY <1>3, SeatsFacts DEF IsSeated
  <2> QED
    BY <1>4, <1>5, <2>1 DEF StoredOK
<1> QED
  BY <1>1, <1>2, <1>6 DEF AllAddsUp, SameCall, RequestsFit, EntriesOK

LEMMA NextMoneyInv ==
    ASSUME ~Rejoining
    PROVE  TableInv /\ MoneyInv /\ [Next]_vars => MoneyInv'
<1> SUFFICES ASSUME TableInv, MoneyInv, [Next]_vars, Serial' PROVE AllAddsUp'
  BY DEF MoneyInv
<1>1. TableInv'
  BY NextTableInv
<1>2. CASE UNCHANGED vars
  <2>1. UNCHANGED <<row, seats, balance, entries, hands, req, wasSeated, cutOff, overlapped>>
    BY <1>2 DEF vars, table, wallet
  <2>2. AllAddsUp
    BY <2>1 DEF MoneyInv, Serial
  <2>3. Running' = Running
    BY <2>1 DEF Running, At
  <2>4. SameCall' /\ RequestsFit' /\ StoredOK'
    BY <2>1, <2>2, <2>3 DEF AllAddsUp, SameCall, RequestsFit, StoredOK, Ahead, AheadOK, CopyOK
  <2>5. \A op, p : HasAhead(op, p) => HasAhead(op, p)'
    BY <2>1, <2>3 DEF HasAhead, Ahead
  <2>6. EntriesOK'
    BY <2>1, <2>2, <2>5 DEF AllAddsUp, EntriesOK
  <2> QED
    BY <2>4, <2>6 DEF AllAddsUp
<1>3. ASSUME NEW r \in Requests, NEW call \in Calls, FindTable(r, call) PROVE AllAddsUp'
  <2>1. Serial /\ ~overlapped'
    BY <1>3 DEF FindTable, Serial
  <2> QED
    BY <1>3, <2>1, FindTableMoney DEF MoneyInv
<1>4. ASSUME NEW r \in Requests, loadSeats(r) PROVE AllAddsUp'
  BY <1>4, LoadSeatsMoney DEF MoneyInv, Serial, loadSeats
<1>5. ASSUME NEW r \in Requests, DebitForJoin(r) \/ CreditForCashout(r) PROVE AllAddsUp'
  <2>1. Serial
    BY <1>5, WalletStep DEF Serial
  <2> QED
    BY <1>5, <2>1, WalletMoney DEF MoneyInv
<1>6. ASSUME NEW r \in Requests, ApplyActionGoesOn(r) PROVE AllAddsUp'
  BY <1>6, GoesOnMoney DEF MoneyInv, Serial, ApplyActionGoesOn
<1>7. ASSUME NEW r \in Requests, ApplyActionShowdown(r) PROVE AllAddsUp'
  <2>1. Serial
    BY <1>7 DEF Serial, ApplyActionShowdown
  <2> QED
    BY <1>1, <1>7, <2>1, ShowdownMoney DEF MoneyInv
<1>8. ASSUME NEW r \in Requests, StartHand(r) PROVE AllAddsUp'
  <2>1. Serial
    BY <1>8 DEF Serial, StartHand
  <2> QED
    BY <1>8, <2>1, StartHandMoney DEF MoneyInv
<1>9. ASSUME NEW r \in Requests, SaveTable(r) PROVE AllAddsUp'
  <2>1. Serial
    BY <1>9 DEF Serial, SaveTable
  <2> QED
    BY <1>9, <2>1, SaveActMoney, SaveCallMoney DEF MoneyInv
<1>10. ASSUME NEW r \in Requests,
              InsufficientFunds(r) \/ ApplyActionRefused(r) \/ StartHandRefused(r) \/ Fail(r)
       PROVE  AllAddsUp'
  <2>1. Serial /\ ~cutOff'
    BY <1>10, EndStep DEF Serial
  <2> QED
    BY <1>10, <2>1, EndMoney DEF MoneyInv
<1> QED
  BY <1>2, <1>3, <1>4, <1>5, <1>6, <1>7, <1>8, <1>9, <1>10 DEF Next

(* Where every player joins once: joins, hands and leaves, with duplicates *)
(* of the joins and leaves beside them and calls that fail before they     *)
(* changed anything, keep MoneyInv.                                        *)
THEOREM MoneyInvHolds == ASSUME ~Rejoining PROVE Spec => []MoneyInv
<1>1. TableInv /\ MoneyInv /\ [Next]_vars => MoneyInv'
  BY NextMoneyInv
<1> QED
  BY <1>1, InitMoneyInv, TableInvHolds, PTL DEF Spec

(* The table at rest has all the money and fits the hand. *)
LEMMA AtRestAddsUp ==
    ASSUME TableInv, MoneyInv, AtRest
    PROVE  Money(balance, seats, hands) /\ Fits(row, seats, hands)
<1>1. AllAddsUp /\ Running = {}
  BY DEF AtRest, MoneyInv, Serial
<1> QED
  BY <1>1 DEF AllAddsUp, StoredOK

(* MoneyConserved: no chip is made or lost between wallets, seats and rake *)
(* while requests do not overlap with other than their own duplicates,     *)
(* none is cut off between a call and SaveTable and nobody joins again.    *)
(* (The join_debits run shows what happens to a player who does.)          *)
THEOREM MoneyConservedHolds == ASSUME ~Rejoining PROVE Spec => []MoneyConserved
<1>1. TableInv /\ MoneyInv => MoneyConserved
  <2> SUFFICES ASSUME TableInv, MoneyInv, AtRest
               PROVE  SumFunction(balance) + SumFunction([s \in Seats |-> seats[s].stack])
                         + SumFunction([h \in Settled |-> hands[h].rake])
                      = Opening * Cardinality(Players)
    BY DEF MoneyConserved
  <2>1. Money(balance, seats, hands) /\ Fits(row, seats, hands)
    BY AtRestAddsUp
  <2>2. \A h \in DOMAIN hands : h \in Nat
    BY HandFacts
  <2>3. Settled = OverHands(hands)
    BY <2>1, <2>2, SeatsFacts DEF Settled, OverHands, Fits
  <2> QED
    BY <2>1, <2>3 DEF Money, Stacks, Rakes
<1> QED
  BY <1>1, TableInvHolds, MoneyInvHolds, PTL

(* TableFitsHand: under the same conditions the stored table says that it  *)
(* is in a hand exactly when the engine runs that hand, its players sit    *)
(* with the stacks they started it with, and two players with chips never  *)
(* wait for a hand.                                                        *)
THEOREM TableFitsHandHolds == ASSUME ~Rejoining PROVE Spec => []TableFitsHand
<1>1. TableInv /\ MoneyInv => TableFitsHand
  <2> SUFFICES ASSUME TableInv, MoneyInv, AtRest
               PROVE  /\ row.status = "in_hand" <=> row.hand # Nobody
                      /\ Fits(row, seats, hands)
    BY DEF TableFitsHand, Fits
  <2>1. row.status = "in_hand" <=> row.hand # Nobody
    BY DEF TableInv, RowOK
  <2> QED
    BY <2>1, AtRestAddsUp
<1> QED
  BY <1>1, TableInvHolds, MoneyInvHolds, PTL
-----------------------------------------------------------------------------
(* LiveUpdates. *)

(* A view of a hand and a table, and the players whose hole cards it holds. *)
View == [hand : Nat \cup {-1}, table : Nat \cup {-1}, cards : SUBSET Seated]

Hubs == {"pubsub", "hub"}

SaverRecord == [pc : {"none", "pubsub", "table", "hub", "answered", "failed"},
                kind : {"none", "act", "seat"}, next : Nat]

LiveShape ==
    /\ setting \in Settings
    /\ saved \in 0 .. MaxUpdates /\ savedHand \in 0 .. saved /\ savedTable \in 0 .. saved
    /\ saver \in [Versions -> SaverRecord]
    /\ subs \in [Hubs -> Seq(Clients)]
    /\ client \in [Clients -> {"off", "subscribe", "loop"}]
    /\ queue \in [Clients -> Seq(View)]
    /\ gone \subseteq Clients
    /\ shown \in [Clients -> View]
    /\ published \in [Hubs -> Nat]
    /\ overlappedSaves \in BOOLEAN

(* A request that publishes has saved, and has come to a subscriber that   *)
(* is in the list.  The engine publishes for Act only.                     *)
SaverOK(r) ==
    /\ Busy(r) => r <= saved
    /\ saver[r].pc \in {"pubsub", "table"} => saver[r].kind = "act"
    /\ saver[r].pc \in Hubs => saver[r].next <= Len(subs[saver[r].pc])
    /\ saver[r].pc \notin Hubs => saver[r].next = 0

SaversOK ==
    /\ \A r \in Versions : SaverOK(r)
    /\ \A h \in Hubs : published[h] <= saved

(* A list has the clients of its own hub whose handlers are in their loop, *)
(* each of them once.                                                      *)
ListsOK ==
    /\ \A h \in Hubs : \A n \in 1 .. Len(subs[h]) :
          /\ client[subs[h][n]] = "loop" /\ HubOf(subs[h][n]) = h
          /\ \A m \in 1 .. Len(subs[h]) : subs[h][m] = subs[h][n] => m = n
    /\ \A s \in Clients : client[s] = "loop" => Listed(s)
    /\ \A s \in gone : client[s] = "loop"

(* What a client may be shown. *)
ViewOK(s, v) ==
    v.hand <= saved /\ v.table <= saved /\ (s \in Sockets => v.cards \subseteq {s})

ChannelsOK ==
    \A s \in Clients :
        /\ Len(queue[s]) <= Capacity
        /\ queue[s] # <<>> => client[s] = "loop"
        /\ ViewOK(s, shown[s])
        /\ \A n \in 1 .. Len(queue[s]) : ViewOK(s, queue[s][n])

(* The request was the last to save, the hand and the table are the ones   *)
(* it saved.                                                               *)
LastSaver(r) ==
    /\ r = saved
    /\ saver[r].kind = "act" => savedHand = r
    /\ saver[r].pc = "hub" => savedTable = r

(* A view that is no newer than what is saved.  A stream shows no table.   *)
Within(s, v) ==
    v.hand <= savedHand /\ v.table <= (IF s \in Streams THEN 0 ELSE savedTable)

(* A channel q behind a view v: nothing in it is newer than what is saved, *)
(* and nothing is older than what comes before it.                         *)
Ordered(s, v, q) ==
    /\ Within(s, v)
    /\ \A n \in 1 .. Len(q) :
          /\ Within(s, q[n]) /\ ~Older(q[n], v)
          /\ \A m \in n .. Len(q) : ~Older(q[m], q[n])

(* While no two requests overlap, only the last one that saved is to       *)
(* publish, and the channels are in order.                                 *)
InOrder ==
    ~overlappedSaves =>
        /\ \A r \in Versions : Busy(r) => LastSaver(r)
        /\ \A s \in Clients : Ordered(s, shown[s], queue[s])

LiveInv == LiveShape /\ SaversOK /\ ListsOK /\ ChannelsOK /\ InOrder
-----------------------------------------------------------------------------
(* What the steps of a Publish do. *)

LEMMA HubOfType == \A s : HubOf(s) \in Hubs
BY DEF HubOf, Hubs

(* append(subs[:i], subs[i+1:]...) leaves out the one entry. *)
LEMMA WithoutOne ==
    ASSUME NEW S, NEW list \in Seq(S), NEW i \in 1 .. Len(list)
    PROVE  LET w == Without(list, i)
           IN  /\ w \in Seq(S) /\ Len(w) = Len(list) - 1
               /\ \A n \in 1 .. Len(w) : w[n] = list[IF n < i THEN n ELSE n + 1]
               /\ \A m \in 1 .. Len(list) : m # i => \E n \in 1 .. Len(w) : w[n] = list[m]
<1> DEFINE w == Without(list, i)
           last == Len(list) - 1
<1>1. Len(list) \in Nat /\ last \in Nat /\ list \in [1 .. Len(list) -> S]
  OBVIOUS
<1>2. w = [n \in 1 .. last |-> list[IF n < i THEN n ELSE n + 1]]
  BY <1>1 DEF Without
<1>3. \A n \in 1 .. last : (IF n < i THEN n ELSE n + 1) \in 1 .. Len(list)
  BY <1>1
<1>4. w \in [1 .. last -> S]
  BY <1>1, <1>2, <1>3
<1>5. w \in Seq(S) /\ Len(w) = last
  <2> HIDE DEF w, last
  <2> QED
    BY <1>1, <1>4
<1>6. \A n \in 1 .. last : w[n] = list[IF n < i THEN n ELSE n + 1]
  BY <1>2
<1>7. ASSUME NEW m \in 1 .. Len(list), m # i
      PROVE  \E n \in 1 .. last : w[n] = list[m]
  <2>1. CASE m < i
    <3>1. m \in 1 .. last
      BY <1>1, <2>1
    <3> QED
      BY <1>6, <2>1, <3>1
  <2>2. CASE m > i
    <3>1. m - 1 \in 1 .. last /\ ~(m - 1 < i) /\ (m - 1) + 1 = m
      BY <1>1, <2>2
    <3> QED
      BY <1>6, <3>1
  <2> QED
    BY <1>1, <1>7, <2>1, <2>2
<1> HIDE DEF w
<1> QED
  BY <1>5, <1>6, <1>7 DEF w

(* A request goes on to the next subscriber, the next hub or its answer. *)
LEMMA AdvanceType ==
    ASSUME LiveInv, NEW r \in Versions, saver[r].pc \in Hubs, NEW at \in Nat
    PROVE  LET a == Advance(r, at)
           IN  /\ a \in SaverRecord
               /\ a.pc \in {saver[r].pc, "table", "answered"}
               /\ a.pc \in {"pubsub", "table", "hub"} => a.kind = saver[r].kind
               /\ a.pc = "table" => saver[r].pc = "pubsub"
               /\ a.pc \in Hubs => a.next <= Len(subs[a.pc])
               /\ a.pc \notin Hubs => a.next = 0
<1> DEFINE q == saver[r]
<1>1. q \in SaverRecord /\ q.pc \in Hubs
  BY DEF LiveInv, LiveShape
<1>2. \A h \in Hubs : Len(subs[h]) \in Nat
  BY DEF LiveInv, LiveShape
<1>3. CASE at < Len(subs[q.pc])
  <2> DEFINE a == [q EXCEPT !.next = at + 1]
  <2>1. a \in SaverRecord /\ a.pc = q.pc /\ a.next = at + 1 /\ a.kind = q.kind
    BY <1>1 DEF SaverRecord
  <2>2. Advance(r, at) = a
    BY <1>3 DEF Advance
  <2> HIDE DEF a, q
  <2> QED
    BY <1>1, <1>2, <1>3, <2>1, <2>2 DEF Hubs, q
<1>4. CASE ~(at < Len(subs[q.pc])) /\ q.pc = "pubsub"
  <2> DEFINE a == [q EXCEPT !.pc = "table", !.next = 0]
  <2>1. a \in SaverRecord /\ a.pc = "table" /\ a.next = 0 /\ a.kind = q.kind
    BY <1>1 DEF SaverRecord
  <2>2. Advance(r, at) = a
    BY <1>4 DEF Advance
  <2> HIDE DEF a
  <2> QED
    BY <1>4, <2>1, <2>2 DEF Hubs
<1>5. CASE ~(at < Len(subs[q.pc])) /\ q.pc # "pubsub"
  BY <1>5 DEF Advance, Answered, SaverRecord, Hubs
<1> QED
  BY <1>3, <1>4, <1>5

(* What is published shows a saved hand and a saved table, the last ones   *)
(* if no two requests overlap, and has no other player's cards for a       *)
(* socket.                                                                 *)
LEMMA ViewsType ==
    ASSUME LiveInv, NEW r \in Versions, saver[r].pc \in Hubs,
           NEW s \in Clients, HubOf(s) = saver[r].pc, NEW v \in Views(r, s)
    PROVE  /\ v \in View /\ ViewOK(s, v)
           /\ ~overlappedSaves =>
                  /\ Within(s, v)
                  /\ \A w \in View : Within(s, w) => ~Older(v, w)
<1>1. /\ r \in Nat /\ r <= saved /\ saved \in Nat
      /\ savedHand \in 0 .. saved /\ savedTable \in 0 .. saved
      /\ ~overlappedSaves => LastSaver(r)
  BY DEF LiveInv, LiveShape, SaversOK, SaverOK, InOrder, Versions, Busy, Hubs
<1>2. CASE s \in Streams
  <2>1. v = [hand |-> r, table |-> 0, cards |-> Seated]
    BY <1>2 DEF Views, domainStateToProto
  <2>2. saver[r].kind = "act"
    BY <1>2 DEF LiveInv, SaversOK, SaverOK, HubOf
  <2>3. v \in View /\ v.hand = r /\ v.table = 0
    BY <1>1, <2>1 DEF View
  <2> QED
    BY <1>1, <1>2, <2>2, <2>3 DEF View, ViewOK, Sockets, Within, Older, LastSaver
<1>3. CASE s \notin Streams
  <2>1. PICK k \in Nat, j \in Nat \cup {-1}, c \in {{}, Seated \cap {s}} :
           /\ v = [hand |-> j, table |-> k, cards |-> c]
           /\ k \in {r, savedTable} /\ j \in {r, savedHand, -1}
           /\ j = r => saver[r].kind = "act" \/ r = savedHand
    BY <1>1, <1>3 DEF Views, publishTable, domainTableToProto, Absent
  <2>2. saver[r].pc = "hub"
    BY <1>3 DEF HubOf
  <2>3. v \in View /\ v.hand = j /\ v.table = k /\ v.cards = c
    BY <2>1 DEF View
  <2>4. ViewOK(s, v)
    BY <1>1, <2>1, <2>3 DEF ViewOK
  <2>5. ~overlappedSaves => k = savedTable /\ j \in {savedHand, -1}
    BY <1>1, <2>1, <2>2 DEF LastSaver
  <2> QED
    BY <1>1, <1>3, <2>3, <2>4, <2>5 DEF View, Within, Older, Absent
<1> QED
  BY <1>2, <1>3

(* Busy requests stay the last ones to have saved. *)
SaversStay == \A o \in Versions : Busy(o)' => Busy(o) /\ (LastSaver(o) => LastSaver(o)')

LEMMA SaversStaySettled ==
    ASSUME UNCHANGED <<saver, saved, savedHand, savedTable>>
    PROVE  SaversStay
BY DEF SaversStay, Busy, LastSaver
-----------------------------------------------------------------------------
(* The invariant, action by action. *)

LEMMA InitIsLive == LiveInit => LiveInv
<1> SUFFICES ASSUME LiveInit PROVE LiveInv
  OBVIOUS
<1>1. [Answered EXCEPT !.pc = "none"] = [pc |-> "none", kind |-> "none", next |-> 0]
  BY DEF Answered
<1>2. saver \in [Versions -> SaverRecord] /\ \A r \in Versions : ~Busy(r) /\ saver[r].next = 0
  BY <1>1 DEF LiveInit, SaverRecord, Busy
<1>3. None \in View /\ None.hand = -1 /\ None.table = -1 /\ None.cards = {}
  BY DEF None, View, Absent
<1>4. /\ \A s \in Clients : queue[s] = <<>> /\ shown[s] = None /\ client[s] = "off"
      /\ \A h \in Hubs : subs[h] = <<>> /\ published[h] = 0
      /\ saved = 0 /\ savedHand = 0 /\ savedTable = 0
      /\ gone = {} /\ overlappedSaves = FALSE
      /\ \A r \in Versions : saver[r].pc = "none"
  BY <1>1 DEF LiveInit, Hubs
<1>5. LiveShape
  <2>1. subs \in [Hubs -> Seq(Clients)] /\ published \in [Hubs -> Nat]
    BY DEF LiveInit, Hubs
  <2>2. queue \in [Clients -> Seq(View)] /\ shown \in [Clients -> View]
    BY <1>3 DEF LiveInit
  <2>3. client \in [Clients -> {"off", "subscribe", "loop"}]
    BY DEF LiveInit
  <2>4. saved \in 0 .. MaxUpdates /\ savedHand \in 0 .. saved /\ savedTable \in 0 .. saved
    BY ClientsAssumption DEF LiveInit
  <2> QED
    BY <1>2, <2>1, <2>2, <2>3, <2>4 DEF LiveInit, LiveShape
<1>6. SaversOK
  BY <1>2, <1>4 DEF SaversOK, SaverOK, Hubs
<1>7. ListsOK
  BY <1>4 DEF ListsOK
<1>8. ChannelsOK
  <2> SUFFICES ASSUME NEW s \in Clients
               PROVE  /\ Len(queue[s]) <= Capacity
                      /\ queue[s] # <<>> => client[s] = "loop"
                      /\ ViewOK(s, shown[s])
                      /\ \A n \in 1 .. Len(queue[s]) : ViewOK(s, queue[s][n])
    BY DEF ChannelsOK
  <2>1. queue[s] = <<>> /\ shown[s] = None /\ saved = 0
    BY <1>4
  <2>2. ViewOK(s, None)
    BY <1>3, <2>1 DEF ViewOK
  <2>3. Len(queue[s]) = 0 /\ 0 <= Capacity
    BY <2>1, ClientsAssumption
  <2> QED
    BY <2>1, <2>2, <2>3
<1>9. InOrder
  <2>1. \A s \in Clients : Within(s, None)
    BY <1>3, <1>4 DEF Within
  <2>2. \A s \in Clients : Len(queue[s]) = 0
    BY <1>4
  <2> QED
    BY <1>2, <1>4, <2>1, <2>2 DEF InOrder, Ordered
<1> QED
  BY <1>5, <1>6, <1>7, <1>8, <1>9 DEF LiveInv

LEMMA StutterKeepsLive ==
    ASSUME LiveInv, UNCHANGED liveVars
    PROVE  LiveInv'
BY DEF LiveInv, LiveShape, SaversOK, SaverOK, ListsOK, ChannelsOK, InOrder, liveVars, Busy,
       Listed, HubOf, Streams, Sockets, ViewOK, LastSaver, Ordered, Within

(* The channels stay in order while a newer hand or table is saved. *)
LEMMA MoreIsSaved ==
    ASSUME LiveInv, NEW s \in Clients, Ordered(s, shown[s], queue[s]),
           savedHand <= savedHand', savedTable <= savedTable',
           savedHand' \in Nat, savedTable' \in Nat,
           UNCHANGED <<setting, shown, queue>>
    PROVE  Ordered(s, shown[s], queue[s])'
<1>1. savedHand \in Nat /\ savedTable \in Nat /\ shown[s] \in View /\ queue[s] \in Seq(View)
  BY DEF LiveInv, LiveShape
<1>2. ASSUME NEW v \in View, Within(s, v)
      PROVE  Within(s, v)'
  BY <1>1, <1>2 DEF Within, View, Streams
<1>3. \A n \in 1 .. Len(queue[s]) : queue[s][n] \in View
  BY <1>1
<1> QED
  BY <1>1, <1>2, <1>3 DEF Ordered

LEMMA SameChannelsInOrder ==
    ASSUME LiveInv, SaversStay,
           UNCHANGED <<setting, savedHand, savedTable, shown, queue, overlappedSaves>>
    PROVE  InOrder'
<1> SUFFICES ASSUME ~overlappedSaves
             PROVE  /\ \A r \in Versions : Busy(r)' => LastSaver(r)'
                    /\ \A s \in Clients : Ordered(s, shown[s], queue[s])'
  BY DEF InOrder
<1>1. /\ \A r \in Versions : Busy(r) => LastSaver(r)
      /\ \A s \in Clients : Ordered(s, shown[s], queue[s])
  BY DEF LiveInv, InOrder
<1>2. \A r \in Versions : Busy(r)' => LastSaver(r)'
  BY <1>1 DEF SaversStay
<1>3. \A s \in Clients : Ordered(s, shown[s], queue[s])'
  BY <1>1 DEF Ordered, Within, Streams
<1> QED
  BY <1>2, <1>3

LEMMA SavesKeepsLive ==
    ASSUME LiveInv, Act \/ ChangeSeat
    PROVE  LiveInv'
<1>1. PICK q \in SaverRecord :
         /\ q.pc \in Hubs /\ q.next = 0
         /\ saved < MaxUpdates /\ saved' = saved + 1
         /\ saver' = [saver EXCEPT ![saved'] = q]
         /\ \/ q.pc = "pubsub" /\ q.kind = "act" /\ savedHand' = saved' /\ savedTable' = savedTable
            \/ q.pc = "hub" /\ q.kind = "seat" /\ savedTable' = saved' /\ savedHand' = savedHand
  <2>1. CASE Act
    <3> DEFINE q == [pc |-> "pubsub", kind |-> "act", next |-> 0]
    <3>1. q \in SaverRecord /\ q.pc \in Hubs /\ q.next = 0 /\ q.pc = "pubsub" /\ q.kind = "act"
      BY DEF SaverRecord, Hubs
    <3>2. /\ saved < MaxUpdates /\ saved' = saved + 1
          /\ saver' = [saver EXCEPT ![saved'] = q]
          /\ savedHand' = saved' /\ savedTable' = savedTable
      BY <2>1 DEF Act, Saves
    <3> HIDE DEF q
    <3> QED
      BY <3>1, <3>2
  <2>2. CASE ChangeSeat
    <3> DEFINE q == [pc |-> "hub", kind |-> "seat", next |-> 0]
    <3>1. q \in SaverRecord /\ q.pc \in Hubs /\ q.next = 0 /\ q.pc = "hub" /\ q.kind = "seat"
      BY DEF SaverRecord, Hubs
    <3>2. /\ saved < MaxUpdates /\ saved' = saved + 1
          /\ saver' = [saver EXCEPT ![saved'] = q]
          /\ savedTable' = saved' /\ savedHand' = savedHand
      BY <2>2 DEF ChangeSeat, Saves
    <3> HIDE DEF q
    <3> QED
      BY <3>1, <3>2
  <2> QED
    BY <2>1, <2>2
<1>2. /\ saved \in Nat /\ saved' \in Versions /\ saved' \in 0 .. MaxUpdates
      /\ savedHand \in 0 .. saved /\ savedTable \in 0 .. saved
      /\ overlappedSaves' = (overlappedSaves \/ \E r \in Versions : Busy(r))
      /\ UNCHANGED <<setting, subs, client, queue, gone, shown, published>>
  BY <1>1, ClientsAssumption DEF Act, ChangeSeat, Saves, clientVars, LiveInv, LiveShape, Versions
<1>3. /\ saver' \in [Versions -> SaverRecord]
      /\ \A r \in Versions : saver'[r] = IF r = saved' THEN q ELSE saver[r]
  BY <1>1, <1>2 DEF LiveInv, LiveShape
<1>4. LiveShape'
  <2>1. savedHand' \in 0 .. saved' /\ savedTable' \in 0 .. saved' /\ overlappedSaves' \in BOOLEAN
    BY <1>1, <1>2 DEF LiveInv, LiveShape
  <2> QED
    BY <1>2, <1>3, <2>1 DEF LiveInv, LiveShape
<1>5. SaversOK'
  <2>1. \A h \in Hubs : Len(subs[h]) \in Nat /\ published[h] \in Nat
    BY DEF LiveInv, LiveShape
  <2>2. \A h \in Hubs : published[h] <= saved
    BY DEF LiveInv, SaversOK
  <2>3. ASSUME NEW r \in Versions
        PROVE  SaverOK(r)'
    <3>1. CASE r = saved'
      BY <1>1, <1>2, <1>3, <2>1, <3>1 DEF SaverOK, Busy, Hubs
    <3>2. CASE r # saved'
      <4>1. SaverOK(r) /\ r \in Nat
        BY DEF LiveInv, SaversOK, Versions
      <4> QED
        BY <1>1, <1>2, <1>3, <3>2, <4>1 DEF SaverOK, Busy
    <3> QED
      BY <3>1, <3>2
  <2> QED
    BY <1>1, <1>2, <2>1, <2>2, <2>3 DEF SaversOK
<1>6. ListsOK'
  BY <1>2 DEF LiveInv, ListsOK, Listed, HubOf, Streams
<1>7. ChannelsOK'
  <2>1. \A s \in Clients : \A v \in View : ViewOK(s, v) => ViewOK(s, v)'
    BY <1>1, <1>2 DEF ViewOK, View, Sockets, Streams
  <2>2. \A s \in Clients : shown[s] \in View /\ queue[s] \in Seq(View)
    BY DEF LiveInv, LiveShape
  <2> QED
    BY <1>2, <2>1, <2>2 DEF LiveInv, ChannelsOK
<1>8. InOrder'
  <2> SUFFICES ASSUME ~overlappedSaves'
               PROVE  /\ \A r \in Versions : Busy(r)' => LastSaver(r)'
                      /\ \A s \in Clients : Ordered(s, shown[s], queue[s])'
    BY DEF InOrder
  <2>1. ~overlappedSaves /\ \A r \in Versions : ~Busy(r)
    BY <1>2
  <2>2. \A r \in Versions : Busy(r)' => LastSaver(r)'
    BY <1>1, <1>2, <1>3, <2>1 DEF Busy, LastSaver
  <2>3. \A s \in Clients : Ordered(s, shown[s], queue[s])
    BY <2>1 DEF LiveInv, InOrder
  <2>4. /\ savedHand <= savedHand' /\ savedTable <= savedTable'
        /\ savedHand' \in Nat /\ savedTable' \in Nat
    BY <1>1, <1>2
  <2>5. \A s \in Clients : Ordered(s, shown[s], queue[s])'
    BY <1>2, <2>3, <2>4, MoreIsSaved
  <2> QED
    BY <2>2, <2>5
<1> QED
  BY <1>4, <1>5, <1>6, <1>7, <1>8 DEF LiveInv

(* A request saves the table, which is the newest unless requests overlap. *)
LEMMA SavesTableKeepsLive ==
    ASSUME LiveInv, NEW r \in Versions, SavesTable(r)
    PROVE  LiveInv'
<1> DEFINE q == [saver[r] EXCEPT !.pc = "hub"]
<1>1. /\ saver[r].pc = "table" /\ savedTable' = r /\ saver' = [saver EXCEPT ![r] = q]
      /\ UNCHANGED <<setting, saved, savedHand, overlappedSaves, subs, client, gone, shown,
                     queue, published>>
  BY DEF SavesTable, clientVars
<1>2. saver[r] \in SaverRecord /\ r \in Nat
  <2>1. saver[r] \in SaverRecord
    BY DEF LiveInv, LiveShape
  <2> QED
    BY <2>1 DEF Versions
<1>3. Busy(r) /\ saver[r].kind = "act" /\ saver[r].next = 0 /\ r <= saved /\ saved \in Nat
  <2>1. SaverOK(r) /\ saved \in Nat
    BY DEF LiveInv, LiveShape, SaversOK
  <2>2. Busy(r) /\ saver[r].pc \notin Hubs
    BY <1>1 DEF Busy, Hubs
  <2> QED
    BY <1>1, <2>1, <2>2 DEF SaverOK
<1>4. q \in SaverRecord /\ q.pc = "hub" /\ q.kind = "act" /\ q.next = 0
  BY <1>2, <1>3 DEF SaverRecord
<1> HIDE DEF q
<1>5. /\ saver' \in [Versions -> SaverRecord]
      /\ \A o \in Versions : saver'[o] = IF o = r THEN q ELSE saver[o]
  BY <1>1, <1>4 DEF LiveInv, LiveShape
<1>6. LiveShape'
  BY <1>1, <1>2, <1>3, <1>5 DEF LiveInv, LiveShape
<1>7. SaversOK'
  <2>1. Len(subs["hub"]) \in Nat
    BY DEF LiveInv, LiveShape, Hubs
  <2>2. \A o \in Versions : SaverOK(o)'
    <3> SUFFICES ASSUME NEW o \in Versions PROVE SaverOK(o)'
      OBVIOUS
    <3>1. CASE o = r
      BY <1>1, <1>3, <1>4, <1>5, <2>1, <3>1 DEF SaverOK, Hubs
    <3>2. CASE o # r
      BY <1>1, <1>5, <3>2 DEF LiveInv, SaversOK, SaverOK, Busy
    <3> QED
      BY <3>1, <3>2
  <2> QED
    BY <1>1, <2>2 DEF LiveInv, SaversOK
<1>8. ListsOK' /\ ChannelsOK'
  BY <1>1 DEF LiveInv, ListsOK, ChannelsOK, Listed, HubOf, Streams, Sockets, ViewOK
<1>9. InOrder'
  <2> SUFFICES ASSUME ~overlappedSaves
               PROVE  /\ \A o \in Versions : Busy(o)' => LastSaver(o)'
                      /\ \A s \in Clients : Ordered(s, shown[s], queue[s])'
    BY <1>1 DEF InOrder
  <2>1. /\ \A o \in Versions : Busy(o) => LastSaver(o)
        /\ \A s \in Clients : Ordered(s, shown[s], queue[s])
    BY DEF LiveInv, InOrder
  <2>2. r = saved /\ savedHand = r
    BY <1>3, <2>1 DEF LastSaver
  <2>3. \A o \in Versions : Busy(o)' => LastSaver(o)'
    <3> SUFFICES ASSUME NEW o \in Versions, Busy(o)' PROVE LastSaver(o)'
      OBVIOUS
    <3>1. CASE o = r
      BY <1>1, <2>2, <3>1 DEF LastSaver
    <3>2. CASE o # r
      BY <1>1, <1>5, <2>1, <2>2, <3>2 DEF LastSaver, Busy
    <3> QED
      BY <3>1, <3>2
  <2>4. /\ savedHand <= savedHand' /\ savedTable <= savedTable'
        /\ savedHand' \in Nat /\ savedTable' \in Nat
    BY <1>1, <1>2, <2>2 DEF LiveInv, LiveShape
  <2>5. \A s \in Clients : Ordered(s, shown[s], queue[s])'
    BY <1>1, <2>1, <2>4, MoreIsSaved
  <2> QED
    BY <2>3, <2>5
<1> QED
  BY <1>6, <1>7, <1>8, <1>9 DEF LiveInv

(* A request fails. *)
LEMMA FailsKeepsLive ==
    ASSUME LiveInv, NEW r \in Versions, Fails(r)
    PROVE  LiveInv'
<1> DEFINE q == [Answered EXCEPT !.pc = "failed"]
<1>1. /\ saver' = [saver EXCEPT ![r] = q]
      /\ UNCHANGED <<setting, saved, savedHand, savedTable, overlappedSaves, subs, client, gone,
                     shown, queue, published>>
  BY DEF Fails, savedVars, clientVars
<1>2. q \in SaverRecord /\ q.pc = "failed" /\ q.next = 0
  BY DEF Answered, SaverRecord
<1> HIDE DEF q
<1>3. /\ saver' \in [Versions -> SaverRecord]
      /\ \A o \in Versions : saver'[o] = IF o = r THEN q ELSE saver[o]
  BY <1>1, <1>2 DEF LiveInv, LiveShape
<1>4. LiveShape'
  BY <1>1, <1>3 DEF LiveInv, LiveShape
<1>5. SaversOK'
  <2> SUFFICES ASSUME NEW o \in Versions PROVE SaverOK(o)'
    BY <1>1 DEF LiveInv, SaversOK
  <2>1. CASE o = r
    BY <1>2, <1>3, <2>1 DEF SaverOK, Busy, Hubs
  <2>2. CASE o # r
    BY <1>1, <1>3, <2>2 DEF LiveInv, SaversOK, SaverOK, Busy
  <2> QED
    BY <2>1, <2>2
<1>6. ListsOK' /\ ChannelsOK'
  BY <1>1 DEF LiveInv, ListsOK, ChannelsOK, Listed, HubOf, Streams, Sockets, ViewOK
<1>7. SaversStay
  BY <1>1, <1>2, <1>3 DEF SaversStay, Busy, LastSaver
<1>8. InOrder'
  BY <1>1, <1>7, SameChannelsInOrder
<1> QED
  BY <1>4, <1>5, <1>6, <1>8 DEF LiveInv

(* A step of request r in its Publish, but for the queues. *)
LEMMA AdvancesKeepsLive ==
    ASSUME LiveInv, NEW r \in Versions, saver[r].pc \in Hubs, NEW at \in Nat,
           saver' = [saver EXCEPT ![r] = Advance(r, at)],
           published' \in [Hubs -> Nat], \A h \in Hubs : published'[h] <= saved,
           UNCHANGED <<setting, saved, savedHand, savedTable, subs, overlappedSaves>>
    PROVE  saver' \in [Versions -> SaverRecord] /\ SaversOK' /\ SaversStay
<1> DEFINE a == Advance(r, at)
<1>1. /\ a \in SaverRecord
      /\ a.pc \in {saver[r].pc, "table", "answered"}
      /\ a.pc \in {"pubsub", "table", "hub"} => a.kind = saver[r].kind
      /\ a.pc = "table" => saver[r].pc = "pubsub"
      /\ a.pc \in Hubs => a.next <= Len(subs[a.pc])
      /\ a.pc \notin Hubs => a.next = 0
  BY AdvanceType
<1> HIDE DEF a
<1>2. /\ saver' \in [Versions -> SaverRecord]
      /\ \A o \in Versions : saver'[o] = IF o = r THEN a ELSE saver[o]
  BY <1>1 DEF LiveInv, LiveShape, a
<1>3. SaversStay
  <2> SUFFICES ASSUME NEW o \in Versions, Busy(o)'
               PROVE  Busy(o) /\ (LastSaver(o) => LastSaver(o)')
    BY DEF SaversStay
  <2>1. CASE o = r
    BY <1>1, <1>2, <2>1 DEF Busy, LastSaver, Hubs
  <2>2. CASE o # r
    BY <1>2, <2>2 DEF Busy, LastSaver
  <2> QED
    BY <2>1, <2>2
<1>4. ASSUME NEW o \in Versions PROVE SaverOK(o)'
  <2>0. SaverOK(o)
    BY DEF LiveInv, SaversOK
  <2>1. CASE o = r
    BY <1>1, <1>2, <2>0, <2>1 DEF SaverOK, Busy, Hubs
  <2>2. CASE o # r
    BY <1>2, <2>0, <2>2 DEF SaverOK, Busy
  <2> QED
    BY <2>1, <2>2
<1> QED
  BY <1>2, <1>3, <1>4 DEF SaversOK

LEMMA BeginPublishKeepsLive ==
    ASSUME LiveInv, NEW r \in Versions, BeginPublish(r)
    PROVE  LiveInv'
<1>1. /\ saver[r].pc \in Hubs /\ saver' = [saver EXCEPT ![r] = Advance(r, 0)]
      /\ UNCHANGED <<setting, saved, savedHand, savedTable, subs, client, queue, gone, shown,
                     overlappedSaves>>
  BY DEF BeginPublish, Hubs, savedVars, clientVars
<1>2. published' \in [Hubs -> Nat] /\ \A h \in Hubs : published'[h] <= saved
  <2>1. /\ published \in [Hubs -> Nat] /\ \A h \in Hubs : published[h] <= saved
        /\ r \in Nat /\ r <= saved
    BY <1>1 DEF LiveInv, LiveShape, SaversOK, SaverOK, Busy, Hubs, Versions
  <2>2. published' = [published EXCEPT ![saver[r].pc] = IF @ < r THEN r ELSE @]
    BY DEF BeginPublish
  <2> QED
    BY <2>1, <2>2
<1>3. saver' \in [Versions -> SaverRecord] /\ SaversOK' /\ SaversStay
  BY <1>1, <1>2, AdvancesKeepsLive
<1>4. LiveShape'
  BY <1>1, <1>2, <1>3 DEF LiveInv, LiveShape
<1>5. ListsOK' /\ ChannelsOK'
  BY <1>1 DEF LiveInv, ListsOK, ChannelsOK, Listed, HubOf, Streams, Sockets, ViewOK
<1>6. InOrder'
  BY <1>1, <1>3, SameChannelsInOrder
<1> QED
  BY <1>3, <1>4, <1>5, <1>6 DEF LiveInv

(* One client's channel and view change: the other clients' stay. *)
LEMMA OneChannel ==
    ASSUME LiveInv, NEW s \in Clients, NEW q \in Seq(View), NEW v \in View,
           queue' = [queue EXCEPT ![s] = q], shown' = [shown EXCEPT ![s] = v],
           UNCHANGED <<setting, saved>>, Len(q) <= Capacity,
           \A n \in 1 .. Len(q) : ViewOK(s, q[n]), ViewOK(s, v),
           q # <<>> => client'[s] = "loop",
           \A o \in Clients : o # s => client'[o] = client[o]
    PROVE  queue' \in [Clients -> Seq(View)] /\ shown' \in [Clients -> View] /\ ChannelsOK'
<1>1. /\ queue' \in [Clients -> Seq(View)] /\ shown' \in [Clients -> View]
      /\ \A o \in Clients : /\ queue'[o] = IF o = s THEN q ELSE queue[o]
                            /\ shown'[o] = IF o = s THEN v ELSE shown[o]
  BY DEF LiveInv, LiveShape
<1>2. \A o, w : ViewOK(o, w)' <=> ViewOK(o, w)
  BY DEF ViewOK, Sockets, Streams
<1>3. ASSUME NEW o \in Clients
      PROVE  /\ Len(queue'[o]) <= Capacity
             /\ queue'[o] # <<>> => client'[o] = "loop"
             /\ ViewOK(o, shown'[o])
             /\ \A n \in 1 .. Len(queue'[o]) : ViewOK(o, queue'[o][n])
  <2>1. CASE o = s
    BY <1>1, <2>1
  <2>2. CASE o # s
    BY <1>1, <2>2 DEF LiveInv, ChannelsOK
  <2> QED
    BY <2>1, <2>2
<1>4. ChannelsOK'
  BY <1>2, <1>3 DEF ChannelsOK
<1> QED
  BY <1>1, <1>4

(* The same for the order of the views. *)
LEMMA OneChannelInOrder ==
    ASSUME LiveInv, NEW s \in Clients, NEW q \in Seq(View), NEW v \in View,
           queue' = [queue EXCEPT ![s] = q], shown' = [shown EXCEPT ![s] = v],
           UNCHANGED <<setting, savedHand, savedTable, overlappedSaves>>, SaversStay,
           ~overlappedSaves => Ordered(s, v, q)
    PROVE  InOrder'
<1>1. \A o \in Clients : /\ queue'[o] = IF o = s THEN q ELSE queue[o]
                         /\ shown'[o] = IF o = s THEN v ELSE shown[o]
  BY DEF LiveInv, LiveShape
<1> SUFFICES ASSUME ~overlappedSaves
             PROVE  /\ \A r \in Versions : Busy(r)' => LastSaver(r)'
                    /\ \A o \in Clients : Ordered(o, shown[o], queue[o])'
  BY DEF InOrder
<1>2. \A r \in Versions : Busy(r)' => LastSaver(r)'
  BY DEF LiveInv, InOrder, SaversStay
<1>3. \A o \in Clients : Ordered(o, shown'[o], queue'[o])
  BY <1>1 DEF LiveInv, InOrder
<1>4. \A o \in Clients : Ordered(o, shown[o], queue[o])'
  BY <1>3 DEF Ordered, Within, Streams
<1> QED
  BY <1>2, <1>4

(* What follows the order of a channel. *)
LEMMA OrderedAppend ==
    ASSUME NEW s, NEW v \in View, NEW q \in Seq(View), Ordered(s, v, q),
           NEW w \in View, Within(s, w), \A u \in View : Within(s, u) => ~Older(w, u)
    PROVE  Ordered(s, v, Append(q, w))
<1> DEFINE p == Append(q, w)
<1>1. /\ Len(q) \in Nat /\ Len(p) = Len(q) + 1 /\ p[Len(q) + 1] = w
      /\ \A n \in 1 .. Len(q) : p[n] = q[n] /\ q[n] \in View
  OBVIOUS
<1> HIDE DEF p
<1>2. /\ Within(s, v)
      /\ \A n \in 1 .. Len(q) :
            /\ Within(s, q[n]) /\ ~Older(q[n], v)
            /\ \A m \in n .. Len(q) : ~Older(q[m], q[n])
  BY DEF Ordered
<1>3. ASSUME NEW n \in 1 .. Len(p)
      PROVE  /\ Within(s, p[n]) /\ ~Older(p[n], v)
             /\ \A m \in n .. Len(p) : ~Older(p[m], p[n])
  <2>1. CASE n \in 1 .. Len(q)
    <3>1. ASSUME NEW m \in n .. Len(p) PROVE ~Older(p[m], p[n])
      <4>1. (m \in n .. Len(q) /\ m \in 1 .. Len(q)) \/ m = Len(q) + 1
        BY <1>1, <2>1
      <4> QED
        BY <1>1, <1>2, <2>1, <4>1
    <3> QED
      BY <1>1, <1>2, <2>1, <3>1
  <2>2. CASE n = Len(q) + 1
    <3>1. \A m \in n .. Len(p) : m = n
      BY <1>1, <2>2
    <3> QED
      BY <1>1, <1>2, <2>2, <3>1
  <2> QED
    BY <1>1, <2>1, <2>2
<1> QED
  BY <1>2, <1>3 DEF Ordered, p

LEMMA OrderedTail ==
    ASSUME NEW s, NEW v \in View, NEW q \in Seq(View), Ordered(s, v, q), q # <<>>
    PROVE  Ordered(s, Head(q), Tail(q))
<1> DEFINE p == Tail(q)
<1>1. /\ Len(q) \in Nat /\ Len(q) > 0 /\ Len(p) = Len(q) - 1 /\ Head(q) = q[1]
      /\ \A n \in 1 .. Len(p) : p[n] = q[n + 1]
  OBVIOUS
<1> HIDE DEF p
<1>2. \A n \in 1 .. Len(q) :
         /\ Within(s, q[n])
         /\ \A m \in n .. Len(q) : ~Older(q[m], q[n])
  BY DEF Ordered
<1>3. Within(s, q[1]) /\ \A m \in 1 .. Len(q) : ~Older(q[m], q[1])
  BY <1>1, <1>2
<1>4. ASSUME NEW n \in 1 .. Len(p)
      PROVE  /\ Within(s, p[n]) /\ ~Older(p[n], q[1])
             /\ \A m \in n .. Len(p) : ~Older(p[m], p[n])
  <2>1. n + 1 \in 1 .. Len(q) /\ p[n] = q[n + 1]
    BY <1>1
  <2>2. ASSUME NEW m \in n .. Len(p) PROVE ~Older(p[m], p[n])
    <3>1. m + 1 \in (n + 1) .. Len(q) /\ p[m] = q[m + 1]
      BY <1>1
    <3> QED
      BY <1>2, <2>1, <3>1
  <2> QED
    BY <1>2, <1>3, <2>1, <2>2
<1> QED
  BY <1>1, <1>3, <1>4 DEF Ordered, p

LEMMA PublishKeepsLive ==
    ASSUME LiveInv, NEW r \in Versions, Publish(r)
    PROVE  LiveInv'
<1> DEFINE at == saver[r].next
           s == subs[saver[r].pc][at]
<1>1. /\ at \in Nat /\ at > 0
      /\ saver' = [saver EXCEPT ![r] = Advance(r, at)]
      /\ UNCHANGED <<setting, saved, savedHand, savedTable, subs, client, gone, shown, published,
                     overlappedSaves>>
  <2>1. saver[r] \in SaverRecord
    BY DEF LiveInv, LiveShape
  <2> QED
    BY <2>1 DEF Publish, SaverRecord, savedVars, clientVars
<1>2. saver[r].pc \in Hubs /\ at \in 1 .. Len(subs[saver[r].pc])
  <2>1. saver[r].pc \in Hubs /\ at <= Len(subs[saver[r].pc])
    BY <1>1 DEF LiveInv, SaversOK, SaverOK
  <2>2. Len(subs[saver[r].pc]) \in Nat
    BY <2>1 DEF LiveInv, LiveShape
  <2> QED
    BY <1>1, <2>1, <2>2
<1>3. s \in Clients /\ client[s] = "loop" /\ HubOf(s) = saver[r].pc
  BY <1>2 DEF LiveInv, LiveShape, ListsOK
<1>4. PICK v \in Views(r, s) :
         queue' = IF Len(queue[s]) < Capacity
                  THEN [queue EXCEPT ![s] = Append(@, v)] ELSE queue
  BY DEF Publish
<1>5. /\ v \in View /\ ViewOK(s, v)
      /\ ~overlappedSaves => Within(s, v) /\ \A w \in View : Within(s, w) => ~Older(v, w)
  BY <1>2, <1>3, ViewsType
<1>6. saver' \in [Versions -> SaverRecord] /\ SaversOK' /\ SaversStay
  <2>1. published' \in [Hubs -> Nat] /\ \A h \in Hubs : published'[h] <= saved
    BY <1>1 DEF LiveInv, LiveShape, SaversOK
  <2> QED
    BY <1>1, <1>2, <2>1, AdvancesKeepsLive
<1>7. ListsOK'
  BY <1>1 DEF LiveInv, ListsOK, Listed, HubOf, Streams
<1> HIDE DEF at, s
<1>8. queue' \in [Clients -> Seq(View)] /\ ChannelsOK' /\ InOrder'
  <2>1. CASE UNCHANGED queue
    <3>1. queue' \in [Clients -> Seq(View)] /\ ChannelsOK'
      BY <1>1, <2>1 DEF LiveInv, LiveShape, ChannelsOK, ViewOK, Sockets, Streams
    <3> QED
      BY <1>1, <1>6, <2>1, <3>1, SameChannelsInOrder
  <2>2. CASE Len(queue[s]) < Capacity /\ queue' = [queue EXCEPT ![s] = Append(queue[s], v)]
    <3> DEFINE q == Append(queue[s], v)
    <3>1. queue[s] \in Seq(View) /\ Len(queue[s]) \in Nat /\ shown[s] \in View
      BY <1>3 DEF LiveInv, LiveShape
    <3>2. /\ q \in Seq(View) /\ Len(q) = Len(queue[s]) + 1 /\ q[Len(queue[s]) + 1] = v
          /\ \A n \in 1 .. Len(queue[s]) : q[n] = queue[s][n]
      BY <1>5, <3>1
    <3> HIDE DEF q
    <3>3. Len(q) <= Capacity
      BY <2>2, <3>1, <3>2, ClientsAssumption
    <3>4. \A n \in 1 .. Len(q) : n \in 1 .. Len(queue[s]) \/ n = Len(queue[s]) + 1
      BY <3>1, <3>2
    <3>5. /\ \A n \in 1 .. Len(queue[s]) : ViewOK(s, queue[s][n])
          /\ ViewOK(s, shown[s])
      BY <1>3 DEF LiveInv, ChannelsOK
    <3>6. \A n \in 1 .. Len(q) : ViewOK(s, q[n])
      BY <1>5, <3>2, <3>4, <3>5
    <3>7. shown' = [shown EXCEPT ![s] = shown[s]]
      BY <1>1, <1>3 DEF LiveInv, LiveShape
    <3>8. queue' = [queue EXCEPT ![s] = q]
      BY <2>2 DEF q
    <3>9. queue' \in [Clients -> Seq(View)] /\ ChannelsOK'
      BY <1>1, <1>3, <3>1, <3>2, <3>3, <3>5, <3>6, <3>7, <3>8, OneChannel
    <3>10. ~overlappedSaves => Ordered(s, shown[s], q)
      <4>1. ~overlappedSaves => Ordered(s, shown[s], queue[s])
        BY <1>3 DEF LiveInv, InOrder
      <4> QED
        BY <1>5, <3>1, <4>1, OrderedAppend DEF q
    <3>11. InOrder'
      BY <1>1, <1>3, <1>6, <3>1, <3>2, <3>7, <3>8, <3>10, OneChannelInOrder
    <3> QED
      BY <3>9, <3>11
  <2> QED
    BY <1>4, <2>1, <2>2
<1>9. LiveShape'
  BY <1>1, <1>6, <1>8 DEF LiveInv, LiveShape
<1> QED
  BY <1>6, <1>7, <1>8, <1>9 DEF LiveInv

(* A client's handler changes its state, none that is in the loop. *)
LEMMA NotListedKeepsLists ==
    ASSUME LiveInv, NEW s \in Clients, client[s] # "loop",
           client' = [client EXCEPT ![s] = "subscribe"],
           UNCHANGED <<setting, subs, gone>>
    PROVE  client' \in [Clients -> {"off", "subscribe", "loop"}] /\ ListsOK'
<1>1. /\ client' \in [Clients -> {"off", "subscribe", "loop"}]
      /\ \A o \in Clients : client'[o] = IF o = s THEN "subscribe" ELSE client[o]
  BY DEF LiveInv, LiveShape
<1>2. \A h \in Hubs : \A n \in 1 .. Len(subs[h]) : subs[h][n] \in Clients
  BY DEF LiveInv, LiveShape
<1>3. gone \subseteq Clients
  BY DEF LiveInv, LiveShape
<1> QED
  BY <1>1, <1>2, <1>3 DEF LiveInv, ListsOK, Listed, HubOf, Streams

LEMMA ConnectKeepsLive ==
    ASSUME LiveInv, NEW s \in Clients, Connect(s) \/ ConnectBlind(s)
    PROVE  LiveInv'
<1>1. /\ client[s] = "off" /\ client' = [client EXCEPT ![s] = "subscribe"]
      /\ UNCHANGED <<setting, saved, savedHand, savedTable, saver, subs, queue, gone, published,
                     overlappedSaves>>
  BY DEF Connect, ConnectBlind, saverVars, savedVars
<1>2. client' \in [Clients -> {"off", "subscribe", "loop"}] /\ ListsOK'
  BY <1>1, NotListedKeepsLists
<1>3. SaversOK'
  BY <1>1 DEF LiveInv, SaversOK, SaverOK, Busy
<1>4. queue[s] = <<>> /\ queue' = [queue EXCEPT ![s] = queue[s]]
  BY <1>1 DEF LiveInv, LiveShape, ChannelsOK
<1>5. PICK v \in View : /\ ViewOK(s, v) /\ (~overlappedSaves => Within(s, v))
                        /\ shown' = [shown EXCEPT ![s] = v]
  <2>1. CASE Connect(s)
    <3>1. saved \in Nat /\ savedHand \in 0 .. saved /\ savedTable \in 0 .. saved
      BY DEF LiveInv, LiveShape
    <3>2. CASE s \in Streams
      <4> DEFINE w == [hand |-> savedHand, table |-> 0, cards |-> Seated]
      <4>1. shown' = [shown EXCEPT ![s] = w]
        BY <2>1, <3>2 DEF Connect, Snapshot, domainStateToProto
      <4>2. w \in View /\ w.hand = savedHand /\ w.table = 0
        BY <3>1 DEF View
      <4>3. ViewOK(s, w) /\ Within(s, w)
        BY <3>1, <3>2, <4>2 DEF ViewOK, Within, Sockets
      <4> QED
        BY <4>1, <4>2, <4>3
    <3>3. CASE s \notin Streams
      <4>1. PICK x \in {s, "nobody"} :
               shown' = [shown EXCEPT ![s] = [hand |-> savedHand, table |-> savedTable,
                                              cards |-> Seated \cap {x}]]
        <5>1. savedHand # Absent
          BY <3>1 DEF Absent
        <5> QED
          BY <2>1, <3>3, <5>1 DEF Connect, Snapshot, domainTableToProto
      <4>2. Seated \cap {x} \subseteq {s}
        BY ClientsAssumption
      <4> DEFINE w == [hand |-> savedHand, table |-> savedTable, cards |-> Seated \cap {x}]
      <4>3. w \in View /\ w.hand = savedHand /\ w.table = savedTable /\ w.cards \subseteq {s}
        BY <3>1, <4>2 DEF View
      <4>4. ViewOK(s, w) /\ Within(s, w)
        BY <3>1, <3>3, <4>3 DEF ViewOK, Within
      <4> QED
        BY <4>1, <4>3, <4>4
    <3> QED
      BY <3>2, <3>3
  <2>2. CASE ConnectBlind(s)
    <3>1. shown' = [shown EXCEPT ![s] = shown[s]] /\ shown[s] \in View
      BY <2>2 DEF ConnectBlind, LiveInv, LiveShape
    <3>2. ViewOK(s, shown[s]) /\ (~overlappedSaves => Within(s, shown[s]))
      BY DEF LiveInv, ChannelsOK, InOrder, Ordered
    <3> QED
      BY <3>1, <3>2
  <2> QED
    BY <2>1, <2>2
<1>6. \A o \in Clients : o # s => client'[o] = client[o]
  BY <1>1 DEF LiveInv, LiveShape
<1>7. /\ queue[s] \in Seq(View) /\ Len(queue[s]) <= Capacity
      /\ \A n \in 1 .. Len(queue[s]) : FALSE
  BY <1>4, ClientsAssumption
<1>8. queue' \in [Clients -> Seq(View)] /\ shown' \in [Clients -> View] /\ ChannelsOK'
  BY <1>1, <1>4, <1>5, <1>6, <1>7, OneChannel
<1>9. SaversStay
  BY <1>1, SaversStaySettled
<1>10. InOrder'
  <2>1. ~overlappedSaves => Ordered(s, v, queue[s])
    BY <1>5, <1>7 DEF Ordered
  <2> QED
    BY <1>1, <1>4, <1>5, <1>7, <1>9, <2>1, OneChannelInOrder
<1>11. LiveShape'
  BY <1>1, <1>2, <1>8 DEF LiveInv, LiveShape
<1> QED
  BY <1>2, <1>3, <1>8, <1>10, <1>11 DEF LiveInv

LEMMA SubscribeKeepsLive ==
    ASSUME LiveInv, NEW s \in Clients, Subscribe(s)
    PROVE  LiveInv'
<1> DEFINE h == HubOf(s)
           list == Append(subs[h], s)
<1>1. /\ client[s] = "subscribe" /\ client' = [client EXCEPT ![s] = "loop"]
      /\ subs' = [subs EXCEPT ![h] = list]
      /\ UNCHANGED <<setting, saved, savedHand, savedTable, saver, queue, gone, shown, published,
                     overlappedSaves>>
  BY DEF Subscribe, saverVars, savedVars
<1>2. h \in Hubs /\ subs[h] \in Seq(Clients) /\ Len(subs[h]) \in Nat
  BY HubOfType DEF LiveInv, LiveShape
<1>3. /\ list \in Seq(Clients) /\ Len(list) = Len(subs[h]) + 1 /\ list[Len(subs[h]) + 1] = s
      /\ \A n \in 1 .. Len(subs[h]) : list[n] = subs[h][n]
  BY <1>2
<1> HIDE DEF list
<1>4. /\ subs' \in [Hubs -> Seq(Clients)]
      /\ \A k \in Hubs : subs'[k] = IF k = h THEN list ELSE subs[k]
  BY <1>1, <1>2, <1>3 DEF LiveInv, LiveShape
<1>5. /\ client' \in [Clients -> {"off", "subscribe", "loop"}]
      /\ \A o \in Clients : client'[o] = IF o = s THEN "loop" ELSE client[o]
  BY <1>1 DEF LiveInv, LiveShape
<1>6. LiveShape'
  BY <1>1, <1>4, <1>5 DEF LiveInv, LiveShape
<1>7. SaversOK'
  <2>1. \A k \in Hubs : Len(subs[k]) <= Len(subs'[k]) /\ Len(subs[k]) \in Nat /\ Len(subs'[k]) \in Nat
    <3>1. \A k \in Hubs : Len(subs[k]) \in Nat
      BY DEF LiveInv, LiveShape
    <3> QED
      BY <1>2, <1>3, <1>4, <3>1
  <2>2. \A r \in Versions : saver[r].next \in Nat
    BY DEF LiveInv, LiveShape, SaverRecord
  <2>3. \A r \in Versions : saver[r].pc \in Hubs => saver[r].next <= Len(subs'[saver[r].pc])
    BY <2>1, <2>2 DEF LiveInv, SaversOK, SaverOK
  <2> QED
    BY <1>1, <2>3 DEF LiveInv, SaversOK, SaverOK, Busy
<1>8. ListsOK'
  <2>1. \A k \in Hubs, n \in Nat : n \in 1 .. Len(subs[k]) =>
           subs[k][n] \in Clients /\ subs[k][n] # s
    BY <1>1 DEF LiveInv, LiveShape, ListsOK
  <2>2. \A n \in 1 .. Len(list) : n \in 1 .. Len(subs[h]) \/ n = Len(subs[h]) + 1
    BY <1>2, <1>3
  <2>3. ASSUME NEW k \in Hubs, NEW n \in 1 .. Len(subs'[k])
        PROVE  /\ client'[subs'[k][n]] = "loop" /\ HubOf(subs'[k][n]) = k
               /\ \A m \in 1 .. Len(subs'[k]) : subs'[k][m] = subs'[k][n] => m = n
    <3>1. CASE k # h
      BY <1>4, <1>5, <2>1, <3>1 DEF LiveInv, ListsOK
    <3>2. CASE k = h /\ n \in 1 .. Len(subs[h])
      <4>1. /\ subs'[k][n] = subs[h][n] /\ subs[h][n] \in Clients /\ subs[h][n] # s
            /\ subs'[k] = list
        BY <1>2, <1>3, <1>4, <2>1, <3>2
      <4>2. /\ client[subs[h][n]] = "loop" /\ HubOf(subs[h][n]) = h
            /\ \A m \in 1 .. Len(subs[h]) : subs[h][m] = subs[h][n] => m = n
        BY <1>2, <3>2 DEF LiveInv, ListsOK
      <4> QED
        BY <1>3, <1>5, <2>2, <3>2, <4>1, <4>2
    <3>3. CASE k = h /\ n = Len(subs[h]) + 1
      <4>1. subs'[k] = list /\ subs'[k][n] = s
        BY <1>2, <1>3, <1>4, <3>3
      <4>2. client'[s] = "loop" /\ HubOf(s) = k
        BY <1>5, <3>3
      <4>3. \A m \in 1 .. Len(subs[h]) : list[m] # s
        BY <1>2, <1>3, <2>1
      <4>4. \A m \in 1 .. Len(list) : list[m] = s => m = n
        BY <2>2, <3>3, <4>3
      <4> QED
        BY <4>1, <4>2, <4>4
    <3> QED
      BY <1>4, <2>2, <3>1, <3>2, <3>3
  <2>4. ASSUME NEW o \in Clients, client'[o] = "loop"
        PROVE  \E n \in 1 .. Len(subs'[HubOf(o)]) : subs'[HubOf(o)][n] = o
    <3>1. HubOf(o) \in Hubs
      BY HubOfType
    <3>2. CASE o = s
      BY <1>2, <1>3, <1>4, <3>2
    <3>3. CASE o # s
      <4>1. PICK n \in 1 .. Len(subs[HubOf(o)]) : subs[HubOf(o)][n] = o
        BY <1>5, <2>4, <3>3 DEF LiveInv, ListsOK, Listed
      <4>2. n \in 1 .. Len(subs'[HubOf(o)]) /\ subs'[HubOf(o)][n] = o
        BY <1>2, <1>3, <1>4, <3>1, <4>1
      <4> QED
        BY <4>2
    <3> QED
      BY <3>2, <3>3
  <2>5. \A o \in gone : client'[o] = "loop"
    BY <1>5 DEF LiveInv, LiveShape, ListsOK
  <2>6. \A o : HubOf(o)' = HubOf(o)
    BY <1>1 DEF HubOf, Streams
  <2> QED
    BY <1>1, <2>3, <2>4, <2>5, <2>6 DEF ListsOK, Listed
<1>9. ChannelsOK' /\ InOrder'
  <2>1. \A o \in Clients : client[o] = "loop" => client'[o] = "loop"
    BY <1>5
  <2>2. ChannelsOK'
    BY <1>1, <2>1 DEF LiveInv, ChannelsOK, ViewOK, Sockets, Streams
  <2> QED
    BY <1>1, <2>2, SaversStaySettled, SameChannelsInOrder
<1> QED
  BY <1>6, <1>7, <1>8, <1>9 DEF LiveInv

LEMMA SendKeepsLive ==
    ASSUME LiveInv, NEW s \in Clients, Send(s)
    PROVE  LiveInv'
<1> DEFINE q == Tail(queue[s])
           v == Head(queue[s])
<1>1. /\ client[s] = "loop" /\ queue[s] # <<>>
      /\ shown' = [shown EXCEPT ![s] = v] /\ queue' = [queue EXCEPT ![s] = q]
      /\ UNCHANGED <<setting, saved, savedHand, savedTable, saver, subs, client, gone, published,
                     overlappedSaves>>
  BY DEF Send, saverVars, savedVars
<1>2. queue[s] \in Seq(View) /\ Len(queue[s]) \in Nat /\ Len(queue[s]) > 0
  BY <1>1 DEF LiveInv, LiveShape
<1>3. /\ q \in Seq(View) /\ Len(q) = Len(queue[s]) - 1
      /\ v \in View /\ v = queue[s][1] /\ 1 \in 1 .. Len(queue[s])
      /\ \A n \in 1 .. Len(q) : q[n] = queue[s][n + 1] /\ n + 1 \in 1 .. Len(queue[s])
  BY <1>1, <1>2
<1> HIDE DEF q, v
<1>4. Len(queue[s]) <= Capacity /\ \A n \in 1 .. Len(queue[s]) : ViewOK(s, queue[s][n])
  BY DEF LiveInv, ChannelsOK
<1>5. Len(q) <= Capacity /\ ViewOK(s, v) /\ \A n \in 1 .. Len(q) : ViewOK(s, q[n])
  BY <1>2, <1>3, <1>4, ClientsAssumption
<1>6. queue' \in [Clients -> Seq(View)] /\ shown' \in [Clients -> View] /\ ChannelsOK'
  BY <1>1, <1>3, <1>5, OneChannel
<1>7. ~overlappedSaves => Ordered(s, v, q)
  <2>1. ~overlappedSaves => Ordered(s, shown[s], queue[s])
    BY DEF LiveInv, InOrder
  <2>2. shown[s] \in View
    BY DEF LiveInv, LiveShape
  <2> QED
    BY <1>1, <1>2, <2>1, <2>2, OrderedTail DEF q, v
<1>8. SaversStay
  BY <1>1, SaversStaySettled
<1>9. InOrder'
  BY <1>1, <1>3, <1>7, <1>8, OneChannelInOrder
<1>10. LiveShape'
  BY <1>1, <1>6 DEF LiveInv, LiveShape
<1>11. SaversOK' /\ ListsOK'
  BY <1>1 DEF LiveInv, SaversOK, SaverOK, Busy, ListsOK, Listed, HubOf, Streams
<1> QED
  BY <1>6, <1>9, <1>10, <1>11 DEF LiveInv

LEMMA GoAwayKeepsLive ==
    ASSUME LiveInv, NEW s \in Clients, GoAway(s)
    PROVE  LiveInv'
<1>1. /\ client[s] = "loop" /\ gone' = gone \cup {s}
      /\ UNCHANGED <<setting, saved, savedHand, savedTable, saver, subs, client, queue, shown,
                     published, overlappedSaves>>
  BY DEF GoAway, saverVars, savedVars
<1>2. LiveShape'
  BY <1>1 DEF LiveInv, LiveShape
<1>3. SaversOK' /\ ChannelsOK' /\ InOrder'
  <2>1. SaversOK' /\ ChannelsOK'
    BY <1>1 DEF LiveInv, SaversOK, SaverOK, Busy, ChannelsOK, ViewOK, Sockets, Streams
  <2> QED
    BY <1>1, <2>1, SaversStaySettled, SameChannelsInOrder
<1>4. ListsOK'
  BY <1>1 DEF LiveInv, ListsOK, Listed, HubOf, Streams
<1> QED
  BY <1>2, <1>3, <1>4 DEF LiveInv

LEMMA UnsubscribeKeepsLive ==
    ASSUME LiveInv, NEW s \in Clients, Unsubscribe(s)
    PROVE  LiveInv'
<1> DEFINE h == HubOf(s)
           list == subs[h]
<1>1. /\ ~Publishing(h) /\ s \in gone /\ client' = [client EXCEPT ![s] = "off"]
      /\ queue' = [queue EXCEPT ![s] = <<>>] /\ shown' = [shown EXCEPT ![s] = None]
      /\ gone' = gone \ {s}
      /\ UNCHANGED <<setting, saved, savedHand, savedTable, saver, published, overlappedSaves>>
  BY DEF Unsubscribe, Return, Notices, saverVars, savedVars
<1>2. h \in Hubs /\ list \in Seq(Clients) /\ Len(list) \in Nat
  BY HubOfType DEF LiveInv, LiveShape
<1>3. PICK i \in 1 .. Len(list) : list[i] = s /\ subs' = [subs EXCEPT ![h] = Without(list, i)]
  BY DEF Unsubscribe
<1> DEFINE w == Without(list, i)
           from(n) == IF n < i THEN n ELSE n + 1
<1>4. /\ w \in Seq(Clients) /\ Len(w) = Len(list) - 1
      /\ \A n \in 1 .. Len(w) : w[n] = list[from(n)]
      /\ \A m \in 1 .. Len(list) : m # i => \E n \in 1 .. Len(w) : w[n] = list[m]
  BY <1>2, WithoutOne
<1>5. /\ \A n \in 1 .. Len(w) : from(n) \in 1 .. Len(list) /\ from(n) # i
      /\ \A m, n \in 1 .. Len(w) : from(m) = from(n) => m = n
  BY <1>2, <1>4
<1>6. subs' = [subs EXCEPT ![h] = w]
  BY <1>3
<1> HIDE DEF w, from
<1>7. /\ subs' \in [Hubs -> Seq(Clients)]
      /\ \A k \in Hubs : subs'[k] = IF k = h THEN w ELSE subs[k]
  BY <1>2, <1>4, <1>6 DEF LiveInv, LiveShape
<1>8. /\ client' \in [Clients -> {"off", "subscribe", "loop"}]
      /\ \A o \in Clients : client'[o] = IF o = s THEN "off" ELSE client[o]
  BY <1>1 DEF LiveInv, LiveShape
<1>9. queue' \in [Clients -> Seq(View)] /\ shown' \in [Clients -> View] /\ ChannelsOK'
      /\ InOrder'
  <2>1. None \in View /\ ViewOK(s, None) /\ Within(s, None)
    BY DEF None, Absent, View, ViewOK, Within, LiveInv, LiveShape
  <2>2. /\ <<>> \in Seq(View) /\ Len(<<>>) <= Capacity
        /\ \A n \in 1 .. Len(<<>>) : FALSE
    BY ClientsAssumption
  <2>3. SaversStay /\ Ordered(s, None, <<>>)
    BY <1>1, <2>1, <2>2, SaversStaySettled DEF Ordered
  <2>4. queue' \in [Clients -> Seq(View)] /\ shown' \in [Clients -> View] /\ ChannelsOK'
    BY <1>1, <1>8, <2>1, <2>2, OneChannel
  <2>5. InOrder'
    BY <1>1, <2>1, <2>2, <2>3, OneChannelInOrder
  <2> QED
    BY <2>4, <2>5
<1>10. LiveShape'
  BY <1>1, <1>7, <1>8, <1>9 DEF LiveInv, LiveShape
<1>11. SaversOK'
  <2>1. \A r \in Versions : saver[r].next \in Nat
    BY DEF LiveInv, LiveShape, SaverRecord
  <2>2. \A r \in Versions : saver[r].pc = h => saver[r].next = 0
    BY <1>1, <2>1 DEF Publishing
  <2>3. ASSUME NEW r \in Versions, saver[r].pc \in Hubs
        PROVE  saver[r].next <= Len(subs'[saver[r].pc])
    <3>1. CASE saver[r].pc = h
      BY <1>2, <1>4, <1>7, <2>2, <3>1
    <3>2. CASE saver[r].pc # h
      BY <1>7, <2>3, <3>2 DEF LiveInv, SaversOK, SaverOK
    <3> QED
      BY <3>1, <3>2
  <2> QED
    BY <1>1, <2>3 DEF LiveInv, SaversOK, SaverOK, Busy
<1>12. ListsOK'
  <2>1. ASSUME NEW k \in Hubs, NEW n \in 1 .. Len(subs[k])
        PROVE  /\ subs[k][n] \in Clients /\ client[subs[k][n]] = "loop" /\ HubOf(subs[k][n]) = k
               /\ \A m \in 1 .. Len(subs[k]) : subs[k][m] = subs[k][n] => m = n
    BY DEF LiveInv, LiveShape, ListsOK
  <2>2. ASSUME NEW k \in Hubs, NEW n \in 1 .. Len(subs'[k])
        PROVE  /\ client'[subs'[k][n]] = "loop" /\ HubOf(subs'[k][n]) = k
               /\ \A m \in 1 .. Len(subs'[k]) : subs'[k][m] = subs'[k][n] => m = n
    <3>1. CASE k # h
      BY <1>7, <1>8, <2>1, <3>1
    <3>2. CASE k = h
      <4>1. subs'[k] = w /\ n \in 1 .. Len(w) /\ w[n] = list[from(n)]
        BY <1>4, <1>7, <2>2, <3>2
      <4>2. from(n) \in 1 .. Len(list) /\ list[from(n)] # s
        BY <1>2, <1>3, <1>5, <2>1, <4>1
      <4>3. \A m \in 1 .. Len(w) : list[from(m)] = list[from(n)] => from(m) = from(n)
        BY <1>2, <1>5, <2>1, <4>2
      <4>4. client'[w[n]] = "loop" /\ HubOf(w[n]) = h
        BY <1>2, <1>8, <2>1, <4>1, <4>2
      <4>5. \A m \in 1 .. Len(w) : w[m] = w[n] => m = n
        BY <1>4, <1>5, <4>1, <4>3
      <4> QED
        BY <3>2, <4>1, <4>4, <4>5
    <3> QED
      BY <3>1, <3>2
  <2>3. ASSUME NEW o \in Clients, client'[o] = "loop"
        PROVE  \E n \in 1 .. Len(subs'[HubOf(o)]) : subs'[HubOf(o)][n] = o
    <3>1. HubOf(o) \in Hubs /\ o # s /\ client[o] = "loop"
      BY <1>8, <2>3, HubOfType
    <3>2. PICK m \in 1 .. Len(subs[HubOf(o)]) : subs[HubOf(o)][m] = o
      BY <3>1 DEF LiveInv, ListsOK, Listed
    <3>3. CASE HubOf(o) = h
      BY <1>3, <1>4, <1>7, <3>1, <3>2, <3>3
    <3>4. CASE HubOf(o) # h
      BY <1>7, <3>1, <3>2, <3>4
    <3> QED
      BY <3>3, <3>4
  <2>4. \A o \in gone' : client'[o] = "loop"
    BY <1>1, <1>8 DEF LiveInv, LiveShape, ListsOK
  <2>5. \A o : HubOf(o)' = HubOf(o)
    BY <1>1 DEF HubOf, Streams
  <2> QED
    BY <2>2, <2>3, <2>4, <2>5 DEF ListsOK, Listed
<1> QED
  BY <1>9, <1>10, <1>11, <1>12 DEF LiveInv

LEMMA LiveStepKeeps ==
    ASSUME LiveInv, [LiveNext]_liveVars
    PROVE  LiveInv'
<1>1. CASE UNCHANGED liveVars
  BY <1>1, StutterKeepsLive
<1>2. CASE Act \/ ChangeSeat
  BY <1>2, SavesKeepsLive
<1>3. ASSUME NEW r \in Versions, BeginPublish(r) \/ Publish(r) \/ SavesTable(r) \/ Fails(r)
      PROVE  LiveInv'
  BY <1>3, BeginPublishKeepsLive, PublishKeepsLive, SavesTableKeepsLive, FailsKeepsLive
<1>4. ASSUME NEW s \in Clients,
             \/ Connect(s) \/ ConnectBlind(s) \/ Subscribe(s)
             \/ Send(s) \/ GoAway(s) \/ Unsubscribe(s)
      PROVE  LiveInv'
  BY <1>4, ConnectKeepsLive, SubscribeKeepsLive, SendKeepsLive, GoAwayKeepsLive,
     UnsubscribeKeepsLive
<1> QED
  BY <1>1, <1>2, <1>3, <1>4 DEF LiveNext

LEMMA LiveInvariant == LiveSpec => []LiveInv
<1>1. LiveInv /\ [LiveNext]_liveVars => LiveInv'
  BY LiveStepKeeps
<1> QED
  BY <1>1, InitIsLive, PTL DEF LiveSpec

(* The list of PubSub and Hub has a client once, exactly while its handler *)
(* is between Subscribe and Unsubscribe, so that Publish never sends on a  *)
(* closed channel, however many clients come and go and however many       *)
(* requests publish at once; and a socket is never sent another player's   *)
(* hole cards (publishTable).                                              *)
THEOREM LiveTypeCorrect == LiveSpec => []LiveTypeOK
<1>1. LiveInv => LiveTypeOK
  <2> SUFFICES ASSUME LiveInv PROVE LiveTypeOK
    OBVIOUS
  <2>1. /\ saved \in 0 .. MaxUpdates /\ savedHand \in 0 .. saved /\ savedTable \in 0 .. saved
        /\ \A h \in {"pubsub", "hub"} : published[h] \in 0 .. saved
    BY DEF LiveInv, LiveShape, SaversOK, Hubs
  <2>2. ASSUME NEW r \in Versions
        PROVE  saver[r].next \in
                   0 .. (IF saver[r].pc \in {"pubsub", "hub"} THEN Len(subs[saver[r].pc]) ELSE 0)
    <3>1. saver[r].next \in Nat
      BY DEF LiveInv, LiveShape, SaverRecord
    <3>2. CASE saver[r].pc \in Hubs
      <4>1. Len(subs[saver[r].pc]) \in Nat
        BY <3>2 DEF LiveInv, LiveShape
      <4> QED
        BY <3>1, <3>2, <4>1 DEF LiveInv, SaversOK, SaverOK, Hubs
    <3>3. CASE saver[r].pc \notin Hubs
      BY <3>3 DEF LiveInv, SaversOK, SaverOK, Hubs
    <3> QED
      BY <3>2, <3>3
  <2>3. ASSUME NEW s \in Clients
        PROVE  /\ Len(queue[s]) <= Capacity
               /\ shown[s].hand \in Absent .. saved /\ shown[s].table \in Absent .. saved
               /\ Listed(s) <=> client[s] = "loop"
    <3>1. shown[s] \in View /\ saved \in Nat
      BY DEF LiveInv, LiveShape
    <3>2. /\ shown[s].hand \in Absent .. saved /\ shown[s].table \in Absent .. saved
          /\ Len(queue[s]) <= Capacity
      BY <3>1 DEF LiveInv, ChannelsOK, ViewOK, View, Absent
    <3>3. Listed(s) => client[s] = "loop"
      BY HubOfType DEF LiveInv, ListsOK, Listed
    <3> QED
      BY <3>2, <3>3 DEF LiveInv, ListsOK
  <2>4. \A h \in {"pubsub", "hub"} :
           \A m, n \in 1 .. Len(subs[h]) : subs[h][m] = subs[h][n] => m = n
    BY DEF LiveInv, ListsOK, Hubs
  <2>5. \A s \in Sockets :
           /\ shown[s].cards \subseteq {s}
           /\ \A n \in 1 .. Len(queue[s]) : queue[s][n].cards \subseteq {s}
    BY DEF LiveInv, ChannelsOK, ViewOK, Sockets
  <2> QED
    BY <2>1, <2>2, <2>3, <2>4, <2>5 DEF LiveTypeOK
<1> QED
  BY <1>1, LiveInvariant, PTL

(* A client whose handler goes on is never sent an older hand or an older  *)
(* table after a newer one, as long as no request saves while another is   *)
(* still to publish, whichever requests fail between their saves and their *)
(* publications (Publish of PubSub and Hub, the loops of StreamGameState   *)
(* and ServeHTTP).                                                         *)
THEOREM NeverGoesBackHolds == LiveSpec => NeverGoesBack
<1> DEFINE Forward == \A s \in Clients :
             client[s] = "loop" /\ client'[s] = "loop" /\ Older(shown'[s], shown[s])
                 => overlappedSaves
<1>1. ASSUME LiveInv, LiveNext PROVE Forward
  <2> SUFFICES ASSUME NEW s \in Clients, client[s] = "loop", client'[s] = "loop",
                      ~overlappedSaves
               PROVE  ~Older(shown'[s], shown[s])
    OBVIOUS
  <2>0. shown \in [Clients -> View] /\ client \in [Clients -> {"off", "subscribe", "loop"}]
        /\ queue \in [Clients -> Seq(View)]
    BY <1>1 DEF LiveInv, LiveShape
  <2>1. CASE shown'[s] = shown[s]
    BY <2>0, <2>1 DEF View, Older
  <2>2. ASSUME NEW o \in Clients, Send(o)
        PROVE  shown'[s] = shown[s] \/ ~Older(shown'[s], shown[s])
    <3>1. shown' = [shown EXCEPT ![o] = Head(queue[o])] /\ queue[o] # <<>>
      BY <2>2 DEF Send
    <3>2. CASE o # s
      BY <2>0, <3>1, <3>2
    <3>3. CASE o = s
      <4>1. 1 \in 1 .. Len(queue[s]) /\ Head(queue[s]) = queue[s][1]
        BY <2>0, <3>1, <3>3
      <4>2. shown'[s] = queue[s][1]
        BY <2>0, <3>1, <3>3, <4>1
      <4> QED
        BY <1>1, <4>1, <4>2 DEF LiveInv, InOrder, Ordered
    <3> QED
      BY <3>2, <3>3
  <2>3. ASSUME NEW o \in Clients, Connect(o) \/ ConnectBlind(o) \/ Unsubscribe(o)
        PROVE  shown'[s] = shown[s]
    BY <2>0, <2>3 DEF Connect, ConnectBlind, Unsubscribe, Return
  <2>4. \/ UNCHANGED shown
        \/ \E o \in Clients : Send(o) \/ Connect(o) \/ ConnectBlind(o) \/ Unsubscribe(o)
    BY <1>1 DEF LiveNext, Act, ChangeSeat, Saves, BeginPublish, Publish, SavesTable, Fails,
                Subscribe, GoAway, clientVars
  <2> QED
    BY <2>1, <2>2, <2>3, <2>4
<1>2. LiveInv /\ [LiveNext]_liveVars => [Forward]_liveVars
  BY <1>1
<1> QED
  BY <1>2, LiveInvariant, PTL DEF LiveSpec, NeverGoesBack
=============================================================================
