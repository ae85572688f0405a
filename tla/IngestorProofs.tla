--------------------------- MODULE IngestorProofs ---------------------------
(***************************************************************************)
(* Proofs about Ingestor, for every number of messages and of failures:    *)
(* whatever order the three goroutines take, wherever the process ends and *)
(* however often it starts again, an event up to the committed offset is   *)
(* in the tables, and an action or a summary never gives way to an earlier *)
(* one.                                                                    *)
(***************************************************************************)
EXTENDS Ingestor, TLAPS

Event == [id : Nat, seq : Nat]

(* The pcs of a goroutine that has a message, by topic. *)
Busy(t) ==
    {"raw", "commit"} \cup (IF t = "hand.acted" THEN {"action"} ELSE {})
                      \cup (IF t = "hand.ended" THEN {"summary"} ELSE {})

(* The variables as functions: what TypeOK leaves open. *)
Shape ==
    /\ sequence \in Nat /\ events \in Nat
    /\ log \in [Topics -> Seq(Event)]
    /\ committed \in [Topics -> Nat]
    /\ reader \in [Topics -> [pc : {"fetch", "raw", "action", "summary", "commit", "failed"},
                              at : Nat]]
    /\ rawEvents \subseteq [seq : Nat, offset : Nat, id : Nat]
    /\ handActions \subseteq [seq : Nat, id : Nat]
    /\ handSummaries \subseteq [id : Nat]

(* A goroutine that has a message is at one that was published. *)
AtMessage ==
    \A t \in Topics :
        reader[t].pc \notin {"fetch", "failed"} =>
            up /\ reader[t].pc \in Busy(t) /\ reader[t].at < Len(log[t])

(* The IDs of the events are given out in the order of publication. *)
IdsGrow ==
    \A t \in Topics : \A i, j \in 1 .. Len(log[t]) :
        /\ log[t][i].id <= events
        /\ i <= j => log[t][i].id <= log[t][j].id

(* The raw event of message o of topic t, or one that took its place. *)
RawStored(t, o) ==
    \E x \in rawEvents :
        /\ x.seq = log[t][o + 1].seq /\ x.offset = o
        /\ x.id = log[t][o + 1].id \/ \E u \in Topics \ {t} :
                                         o \in Offsets(u) /\ log[u][o + 1].id = x.id

(* The action or summary of message o is stored, and nothing from an       *)
(* earlier message is in its place.                                        *)
ActionKept(o) ==
    /\ \E x \in handActions : x.seq = log["hand.acted"][o + 1].seq
    /\ \A x \in handActions :
          log["hand.acted"][o + 1].seq = x.seq => log["hand.acted"][o + 1].id <= x.id

SummaryKept(o) ==
    /\ handSummaries # {}
    /\ \A x \in handSummaries : log["hand.ended"][o + 1].id <= x.id

Ingested(t, o) ==
    /\ RawStored(t, o)
    /\ t = "hand.acted" => ActionKept(o)
    /\ t = "hand.ended" => SummaryKept(o)

(* What is committed is ingested, and so is what is about to be. *)
ProgressIsStored ==
    \A t \in Topics : \A o \in Nat :
        /\ o < committed[t] => Ingested(t, o)
        /\ reader[t].pc \in {"action", "summary"} /\ reader[t].at = o => RawStored(t, o)
        /\ reader[t].pc = "commit" /\ reader[t].at = o => Ingested(t, o)

IngestorInv ==
    /\ TypeOK
    /\ Shape
    /\ AtMessage
    /\ IdsGrow
    /\ ProgressIsStored
-----------------------------------------------------------------------------
(* The engine publishes. *)

(* One event, repeated, is a sequence of events. *)
LEMMA CopiesOf ==
    ASSUME NEW e \in Event, NEW copies \in 1 .. 2
    PROVE  /\ [n \in 1 .. copies |-> e] \in Seq(Event)
           /\ Len([n \in 1 .. copies |-> e]) = copies
  <1>1. copies \in Nat
    OBVIOUS
  <1>2. [n \in 1 .. copies |-> e] \in Seq(Event)
    BY <1>1
  <1> QED
    BY <1>1, <1>2

(* What was published stays where it is. *)
Extended ==
    \A t \in Topics :
        /\ Len(log[t]) <= Len(log'[t])
        /\ \A i \in 1 .. Len(log[t]) : log'[t][i] = log[t][i]

LEMMA PublishExtends ==
    ASSUME IngestorInv, NEW topic \in Topics, NEW seq \in Nat, NEW copies \in 1 .. 2,
           publish(topic, seq, copies)
    PROVE  /\ events' = events + 1
           /\ log' \in [Topics -> Seq(Event)]
           /\ Extended
           /\ IdsGrow'
  <1> DEFINE event == [id |-> events + 1, seq |-> seq]
             more == [n \in 1 .. copies |-> event]
  <1>1. /\ events \in Nat /\ log \in [Topics -> Seq(Event)]
        /\ events' = events + 1
        /\ log' = [log EXCEPT ![topic] = @ \o more]
    BY DEF IngestorInv, Shape, publish
  <1>2. event \in Event
    BY <1>1 DEF Event
  <1>3. more \in Seq(Event) /\ Len(more) = copies /\ \A n \in 1 .. copies : more[n] = event
    BY <1>2, CopiesOf
  <1> HIDE DEF more
  <1>4. /\ log' \in [Topics -> Seq(Event)]
        /\ \A t \in Topics : t # topic => log'[t] = log[t]
        /\ log'[topic] = log[topic] \o more
    BY <1>1, <1>3
  <1>5. /\ Len(log'[topic]) = Len(log[topic]) + copies
        /\ \A i \in 1 .. Len(log[topic]) : log'[topic][i] = log[topic][i]
        /\ \A i \in 1 .. Len(log'[topic]) : i > Len(log[topic]) => log'[topic][i] = event
    <2>1. log[topic] \in Seq(Event) /\ Len(log[topic]) \in Nat
      BY <1>1
    <2>2. Len(log'[topic]) = Len(log[topic]) + copies
      BY <1>3, <1>4, <2>1
    <2>3. \A i \in 1 .. Len(log[topic]) : log'[topic][i] = log[topic][i]
      BY <1>3, <1>4, <2>1
    <2>4. ASSUME NEW i \in 1 .. Len(log'[topic]), i > Len(log[topic])
          PROVE  log'[topic][i] = event
      <3>1. i - Len(log[topic]) \in 1 .. copies
        BY <2>1, <2>2, <2>4
      <3>2. log'[topic][i] = more[i - Len(log[topic])]
        BY <1>3, <1>4, <2>1, <2>2, <2>4
      <3> QED
        BY <1>3, <3>1, <3>2
    <2> QED
      BY <2>2, <2>3, <2>4
  <1>6. Extended
    <2>1. \A t \in Topics : Len(log[t]) \in Nat
      BY <1>1
    <2> QED
      BY <1>4, <1>5, <2>1, SMTT(40) DEF Extended
  <1>7. IdsGrow'
    <2>1. SUFFICES ASSUME NEW t \in Topics, NEW i \in 1 .. Len(log'[t]), NEW j \in 1 .. Len(log'[t])
                   PROVE  /\ log'[t][i].id <= events + 1
                          /\ i <= j => log'[t][i].id <= log'[t][j].id
      BY <1>1 DEF IdsGrow
    <2>2. \A a, b \in 1 .. Len(log[t]) :
             /\ log[t][a].id \in Nat
             /\ log[t][a].id <= events
             /\ a <= b => log[t][a].id <= log[t][b].id
      <3>1. \A a \in 1 .. Len(log[t]) : log[t][a] \in Event
        BY <1>1
      <3> QED
        BY <3>1 DEF IngestorInv, IdsGrow, Event
    <2>3. CASE t # topic
      BY <1>1, <1>4, <2>2, <2>3
    <2>4. CASE t = topic
      <3>1. Len(log[t]) \in Nat
        BY <1>1
      <3>2. CASE i \in 1 .. Len(log[t]) /\ j \in 1 .. Len(log[t])
        BY <1>1, <1>5, <2>2, <2>4, <3>2
      <3>3. CASE i \in 1 .. Len(log[t]) /\ j > Len(log[t])
        <4>1. log'[t][j].id = events + 1
          BY <1>5, <2>4, <3>3
        <4>2. log'[t][i].id \in Nat /\ log'[t][i].id <= events
          BY <1>5, <2>2, <2>4, <3>3
        <4> QED
          BY <1>1, <4>1, <4>2, SMTT(40)
      <3>4. CASE i > Len(log[t]) /\ j > Len(log[t])
        BY <1>1, <1>5, <2>4, <3>4, SMTT(40)
      <3>5. CASE i > Len(log[t]) /\ j \in 1 .. Len(log[t])
        <4>1. log'[t][i].id = events + 1
          BY <1>5, <2>4, <3>5
        <4>2. ~(i <= j)
          BY <1>1, <1>4, <1>5, <3>1, <3>5, <2>4
        <4> QED
          BY <1>1, <4>1, <4>2
      <3> QED
        BY <3>1, <3>2, <3>3, <3>4, <3>5
    <2> QED
      BY <2>3, <2>4
  <1> QED
    BY <1>1, <1>4, <1>6, <1>7

(* More messages disturb nothing that was ingested. *)
LEMMA GrowthKeepsIngested ==
    ASSUME log \in [Topics -> Seq(Event)], log' \in [Topics -> Seq(Event)], Extended,
           UNCHANGED tables,
           NEW t \in Topics, NEW o \in Nat, o < Len(log[t])
    PROVE  /\ RawStored(t, o) => RawStored(t, o)'
           /\ Ingested(t, o) => Ingested(t, o)'
  <1>1. \A u \in Topics : Len(log[u]) \in Nat /\ Len(log'[u]) \in Nat
    OBVIOUS
  <1>2. log'[t][o + 1] = log[t][o + 1]
    <2>1. o + 1 \in 1 .. Len(log[t])
      BY <1>1
    <2> QED
      BY <2>1 DEF Extended
  <1>3. \A u \in Topics : o \in Offsets(u) => o \in Offsets(u)' /\ log'[u][o + 1] = log[u][o + 1]
    <2>1. ASSUME NEW u \in Topics, o \in 0 .. Len(log[u]) - 1
          PROVE  o \in 0 .. Len(log'[u]) - 1 /\ log'[u][o + 1] = log[u][o + 1]
      <3>1. Len(log[u]) \in Nat /\ Len(log'[u]) \in Nat /\ o + 1 \in 1 .. Len(log[u])
        BY <1>1, <2>1
      <3>2. Len(log[u]) <= Len(log'[u]) /\ log'[u][o + 1] = log[u][o + 1]
        BY <3>1 DEF Extended
      <3> QED
        BY <2>1, <3>1, <3>2
    <2> QED
      BY <2>1 DEF Offsets
  <1>4. RawStored(t, o) => RawStored(t, o)'
    BY <1>2, <1>3 DEF RawStored, tables
  <1>5. t = "hand.acted" /\ ActionKept(o) => ActionKept(o)'
    BY <1>2 DEF ActionKept, tables
  <1>6. t = "hand.ended" /\ SummaryKept(o) => SummaryKept(o)'
    BY <1>2 DEF SummaryKept, tables
  <1> QED
    BY <1>4, <1>5, <1>6 DEF Ingested

LEMMA PublishStep ==
    ASSUME IngestorInv, NEW topic \in Topics, NEW seq \in Nat, NEW copies \in 1 .. 2,
           publish(topic, seq, copies),
           sequence' \in Nat, ended' \in BOOLEAN, UNCHANGED ingestor
    PROVE  IngestorInv'
  <1>1. /\ events' = events + 1 /\ log' \in [Topics -> Seq(Event)] /\ Extended /\ IdsGrow'
    BY PublishExtends
  <1>2. /\ UNCHANGED <<committed, up, codecs, reader, failures>>
        /\ UNCHANGED tables /\ UNCHANGED <<rawEvents, handActions, handSummaries>>
    BY DEF ingestor, tables
  <1>3. \A t \in Topics : Len(log[t]) \in Nat /\ Len(log'[t]) \in Nat /\ Len(log[t]) <= Len(log'[t])
    BY <1>1 DEF IngestorInv, Shape, Extended
  <1>4. Shape'
    BY <1>1, <1>2 DEF IngestorInv, Shape
  <1>5. TypeOK'
    BY <1>2, <1>3 DEF IngestorInv, TypeOK
  <1>6. AtMessage'
    <2>1. \A t \in Topics : reader[t].at \in Nat
      BY DEF IngestorInv, Shape
    <2> QED
      BY <1>2, <1>3, <2>1 DEF IngestorInv, AtMessage, Busy
  <1>7. ProgressIsStored'
    <2>1. ASSUME NEW t \in Topics, NEW o \in Nat, o < Len(log[t])
          PROVE  /\ RawStored(t, o) => RawStored(t, o)'
                 /\ Ingested(t, o) => Ingested(t, o)'
      BY <1>1, <1>2, <2>1, GrowthKeepsIngested DEF IngestorInv, Shape
    <2>2. \A t \in Topics : committed[t] \in Nat /\ committed[t] <= Len(log[t]) /\ reader[t].at \in Nat
      BY <1>3 DEF IngestorInv, TypeOK, Shape
    <2>3. \A t \in Topics : reader[t].pc \in {"action", "summary", "commit"} => reader[t].at < Len(log[t])
      BY DEF IngestorInv, AtMessage
    <2>4. \A t \in Topics : \A o \in Nat : o < committed[t] => o < Len(log[t])
      BY <1>3, <2>2
    <2> QED
      BY <1>2, <2>1, <2>3, <2>4 DEF IngestorInv, ProgressIsStored
  <1> QED
    BY <1>1, <1>4, <1>5, <1>6, <1>7 DEF IngestorInv
-----------------------------------------------------------------------------
(* A goroutine inserts. *)

(* What a goroutine is at. *)
LEMMA AtWhat ==
    ASSUME IngestorInv, NEW t \in Topics, reader[t].pc \notin {"fetch", "failed"}
    PROVE  /\ up /\ reader[t].pc \in Busy(t)
           /\ reader[t].at \in Nat /\ reader[t].at = committed[t]
           /\ reader[t].at < Len(log[t])
           /\ Message(t) = log[t][reader[t].at + 1]
           /\ Message(t) \in Event
  <1>1. up /\ reader[t].pc \in Busy(t) /\ reader[t].at < Len(log[t])
    BY DEF IngestorInv, AtMessage
  <1>2. reader[t].at \in Nat /\ reader[t].at = committed[t]
    BY <1>1 DEF IngestorInv, TypeOK, Shape
  <1>3. log[t] \in Seq(Event) /\ reader[t].at + 1 \in 1 .. Len(log[t])
    BY <1>1, <1>2 DEF IngestorInv, Shape
  <1> QED
    BY <1>1, <1>2, <1>3 DEF Message

(* A raw event is stored, and one that another goroutine stored is there   *)
(* or has given way to one of this topic.                                  *)
LEMMA RawEventIsStored ==
    ASSUME IngestorInv, NEW t \in Topics, reader[t].pc = "raw",
           rawEvents' = insertRawEvent(rawEvent(t)), UNCHANGED log,
           NEW u \in Topics, NEW o \in Nat
    PROVE  /\ RawStored(u, o) => RawStored(u, o)'
           /\ u = t /\ o = reader[t].at => RawStored(u, o)'
  <1> DEFINE at == reader[t].at
             row == [seq |-> Message(t).seq, offset |-> at, id |-> Message(t).id]
  <1>1. at \in Nat /\ at < Len(log[t]) /\ Message(t) = log[t][at + 1] /\ Len(log[t]) \in Nat
    <2>1. log[t] \in Seq(Event)
      BY DEF IngestorInv, Shape
    <2> QED
      BY <2>1, AtWhat
  <1>2. rawEvents' = {x \in rawEvents : <<x.seq, x.offset>> # <<row.seq, row.offset>>} \cup {row}
    BY DEF insertRawEvent, rawEvent
  <1>3. row \in rawEvents' /\ row.seq = log[t][at + 1].seq /\ row.offset = at
        /\ row.id = log[t][at + 1].id
    BY <1>1, <1>2
  <1>4. at \in Offsets(t)
    BY <1>1 DEF Offsets
  <1>5. Offsets(t)' = Offsets(t) /\ \A v \in Topics : Offsets(v)' = Offsets(v)
    BY DEF Offsets
  <1> HIDE DEF at, row
  <1>6. u = t /\ o = at => RawStored(u, o)'
    BY <1>3 DEF RawStored
  <1>7. ASSUME RawStored(u, o)
        PROVE  RawStored(u, o)'
    <2>1. PICK x \in rawEvents :
             /\ x.seq = log[u][o + 1].seq /\ x.offset = o
             /\ x.id = log[u][o + 1].id \/ \E v \in Topics \ {u} :
                                              o \in Offsets(v) /\ log[v][o + 1].id = x.id
      BY <1>7 DEF RawStored
    <2>2. CASE <<x.seq, x.offset>> # <<row.seq, row.offset>>
      <3>1. x \in rawEvents'
        BY <1>2, <2>2
      <3> QED
        BY <1>5, <2>1, <3>1 DEF RawStored
    <2>3. CASE <<x.seq, x.offset>> = <<row.seq, row.offset>>
      <3>1. row.seq = log[u][o + 1].seq /\ row.offset = o /\ o = at
        BY <1>3, <2>1, <2>3
      <3>2. CASE u = t
        BY <1>3, <3>1, <3>2 DEF RawStored
      <3>3. CASE u # t
        <4>1. t \in Topics \ {u} /\ o \in Offsets(t)' /\ log'[t][o + 1].id = row.id
          BY <1>3, <1>4, <1>5, <3>1, <3>3
        <4> QED
          BY <1>3, <3>1, <4>1 DEF RawStored
      <3> QED
        BY <3>2, <3>3
    <2> QED
      BY <2>2, <2>3
  <1> QED
    BY <1>6, <1>7 DEF at

(* An action of the message a goroutine is at replaces only what is not    *)
(* later.                                                                  *)
LEMMA ActionIsKept ==
    ASSUME IngestorInv, NEW t \in Topics, reader[t].pc = "action",
           handActions' = insertHandAction(handAction(t)), UNCHANGED log,
           NEW o \in Nat, o <= reader[t].at
    PROVE  /\ ActionKept(o) => ActionKept(o)'
           /\ o = reader[t].at => ActionKept(o)'
  <1> DEFINE at == reader[t].at
             row == [seq |-> Message(t).seq, id |-> Message(t).id]
             own == log["hand.acted"]
  <1>1. t = "hand.acted"
    BY AtWhat DEF Busy
  <1>2. at \in Nat /\ at < Len(own) /\ Message(t) = own[at + 1] /\ Len(own) \in Nat
    BY <1>1, AtWhat DEF IngestorInv, Shape
  <1>3. handActions' = {x \in handActions : x.seq # row.seq} \cup {row}
    BY DEF insertHandAction, handAction
  <1>4. o + 1 \in 1 .. Len(own) /\ at + 1 \in 1 .. Len(own) /\ o + 1 <= at + 1
    BY <1>2
  <1>5. own[o + 1].id <= own[at + 1].id
    BY <1>1, <1>4 DEF IngestorInv, IdsGrow
  <1>6. own[at + 1].id <= own[at + 1].id
    BY <1>1, <1>4 DEF IngestorInv, IdsGrow
  <1>7. row.seq = own[at + 1].seq /\ row.id = own[at + 1].id /\ row \in handActions'
    BY <1>2, <1>3
  <1>8. own' = own
    OBVIOUS
  <1> HIDE DEF row, at, own
  <1>9. o = at => ActionKept(o)'
    BY <1>3, <1>6, <1>7, <1>8 DEF ActionKept, own
  <1>10. ActionKept(o) => ActionKept(o)'
    <2>1. SUFFICES ASSUME ActionKept(o)
                   PROVE  /\ \E x \in handActions' : x.seq = own[o + 1].seq
                          /\ \A x \in handActions' : own[o + 1].seq = x.seq => own[o + 1].id <= x.id
      BY <1>8 DEF ActionKept, own
    <2>2. PICK x \in handActions : x.seq = own[o + 1].seq
      BY <2>1 DEF ActionKept, own
    <2>3. \E y \in handActions' : y.seq = own[o + 1].seq
      BY <1>3, <1>7, <2>2
    <2>4. \A y \in handActions' : own[o + 1].seq = y.seq => own[o + 1].id <= y.id
      BY <1>3, <1>5, <1>7, <2>1 DEF ActionKept, own
    <2> QED
      BY <2>3, <2>4
  <1> QED
    BY <1>9, <1>10 DEF at

(* So does a summary. *)
LEMMA SummaryIsKept ==
    ASSUME IngestorInv, NEW t \in Topics, reader[t].pc = "summary",
           handSummaries' = insertHandSummary(handSummary(t)), UNCHANGED log,
           NEW o \in Nat, o <= reader[t].at
    PROVE  SummaryKept(o)'
  <1> DEFINE at == reader[t].at
             own == log["hand.ended"]
  <1>1. t = "hand.ended"
    BY AtWhat DEF Busy
  <1>2. at \in Nat /\ at < Len(own) /\ Message(t) = own[at + 1] /\ Len(own) \in Nat
    BY <1>1, AtWhat DEF IngestorInv, Shape
  <1>3. handSummaries' = {[id |-> own[at + 1].id]}
    BY <1>2 DEF insertHandSummary, handSummary
  <1>4. o + 1 \in 1 .. Len(own) /\ at + 1 \in 1 .. Len(own) /\ o + 1 <= at + 1
    BY <1>2
  <1>5. own[o + 1].id <= own[at + 1].id
    BY <1>1, <1>4 DEF IngestorInv, IdsGrow
  <1> QED
    BY <1>3, <1>5 DEF SummaryKept

(* The tables after an insert: of the right types, with all that was       *)
(* ingested, and with what the insert was for.                             *)
LEMMA InsertKeepsTables ==
    ASSUME IngestorInv, NEW t \in Topics, reader[t].pc \in {"raw", "action", "summary"},
           Inserts(t), UNCHANGED log
    PROVE  /\ rawEvents' \subseteq [seq : Nat, offset : Nat, id : Nat]
           /\ handActions' \subseteq [seq : Nat, id : Nat]
           /\ handSummaries' \subseteq [id : Nat]
           /\ \A u \in Topics, o \in Nat : RawStored(u, o) => RawStored(u, o)'
           /\ \A u \in Topics, o \in Nat :
                 Ingested(u, o) /\ (u = t => o <= reader[t].at) => Ingested(u, o)'
           /\ \A o \in Nat : o = reader[t].at =>
                 /\ RawStored(t, o)'
                 /\ reader[t].pc = "action" => ActionKept(o)'
                 /\ reader[t].pc = "summary" => SummaryKept(o)'
  <1>1. /\ reader[t].pc \in Busy(t) /\ reader[t].at \in Nat
        /\ Message(t) \in Event
    BY AtWhat
  <1>2. /\ rawEvents \subseteq [seq : Nat, offset : Nat, id : Nat]
        /\ handActions \subseteq [seq : Nat, id : Nat]
        /\ handSummaries \subseteq [id : Nat]
    BY DEF IngestorInv, Shape
  <1>3. CASE reader[t].pc = "raw"
    <2>1. rawEvents' = insertRawEvent(rawEvent(t)) /\ UNCHANGED <<handActions, handSummaries>>
      BY <1>3 DEF Inserts
    <2>2. rawEvent(t) \in [seq : Nat, offset : Nat, id : Nat]
      BY <1>1 DEF rawEvent, Event
    <2>3. rawEvents' \subseteq [seq : Nat, offset : Nat, id : Nat]
      BY <1>2, <2>1, <2>2 DEF insertRawEvent
    <2>4. \A u \in Topics, o \in Nat :
             /\ RawStored(u, o) => RawStored(u, o)'
             /\ u = t /\ o = reader[t].at => RawStored(u, o)'
      BY <1>3, <2>1, RawEventIsStored
    <2>5. \A o \in Nat : (ActionKept(o) => ActionKept(o)') /\ (SummaryKept(o) => SummaryKept(o)')
      BY <2>1 DEF ActionKept, SummaryKept
    <2> QED
      BY <1>2, <1>3, <2>1, <2>3, <2>4, <2>5 DEF Ingested
  <1>4. CASE reader[t].pc = "action"
    <2>1. handActions' = insertHandAction(handAction(t)) /\ UNCHANGED <<rawEvents, handSummaries>>
      BY <1>4 DEF Inserts
    <2>2. handAction(t) \in [seq : Nat, id : Nat]
      BY <1>1 DEF handAction, Event
    <2>3. handActions' \subseteq [seq : Nat, id : Nat]
      BY <1>2, <2>1, <2>2 DEF insertHandAction
    <2>4. t = "hand.acted"
      BY <1>1, <1>4 DEF Busy
    <2>5. \A u \in Topics, o \in Nat : RawStored(u, o) => RawStored(u, o)'
      BY <2>1 DEF RawStored, Offsets
    <2>6. \A o \in Nat : o <= reader[t].at =>
             /\ ActionKept(o) => ActionKept(o)'
             /\ o = reader[t].at => ActionKept(o)'
      BY <1>4, <2>1, ActionIsKept
    <2>7. \A o \in Nat : SummaryKept(o) => SummaryKept(o)'
      BY <2>1 DEF SummaryKept
    <2>8. \A o \in Nat : o = reader[t].at => RawStored(t, o)
      BY <1>4 DEF IngestorInv, ProgressIsStored
    <2>9. \A o \in Nat : o = reader[t].at => o <= reader[t].at
      BY <1>1
    <2> QED
      BY <1>2, <1>4, <2>1, <2>3, <2>4, <2>5, <2>6, <2>7, <2>8, <2>9 DEF Ingested
  <1>5. CASE reader[t].pc = "summary"
    <2>1. handSummaries' = insertHandSummary(handSummary(t)) /\ UNCHANGED <<rawEvents, handActions>>
      BY <1>5 DEF Inserts
    <2>2. handSummary(t) \in [id : Nat]
      BY <1>1 DEF handSummary, Event
    <2>3. handSummaries' \subseteq [id : Nat]
      BY <2>1, <2>2 DEF insertHandSummary
    <2>4. t = "hand.ended"
      BY <1>1, <1>5 DEF Busy
    <2>5. \A u \in Topics, o \in Nat : RawStored(u, o) => RawStored(u, o)'
      BY <2>1 DEF RawStored, Offsets
    <2>6. \A o \in Nat : o <= reader[t].at => SummaryKept(o)'
      BY <1>5, <2>1, SummaryIsKept
    <2>7. \A o \in Nat : ActionKept(o) => ActionKept(o)'
      BY <2>1 DEF ActionKept
    <2>8. \A o \in Nat : o = reader[t].at => RawStored(t, o)
      BY <1>5 DEF IngestorInv, ProgressIsStored
    <2>9. \A o \in Nat : o = reader[t].at => o <= reader[t].at
      BY <1>1
    <2> QED
      BY <1>2, <1>5, <2>1, <2>3, <2>4, <2>5, <2>6, <2>7, <2>8, <2>9 DEF Ingested
  <1> QED
    BY <1>3, <1>4, <1>5

(* Steps of the ingestor leave the engine and the topics alone; what is    *)
(* left to show is where the goroutines are and that the tables have what  *)
(* these rely on.                                                          *)
LEMMA InsertEventStep ==
    ASSUME IngestorInv, NEW t \in Topics, InsertEvent(t)
    PROVE  IngestorInv'
  <1>1. /\ reader[t].pc \in {"raw", "action", "summary"} /\ Inserts(t)
        /\ reader' = [reader EXCEPT ![t].pc =
                         IF reader[t].pc = "raw" THEN AfterRaw(t) ELSE "commit"]
        /\ UNCHANGED <<sequence, events, ended, log, committed, up, codecs, failures>>
    BY DEF InsertEvent, Goto, engine
  <1>2. /\ up /\ reader[t].pc \in Busy(t) /\ reader[t].at \in Nat
        /\ reader[t].at = committed[t] /\ reader[t].at < Len(log[t])
    BY <1>1, AtWhat
  <1> DEFINE pc == IF reader[t].pc = "raw" THEN AfterRaw(t) ELSE "commit"
  <1>3. /\ pc \in {"action", "summary", "commit"} /\ pc \in Busy(t)
        /\ reader[t].pc = "raw" /\ pc = "commit" => t = "hand.started"
        /\ pc = "action" => reader[t].pc = "raw"
        /\ pc = "summary" => reader[t].pc = "raw"
    BY <1>1, <1>2 DEF AfterRaw, Busy, Topics
  <1> HIDE DEF pc
  <1>4. /\ reader \in [Topics -> [pc : {"fetch", "raw", "action", "summary", "commit", "failed"},
                                  at : Nat]]
        /\ reader' = [reader EXCEPT ![t].pc = pc]
    BY <1>1 DEF IngestorInv, Shape, pc
  <1>5. /\ reader' \in [Topics -> [pc : {"fetch", "raw", "action", "summary", "commit", "failed"},
                                   at : Nat]]
        /\ reader'[t].pc = pc /\ reader'[t].at = reader[t].at
        /\ \A u \in Topics : u # t => reader'[u] = reader[u]
    BY <1>3, <1>4
  <1>6. /\ rawEvents' \subseteq [seq : Nat, offset : Nat, id : Nat]
        /\ handActions' \subseteq [seq : Nat, id : Nat]
        /\ handSummaries' \subseteq [id : Nat]
        /\ \A u \in Topics, o \in Nat : RawStored(u, o) => RawStored(u, o)'
        /\ \A u \in Topics, o \in Nat :
              Ingested(u, o) /\ (u = t => o <= reader[t].at) => Ingested(u, o)'
        /\ \A o \in Nat : o = reader[t].at =>
              /\ RawStored(t, o)'
              /\ reader[t].pc = "action" => ActionKept(o)'
              /\ reader[t].pc = "summary" => SummaryKept(o)'
    BY <1>1, InsertKeepsTables
  <1>7. Shape'
    BY <1>1, <1>5, <1>6 DEF IngestorInv, Shape
  <1>8. TypeOK'
    BY <1>1, <1>2, <1>3, <1>5 DEF IngestorInv, TypeOK
  <1>9. AtMessage'
    BY <1>1, <1>2, <1>3, <1>5 DEF IngestorInv, AtMessage, Busy
  <1>10. IdsGrow'
    BY <1>1 DEF IngestorInv, IdsGrow
  <1>11. ProgressIsStored'
    <2>1. ASSUME NEW u \in Topics, NEW o \in Nat, o < committed[u]
          PROVE  Ingested(u, o)'
      <3>1. Ingested(u, o) /\ (u = t => o <= reader[t].at)
        BY <1>2, <2>1 DEF IngestorInv, ProgressIsStored
      <3> QED
        BY <1>6, <3>1
    <2>2. ASSUME NEW u \in Topics, NEW o \in Nat, u # t
          PROVE  /\ reader[u].pc \in {"action", "summary"} /\ reader[u].at = o => RawStored(u, o)'
                 /\ reader[u].pc = "commit" /\ reader[u].at = o => Ingested(u, o)'
      BY <1>6, <2>2 DEF IngestorInv, ProgressIsStored
    <2>3. ASSUME NEW o \in Nat, o = reader[t].at, pc = "commit"
          PROVE  Ingested(t, o)'
      BY <1>1, <1>2, <1>3, <1>6, <2>3 DEF Ingested, Busy
    <2> QED
      BY <1>1, <1>5, <1>6, <2>1, <2>2, <2>3 DEF ProgressIsStored
  <1> QED
    BY <1>7, <1>8, <1>9, <1>10, <1>11 DEF IngestorInv

(* Steps that leave the engine, the topics and the tables as they are: the *)
(* invariant's other parts follow from where the goroutines are.           *)
LEMMA ReaderStep ==
    ASSUME IngestorInv, TypeOK', AtMessage',
           UNCHANGED <<engine, log, tables>>,
           committed' \in [Topics -> Nat],
           reader' \in [Topics -> [pc : {"fetch", "raw", "action", "summary", "commit", "failed"},
                                   at : Nat]],
           \A t \in Topics : \A o \in Nat :
              /\ o < committed'[t] => Ingested(t, o)
              /\ reader'[t].pc \in {"action", "summary"} /\ reader'[t].at = o => RawStored(t, o)
              /\ reader'[t].pc = "commit" /\ reader'[t].at = o => Ingested(t, o)
    PROVE  IngestorInv'
  <1>1. UNCHANGED <<sequence, events, ended, log, rawEvents, handActions, handSummaries>>
    BY DEF engine, tables
  <1>2. Shape'
    BY <1>1 DEF IngestorInv, Shape
  <1>3. IdsGrow'
    BY <1>1 DEF IngestorInv, IdsGrow
  <1>4. \A t \in Topics, o \in Nat : RawStored(t, o)' = RawStored(t, o)
    BY <1>1 DEF RawStored, Offsets
  <1>5. \A o \in Nat : ActionKept(o)' = ActionKept(o) /\ SummaryKept(o)' = SummaryKept(o)
    BY <1>1 DEF ActionKept, SummaryKept
  <1>6. \A t \in Topics, o \in Nat : Ingested(t, o) => Ingested(t, o)'
    BY <1>4, <1>5 DEF Ingested
  <1>7. ProgressIsStored'
    BY <1>4, <1>6 DEF ProgressIsStored
  <1> QED
    BY <1>2, <1>3, <1>7 DEF IngestorInv

LEMMA ConsumeStep ==
    ASSUME IngestorInv, NEW t \in Topics, Consume(t)
    PROVE  IngestorInv'
  <1>1. /\ up /\ reader[t].pc = "fetch" /\ reader[t].at < Len(log[t])
        /\ codecs' = codecs \cup {t}
        /\ reader' = [reader EXCEPT ![t].pc = "raw"]
        /\ UNCHANGED <<engine, log, tables>>
        /\ UNCHANGED <<sequence, events, ended, committed, up, failures>>
    BY DEF Consume, Goto, engine
  <1>2. /\ reader \in [Topics -> [pc : {"fetch", "raw", "action", "summary", "commit", "failed"},
                                  at : Nat]]
        /\ committed \in [Topics -> Nat]
    BY DEF IngestorInv, Shape
  <1>3. /\ reader' \in [Topics -> [pc : {"fetch", "raw", "action", "summary", "commit", "failed"},
                                   at : Nat]]
        /\ reader'[t].pc = "raw" /\ reader'[t].at = reader[t].at
        /\ \A u \in Topics : u # t => reader'[u] = reader[u]
    BY <1>1, <1>2
  <1>4. TypeOK'
    BY <1>1, <1>3 DEF IngestorInv, TypeOK
  <1>5. AtMessage'
    BY <1>1, <1>3 DEF IngestorInv, AtMessage, Busy
  <1>6. \A u \in Topics : \A o \in Nat :
           /\ o < committed'[u] => Ingested(u, o)
           /\ reader'[u].pc \in {"action", "summary"} /\ reader'[u].at = o => RawStored(u, o)
           /\ reader'[u].pc = "commit" /\ reader'[u].at = o => Ingested(u, o)
    BY <1>1, <1>3 DEF IngestorInv, ProgressIsStored
  <1> QED
    BY <1>1, <1>2, <1>3, <1>4, <1>5, <1>6, ReaderStep

LEMMA CommitStep ==
    ASSUME IngestorInv, NEW t \in Topics, CommitMessages(t)
    PROVE  IngestorInv'
  <1>1. /\ reader[t].pc = "commit"
        /\ committed' = [committed EXCEPT ![t] = reader[t].at + 1]
        /\ reader' = [reader EXCEPT ![t] = [pc |-> "fetch", at |-> reader[t].at + 1]]
        /\ UNCHANGED <<engine, log, tables>>
        /\ UNCHANGED <<sequence, events, ended, up, codecs, failures>>
    BY DEF CommitMessages, engine
  <1>2. /\ reader \in [Topics -> [pc : {"fetch", "raw", "action", "summary", "commit", "failed"},
                                  at : Nat]]
        /\ committed \in [Topics -> Nat] /\ log \in [Topics -> Seq(Event)]
    BY DEF IngestorInv, Shape
  <1>3. /\ up /\ reader[t].at \in Nat /\ reader[t].at = committed[t]
        /\ reader[t].at < Len(log[t]) /\ Len(log[t]) \in Nat
    <2>1. Len(log[t]) \in Nat
      BY <1>2
    <2> QED
      BY <1>1, <2>1, AtWhat
  <1>4. /\ reader' \in [Topics -> [pc : {"fetch", "raw", "action", "summary", "commit", "failed"},
                                   at : Nat]]
        /\ reader'[t].pc = "fetch" /\ reader'[t].at = reader[t].at + 1
        /\ \A u \in Topics : u # t => reader'[u] = reader[u]
    BY <1>1, <1>2, <1>3
  <1>5. /\ committed' \in [Topics -> Nat]
        /\ committed'[t] = reader[t].at + 1
        /\ \A u \in Topics : u # t => committed'[u] = committed[u]
    BY <1>1, <1>2, <1>3
  <1>6. TypeOK'
    BY <1>1, <1>3, <1>4, <1>5 DEF IngestorInv, TypeOK
  <1>7. AtMessage'
    BY <1>1, <1>4 DEF IngestorInv, AtMessage, Busy
  <1>8. \A u \in Topics : \A o \in Nat :
           /\ o < committed'[u] => Ingested(u, o)
           /\ reader'[u].pc \in {"action", "summary"} /\ reader'[u].at = o => RawStored(u, o)
           /\ reader'[u].pc = "commit" /\ reader'[u].at = o => Ingested(u, o)
    <2>1. \A o \in Nat : o < reader[t].at + 1 => o < committed[t] \/ o = reader[t].at
      BY <1>3
    <2> QED
      BY <1>1, <1>4, <1>5, <2>1 DEF IngestorInv, ProgressIsStored
  <1> QED
    BY <1>1, <1>4, <1>5, <1>6, <1>7, <1>8, ReaderStep

(* A call fails.  An insert that took effect did what InsertEvent does to  *)
(* the tables; a commit that took effect leaves the goroutine behind.      *)
LEMMA FailsStep ==
    ASSUME IngestorInv, NEW t \in Topics, Fails(t)
    PROVE  IngestorInv'
  <1>1. /\ up /\ failures < MaxFailures /\ failures' = failures + 1
        /\ reader' = [reader EXCEPT ![t].pc = "failed"]
        /\ UNCHANGED <<engine, log>>
        /\ UNCHANGED <<sequence, events, ended, up, codecs>>
    BY DEF Fails, Goto, engine
  <1>2. /\ reader \in [Topics -> [pc : {"fetch", "raw", "action", "summary", "commit", "failed"},
                                  at : Nat]]
        /\ committed \in [Topics -> Nat] /\ log \in [Topics -> Seq(Event)]
    BY DEF IngestorInv, Shape
  <1>3. /\ reader' \in [Topics -> [pc : {"fetch", "raw", "action", "summary", "commit", "failed"},
                                   at : Nat]]
        /\ reader'[t].pc = "failed" /\ reader'[t].at = reader[t].at
        /\ \A u \in Topics : u # t => reader'[u] = reader[u]
    BY <1>1, <1>2
  <1>4. failures' \in 0 .. MaxFailures
    BY <1>1, IngestorAssumption DEF IngestorInv, TypeOK
  <1>5. AtMessage'
    BY <1>1, <1>3 DEF IngestorInv, AtMessage, Busy
  <1>6. CASE UNCHANGED <<committed, tables>>
    <2>1. TypeOK'
      BY <1>1, <1>3, <1>4, <1>6 DEF IngestorInv, TypeOK
    <2>2. \A u \in Topics : \A o \in Nat :
             /\ o < committed'[u] => Ingested(u, o)
             /\ reader'[u].pc \in {"action", "summary"} /\ reader'[u].at = o => RawStored(u, o)
             /\ reader'[u].pc = "commit" /\ reader'[u].at = o => Ingested(u, o)
      BY <1>3, <1>6 DEF IngestorInv, ProgressIsStored
    <2> QED
      BY <1>1, <1>2, <1>3, <1>5, <1>6, <2>1, <2>2, ReaderStep
  <1>7. CASE /\ reader[t].pc \in {"raw", "action", "summary"}
             /\ Inserts(t) /\ UNCHANGED committed
    <2>1. /\ reader[t].at \in Nat /\ reader[t].at = committed[t]
      BY <1>7, AtWhat
    <2>2. /\ rawEvents' \subseteq [seq : Nat, offset : Nat, id : Nat]
          /\ handActions' \subseteq [seq : Nat, id : Nat]
          /\ handSummaries' \subseteq [id : Nat]
          /\ \A u \in Topics, o \in Nat : RawStored(u, o) => RawStored(u, o)'
          /\ \A u \in Topics, o \in Nat :
                Ingested(u, o) /\ (u = t => o <= reader[t].at) => Ingested(u, o)'
      BY <1>1, <1>7, InsertKeepsTables
    <2>3. TypeOK'
      BY <1>1, <1>3, <1>4, <1>7 DEF IngestorInv, TypeOK
    <2>4. Shape'
      BY <1>1, <1>3, <1>7, <2>2 DEF IngestorInv, Shape
    <2>5. IdsGrow'
      BY <1>1 DEF IngestorInv, IdsGrow
    <2>6. ProgressIsStored'
      <3>1. ASSUME NEW u \in Topics, NEW o \in Nat, o < committed[u]
            PROVE  Ingested(u, o)'
        <4>1. Ingested(u, o) /\ (u = t => o <= reader[t].at)
          BY <2>1, <3>1 DEF IngestorInv, ProgressIsStored
        <4> QED
          BY <2>2, <4>1
      <3>2. ASSUME NEW u \in Topics, NEW o \in Nat, u # t
            PROVE  /\ reader[u].pc \in {"action", "summary"} /\ reader[u].at = o => RawStored(u, o)'
                   /\ reader[u].pc = "commit" /\ reader[u].at = o => Ingested(u, o)'
        BY <2>2, <3>2 DEF IngestorInv, ProgressIsStored
      <3> QED
        BY <1>3, <1>7, <3>1, <3>2 DEF ProgressIsStored
    <2> QED
      BY <1>5, <2>3, <2>4, <2>5, <2>6 DEF IngestorInv
  <1>8. CASE /\ reader[t].pc = "commit"
             /\ committed' = [committed EXCEPT ![t] = reader[t].at + 1] /\ UNCHANGED tables
    <2>1. /\ reader[t].at \in Nat /\ reader[t].at = committed[t]
          /\ reader[t].at < Len(log[t]) /\ Len(log[t]) \in Nat
      <3>1. Len(log[t]) \in Nat
        BY <1>2
      <3> QED
        BY <1>8, <3>1, AtWhat
    <2>2. /\ committed' \in [Topics -> Nat]
          /\ committed'[t] = reader[t].at + 1
          /\ \A u \in Topics : u # t => committed'[u] = committed[u]
      BY <1>2, <1>8, <2>1
    <2>3. TypeOK'
      BY <1>1, <1>3, <1>4, <2>1, <2>2 DEF IngestorInv, TypeOK
    <2>4. \A u \in Topics : \A o \in Nat :
             /\ o < committed'[u] => Ingested(u, o)
             /\ reader'[u].pc \in {"action", "summary"} /\ reader'[u].at = o => RawStored(u, o)
             /\ reader'[u].pc = "commit" /\ reader'[u].at = o => Ingested(u, o)
      <3>1. \A o \in Nat : o < reader[t].at + 1 => o < committed[t] \/ o = reader[t].at
        BY <2>1
      <3> QED
        BY <1>3, <1>8, <2>2, <3>1 DEF IngestorInv, ProgressIsStored
    <2> QED
      BY <1>1, <1>3, <1>5, <1>8, <2>2, <2>3, <2>4, ReaderStep
  <1> QED
    BY <1>6, <1>7, <1>8 DEF Fails

(* The process ends, or starts again. *)
LEMMA ExitStep ==
    ASSUME IngestorInv, Exit, failures' \in 0 .. MaxFailures
    PROVE  IngestorInv'
  <1>1. /\ up' = FALSE /\ codecs' = {}
        /\ reader' = [t \in Topics |-> [pc |-> "fetch", at |-> 0]]
        /\ UNCHANGED <<engine, log, tables>>
        /\ UNCHANGED <<sequence, events, ended, committed>>
    BY DEF Exit, Empty, engine
  <1>2. /\ reader' \in [Topics -> [pc : {"fetch", "raw", "action", "summary", "commit", "failed"},
                                   at : Nat]]
        /\ \A t \in Topics : reader'[t].pc = "fetch"
    BY <1>1
  <1>3. committed' \in [Topics -> Nat]
    BY <1>1 DEF IngestorInv, Shape
  <1>4. TypeOK'
    BY <1>1, <1>2 DEF IngestorInv, TypeOK
  <1>5. AtMessage'
    BY <1>2 DEF AtMessage
  <1>6. \A u \in Topics : \A o \in Nat :
           /\ o < committed'[u] => Ingested(u, o)
           /\ reader'[u].pc \in {"action", "summary"} /\ reader'[u].at = o => RawStored(u, o)
           /\ reader'[u].pc = "commit" /\ reader'[u].at = o => Ingested(u, o)
    BY <1>1, <1>2 DEF IngestorInv, ProgressIsStored
  <1> QED
    BY <1>1, <1>2, <1>3, <1>4, <1>5, <1>6, ReaderStep

LEMMA NewConsumerStep ==
    ASSUME IngestorInv, NewConsumer
    PROVE  IngestorInv'
  <1>1. /\ up' = TRUE
        /\ reader' = [t \in Topics |-> [pc |-> "fetch", at |-> committed[t]]]
        /\ UNCHANGED <<engine, log, tables>>
        /\ UNCHANGED <<sequence, events, ended, committed, codecs, failures>>
    BY DEF NewConsumer, engine
  <1>2. committed' \in [Topics -> Nat] /\ committed \in [Topics -> Nat]
    BY <1>1 DEF IngestorInv, Shape
  <1>3. /\ reader' \in [Topics -> [pc : {"fetch", "raw", "action", "summary", "commit", "failed"},
                                   at : Nat]]
        /\ \A t \in Topics : reader'[t].pc = "fetch" /\ reader'[t].at = committed[t]
    BY <1>1, <1>2
  <1>4. TypeOK'
    BY <1>1, <1>3 DEF IngestorInv, TypeOK
  <1>5. AtMessage'
    BY <1>3 DEF AtMessage
  <1>6. \A u \in Topics : \A o \in Nat :
           /\ o < committed'[u] => Ingested(u, o)
           /\ reader'[u].pc \in {"action", "summary"} /\ reader'[u].at = o => RawStored(u, o)
           /\ reader'[u].pc = "commit" /\ reader'[u].at = o => Ingested(u, o)
    BY <1>1, <1>3 DEF IngestorInv, ProgressIsStored
  <1> QED
    BY <1>1, <1>2, <1>3, <1>4, <1>5, <1>6, ReaderStep
-----------------------------------------------------------------------------
(* The theorems. *)

LEMMA InitIngestorInv == Init => IngestorInv
  <1> SUFFICES ASSUME Init PROVE IngestorInv
    OBVIOUS
  <1>1. \A t \in Topics : /\ log[t] = <<>> /\ committed[t] = 0
                          /\ reader[t].pc = "fetch" /\ reader[t].at = 0
    BY DEF Init, Empty
  <1>2. \A t \in Topics : Len(log[t]) = 0
    BY <1>1
  <1>3. TypeOK
    <2>1. up \in BOOLEAN /\ ended \in BOOLEAN /\ codecs \subseteq Topics
      BY DEF Init
    <2>2. failures \in 0 .. MaxFailures
      BY IngestorAssumption DEF Init
    <2>3. \A t \in Topics : committed[t] \in 0 .. Len(log[t])
      BY <1>1, <1>2
    <2> QED
      BY <1>1, <2>1, <2>2, <2>3 DEF TypeOK
  <1>4. Shape
    BY DEF Init, Shape, Empty
  <1>5. AtMessage /\ IdsGrow /\ ProgressIsStored
    BY <1>1, <1>2 DEF AtMessage, IdsGrow, ProgressIsStored
  <1> QED
    BY <1>3, <1>4, <1>5 DEF IngestorInv

LEMMA NextIngestorInv == IngestorInv /\ [Next]_vars => IngestorInv'
  <1> SUFFICES ASSUME IngestorInv, [Next]_vars PROVE IngestorInv'
    OBVIOUS
  <1>1. sequence \in Nat /\ ended \in BOOLEAN /\ failures \in 0 .. MaxFailures
    BY DEF IngestorInv, Shape, TypeOK
  <1>2. ASSUME NEW copies \in 1 .. 2, PublishHandStarted(copies)
        PROVE  IngestorInv'
    <2>1. /\ publish("hand.started", 1, copies) /\ "hand.started" \in Topics
          /\ sequence' \in Nat /\ ended' \in BOOLEAN /\ UNCHANGED ingestor
      BY <1>1, <1>2 DEF PublishHandStarted, Topics
    <2> QED
      BY <2>1, PublishStep
  <1>3. ASSUME NEW copies \in 1 .. 2, NEW saves \in BOOLEAN, PublishPlayerActed(copies, saves)
        PROVE  IngestorInv'
    <2>1. /\ publish("hand.acted", sequence + 1, copies) /\ "hand.acted" \in Topics
          /\ sequence + 1 \in Nat
          /\ sequence' \in Nat /\ ended' \in BOOLEAN /\ UNCHANGED ingestor
      BY <1>1, <1>3 DEF PublishPlayerActed, Topics
    <2> QED
      BY <2>1, PublishStep
  <1>4. ASSUME NEW copies \in 1 .. 2, NEW saves \in BOOLEAN, PublishHandEnded(copies, saves)
        PROVE  IngestorInv'
    <2>1. /\ publish("hand.ended", sequence + 1, copies) /\ "hand.ended" \in Topics
          /\ sequence + 1 \in Nat
          /\ sequence' \in Nat /\ ended' \in BOOLEAN /\ UNCHANGED ingestor
      BY <1>1, <1>4 DEF PublishHandEnded, Topics
    <2> QED
      BY <2>1, PublishStep
  <1>5. ASSUME NEW t \in Topics, Consume(t) \/ InsertEvent(t) \/ CommitMessages(t) \/ Fails(t)
        PROVE  IngestorInv'
    BY <1>5, ConsumeStep, InsertEventStep, CommitStep, FailsStep
  <1>6. CASE Run
    BY <1>1, <1>6, ExitStep DEF Run
  <1>7. CASE Kill
    <2>1. failures' \in 0 .. MaxFailures
      BY <1>1, <1>7, IngestorAssumption DEF Kill
    <2> QED
      BY <1>7, <2>1, ExitStep DEF Kill
  <1>8. CASE NewConsumer
    BY <1>8, NewConsumerStep
  <1>9. CASE UNCHANGED vars
    <2>1. /\ UNCHANGED <<engine, log, tables>>
          /\ UNCHANGED <<sequence, events, ended, committed, up, codecs, reader, failures>>
      BY <1>9 DEF vars, engine
    <2>2. TypeOK' /\ AtMessage'
      BY <2>1 DEF IngestorInv, TypeOK, AtMessage, Busy
    <2>3. \A u \in Topics : \A o \in Nat :
             /\ o < committed'[u] => Ingested(u, o)
             /\ reader'[u].pc \in {"action", "summary"} /\ reader'[u].at = o => RawStored(u, o)
             /\ reader'[u].pc = "commit" /\ reader'[u].at = o => Ingested(u, o)
      BY <2>1 DEF IngestorInv, ProgressIsStored
    <2>4. /\ committed' \in [Topics -> Nat]
          /\ reader' \in [Topics -> [pc : {"fetch", "raw", "action", "summary", "commit", "failed"},
                                     at : Nat]]
      BY <2>1 DEF IngestorInv, Shape
    <2> QED
      BY <2>1, <2>2, <2>3, <2>4, ReaderStep
  <1> QED
    BY <1>2, <1>3, <1>4, <1>5, <1>6, <1>7, <1>8, <1>9 DEF Next

(* The invariant holds in every reachable state, for any bounds. *)
THEOREM IngestorInvHolds == Spec => []IngestorInv
  BY InitIngestorInv, NextIngestorInv, PTL DEF Spec

(* CommittedIsStored: wherever the process ends, what the consumer group   *)
(* will not deliver again is in the tables.                                *)
THEOREM CommittedIsStoredHolds == Spec => []CommittedIsStored
  <1>1. IngestorInv => CommittedIsStored
    <2> SUFFICES ASSUME IngestorInv PROVE CommittedIsStored
      OBVIOUS
    <2>1. \A t \in Topics : committed[t] \in Nat
      BY DEF IngestorInv, Shape
    <2>2. \A t \in Topics : \A o \in 0 .. committed[t] - 1 : Ingested(t, o)
      BY <2>1 DEF IngestorInv, ProgressIsStored
    <2> QED
      BY <2>2 DEF IngestorInv, CommittedIsStored, Ingested, RawStored, ActionKept, SummaryKept
  <1> QED
    BY <1>1, IngestorInvHolds, PTL

(* LastEventIsKept: an event that is ingested again after a restart does   *)
(* not take the place of a later one.                                      *)
THEOREM LastEventIsKeptHolds == Spec => []LastEventIsKept
  <1>1. IngestorInv => LastEventIsKept
    <2> SUFFICES ASSUME IngestorInv PROVE LastEventIsKept
      OBVIOUS
    <2>1. /\ "hand.acted" \in Topics /\ "hand.ended" \in Topics
          /\ committed["hand.acted"] \in Nat /\ committed["hand.ended"] \in Nat
      BY DEF IngestorInv, Shape, Topics
    <2>2. /\ \A o \in 0 .. committed["hand.acted"] - 1 : ActionKept(o)
          /\ \A o \in 0 .. committed["hand.ended"] - 1 : SummaryKept(o)
      BY <2>1 DEF IngestorInv, ProgressIsStored, Ingested
    <2> QED
      BY <2>2 DEF LastEventIsKept, ActionKept, SummaryKept
  <1> QED
    BY <1>1, IngestorInvHolds, PTL
=============================================================================
