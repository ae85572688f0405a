------------------------------ MODULE Ingestor ------------------------------
(***************************************************************************)
(* From the engine's events to the analytics tables.  The engine's         *)
(* Publisher writes each event of a hand to the Kafka topic of its kind,   *)
(* twice when the writer retries.  The ingestor reads every topic in a     *)
(* goroutine of its own: fetch, decode, insert the raw event, insert the   *)
(* action or the summary, commit the offset.  The first failure of one     *)
(* goroutine ends the process, wherever the others are; it is started      *)
(* again and goes on from the committed offsets.                           *)
(*                                                                         *)
(* One hand.  Its events have the key of the hand, so in each topic they   *)
(* are in one partition.  The tables are as ClickHouse merges them: of the *)
(* rows with the same sorting key the last one inserted stays.             *)
(***************************************************************************)
EXTENDS Integers, Sequences

CONSTANTS
    MaxStarted, MaxActed, MaxEnded,  \* bounds: how many messages in each topic
    MaxFailures                      \* bound: how many steps fail and how often the process is killed

ASSUME IngestorAssumption ==
    MaxStarted \in Nat /\ MaxActed \in Nat /\ MaxEnded \in Nat /\ MaxFailures \in Nat

VARIABLES
    sequence,    \* the engine: EventSequence of the saved hand; 0 before it starts
    events,      \* the engine: how many events there were; they number the IDs
    ended,       \* the engine: the end of the hand is saved
    log,         \* the topics
    committed,   \* the offset the consumer group goes on from
    up,          \* the ingestor runs
    codecs,      \* Decoder.codecs: the topics whose schema is there
    reader,      \* the goroutines
    rawEvents, handActions, handSummaries,  \* the tables
    failures     \* how much has failed

engine == <<sequence, events, ended>>
tables == <<rawEvents, handActions, handSummaries>>
vars == <<engine, log, committed, up, codecs, reader, tables, failures>>

Topics == {"hand.started", "hand.acted", "hand.ended"}

Empty == [pc |-> "fetch", at |-> 0]

Init ==
    /\ sequence = 0 /\ events = 0 /\ ended = FALSE
    /\ log = [t \in Topics |-> <<>>]
    /\ committed = [t \in Topics |-> 0]
    /\ up = TRUE
    /\ codecs = {}
    /\ reader = [t \in Topics |-> Empty]
    /\ rawEvents = {} /\ handActions = {} /\ handSummaries = {}
    /\ failures = 0

ingestor == <<committed, up, codecs, reader, tables, failures>>
-----------------------------------------------------------------------------
(* The engine. *)

(* Publisher.publish: the writer tries again when it gets no answer. *)
publish(topic, seq, copies) ==
    LET event == [id |-> events + 1, seq |-> seq]
    IN  /\ log' = [log EXCEPT ![topic] = @ \o [n \in 1 .. copies |-> event]]
        /\ events' = events + 1

PublishHandStarted(copies) ==
    /\ sequence = 0 /\ copies <= MaxStarted
    /\ publish("hand.started", 1, copies)
    /\ sequence' = 1
    /\ UNCHANGED <<ended, ingestor>>

(* ApplyAction publishes and then saves.  A hand that is not saved, or     *)
(* that another request saved over, gives the next action the same number. *)
PublishPlayerActed(copies, saves) ==
    /\ sequence > 0 /\ ~ended
    /\ Len(log["hand.acted"]) + copies <= MaxActed
    /\ publish("hand.acted", sequence + 1, copies)
    /\ sequence' = IF saves THEN sequence + 1 ELSE sequence
    /\ UNCHANGED <<ended, ingestor>>

PublishHandEnded(copies, saves) ==
    /\ sequence > 1 /\ ~ended
    /\ Len(log["hand.ended"]) + copies <= MaxEnded
    /\ publish("hand.ended", sequence + 1, copies)
    /\ ended' = saves
    /\ UNCHANGED <<sequence, ingestor>>
-----------------------------------------------------------------------------
(* The ingestor. *)

(* The message a goroutine is at. *)
Message(t) == log[t][reader[t].at + 1]

Goto(t, pc) == reader' = [reader EXCEPT ![t].pc = pc]

(* decodeRecord: the rows a message makes.  A row has the columns of its   *)
(* table's sorting key and the event it is from.                           *)
rawEvent(t) == [seq |-> Message(t).seq, offset |-> reader[t].at, id |-> Message(t).id]
handAction(t) == [seq |-> Message(t).seq, id |-> Message(t).id]
handSummary(t) == [id |-> Message(t).id]

(* What follows the raw event: InsertEvent by the event's kind. *)
AfterRaw(t) ==
    CASE t = "hand.started" -> "commit"
      [] t = "hand.acted"   -> "action"
      [] t = "hand.ended"   -> "summary"

(* FetchMessage and Decode. *)
Consume(t) ==
    /\ up /\ reader[t].pc = "fetch"
    /\ reader[t].at < Len(log[t])
    /\ codecs' = codecs \cup {t}
    /\ Goto(t, "raw")
    /\ UNCHANGED <<engine, log, committed, up, tables, failures>>

(* ReplacingMergeTree, by its ORDER BY.  That of raw_events has the        *)
(* partition and the offset, not the topic.                                *)
insertRawEvent(row) ==
    {x \in rawEvents : <<x.seq, x.offset>> # <<row.seq, row.offset>>} \cup {row}

insertHandActionMutant(row) ==  \* the row that is there stays
    IF \E x \in handActions : x.seq = row.seq THEN handActions ELSE handActions \cup {row}

insertHandAction(row) == {x \in handActions : x.seq # row.seq} \cup {row}

insertHandSummary(row) == {row}

(* What the insert a goroutine is at makes of the tables. *)
Inserts(t) ==
    CASE reader[t].pc = "raw" ->
            /\ rawEvents' = insertRawEvent(rawEvent(t))
            /\ UNCHANGED <<handActions, handSummaries>>
      [] reader[t].pc = "action" ->
            /\ handActions' = insertHandAction(handAction(t))
            /\ UNCHANGED <<rawEvents, handSummaries>>
      [] reader[t].pc = "summary" ->
            /\ handSummaries' = insertHandSummary(handSummary(t))
            /\ UNCHANGED <<rawEvents, handActions>>

InsertEventMutant(t) ==  \* goes on when an insert fails
    /\ up /\ reader[t].pc \in {"raw", "action", "summary"}
    /\ Inserts(t) \/ UNCHANGED tables
    /\ Goto(t, IF reader[t].pc = "raw" THEN AfterRaw(t) ELSE "commit")
    /\ UNCHANGED <<engine, log, committed, up, codecs, failures>>

InsertEvent(t) ==
    /\ up /\ reader[t].pc \in {"raw", "action", "summary"}
    /\ Inserts(t)
    /\ Goto(t, IF reader[t].pc = "raw" THEN AfterRaw(t) ELSE "commit")
    /\ UNCHANGED <<engine, log, committed, up, codecs, failures>>

CommitMessages(t) ==
    /\ up /\ reader[t].pc = "commit"
    /\ committed' = [committed EXCEPT ![t] = reader[t].at + 1]
    /\ reader' = [reader EXCEPT ![t] = [pc |-> "fetch", at |-> @.at + 1]]
    /\ UNCHANGED <<engine, log, up, codecs, tables, failures>>

(* A call fails: before or, for an insert or a commit, after it took       *)
(* effect.  The schema is asked for once only.                             *)
Fails(t) ==
    /\ up /\ failures < MaxFailures
    /\ \/ /\ reader[t].pc = "fetch" /\ reader[t].at < Len(log[t]) /\ t \notin codecs
          /\ UNCHANGED <<committed, tables>>
       \/ /\ reader[t].pc \in {"raw", "action", "summary"}
          /\ Inserts(t) \/ UNCHANGED tables
          /\ UNCHANGED committed
       \/ /\ reader[t].pc = "commit"
          /\ \/ committed' = [committed EXCEPT ![t] = reader[t].at + 1]
             \/ UNCHANGED committed
          /\ UNCHANGED tables
    /\ failures' = failures + 1
    /\ Goto(t, "failed")
    /\ UNCHANGED <<engine, log, up, codecs>>

(* The process ends, and with it what its goroutines and the decoder have. *)
Exit ==
    /\ up' = FALSE
    /\ codecs' = {}
    /\ reader' = [t \in Topics |-> Empty]
    /\ UNCHANGED <<engine, log, committed, tables>>

RunMutant ==  \* waits for all goroutines
    /\ up /\ \A t \in Topics : reader[t].pc = "failed"
    /\ Exit /\ UNCHANGED failures

(* Run returns the first error and main ends the process. *)
Run ==
    /\ up /\ \E t \in Topics : reader[t].pc = "failed"
    /\ Exit /\ UNCHANGED failures

Kill ==
    /\ up /\ failures < MaxFailures
    /\ failures' = failures + 1
    /\ Exit

(* The process starts again, with the consumer group's offsets. *)
NewConsumer ==
    /\ ~up
    /\ up' = TRUE
    /\ reader' = [t \in Topics |-> [pc |-> "fetch", at |-> committed[t]]]
    /\ UNCHANGED <<engine, log, committed, codecs, tables, failures>>

Next ==
    \/ \E copies \in 1 .. 2 :
          \/ PublishHandStarted(copies)
          \/ \E saves \in BOOLEAN :
                \/ PublishPlayerActed(copies, saves)
                \/ PublishHandEnded(copies, saves)
    \/ \E t \in Topics :
          \/ Consume(t)
          \/ InsertEvent(t)
          \/ CommitMessages(t)
          \/ Fails(t)
    \/ Run
    \/ Kill
    \/ NewConsumer

Spec == Init /\ [][Next]_vars

(* The goroutines go on, a failure ends the process, and a process that    *)
(* has ended is started again (restart: unless-stopped).                   *)
Fairness ==
    /\ \A t \in Topics : WF_vars(Consume(t)) /\ WF_vars(InsertEvent(t)) /\ WF_vars(CommitMessages(t))
    /\ WF_vars(Run)
    /\ WF_vars(NewConsumer)

FairSpec == Spec /\ Fairness
-----------------------------------------------------------------------------
(* Properties. *)

Offsets(t) == 0 .. Len(log[t]) - 1

(* The data have their types, and a goroutine is at most one message ahead *)
(* of what is committed: at the committed offset, or behind it by the one  *)
(* message whose commit has taken effect without its knowing.              *)
TypeOK ==
    /\ up \in BOOLEAN /\ ended \in BOOLEAN
    /\ failures \in 0 .. MaxFailures
    /\ codecs \subseteq Topics
    /\ \A t \in Topics :
          /\ committed[t] \in 0 .. Len(log[t])
          /\ reader[t].pc \in {"fetch", "raw", "action", "summary", "commit", "failed"}
          /\ \/ up => reader[t].at = committed[t]
             \/ reader[t].at = committed[t] - 1 /\ reader[t].pc = "failed"

(* Every event up to the committed offset is in the tables, wherever the   *)
(* process was ended: its raw event, or one of another topic with the same *)
(* hand, number and offset (the sorting key has no topic), and the action  *)
(* of its number or the summary of the hand.  No goroutine runs ahead of   *)
(* what it has committed (TypeOK).                                         *)
CommittedIsStored ==
    TypeOK /\ \A t \in Topics : \A o \in 0 .. committed[t] - 1 :
        LET event == log[t][o + 1]
        IN  /\ \E x \in rawEvents :
                  /\ x.seq = event.seq /\ x.offset = o
                  /\ x.id = event.id \/ \E u \in Topics \ {t} :
                                           o \in Offsets(u) /\ log[u][o + 1].id = x.id
            /\ t = "hand.acted" => \E x \in handActions : x.seq = event.seq
            /\ t = "hand.ended" => handSummaries # {}

(* Of the actions with one number, and of the summaries, the last one that *)
(* was published is kept: it never gives way to an earlier one, however    *)
(* often the process starts again.                                         *)
LastEventIsKept ==
    /\ \A x \in handActions : \A o \in 0 .. committed["hand.acted"] - 1 :
          LET event == log["hand.acted"][o + 1]
          IN  event.seq = x.seq => event.id <= x.id
    /\ \A x \in handSummaries : \A o \in 0 .. committed["hand.ended"] - 1 :
          log["hand.ended"][o + 1].id <= x.id

(* Every event is ingested and committed in the end. *)
EveryEventIngested ==
    \A t \in Topics : []<>(committed[t] = Len(log[t]))
=============================================================================
