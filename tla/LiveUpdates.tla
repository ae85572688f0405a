---------------------------- MODULE LiveUpdates -----------------------------
(***************************************************************************)
(* How clients follow a hand and a table.  A stream (StreamGameState of    *)
(* the engine) is sent the hand as it is, subscribes to the engine's       *)
(* PubSub and is sent what ApplyAction publishes; a socket (WSHandler of   *)
(* table-manager) does the same with the table and the Hub.  A request     *)
(* saves the hand, publishes it, saves the table and publishes that; it    *)
(* may fail after each save, and then publishes no more.  Publish never    *)
(* waits: it holds the read lock over all subscribers and leaves out the   *)
(* ones whose channel is full.                                             *)
(*                                                                         *)
(* The requests that save something are numbered.  The saved hand and the  *)
(* saved table are the number of the request that saved them here, and a   *)
(* view is the hand and the table it shows and the players whose hole      *)
(* cards it holds.                                                         *)
(***************************************************************************)
EXTENDS Integers, Sequences

CONSTANTS
    Clients,           \* the clients
    Seated,            \* the ones whose user sits at the table
    Settings,          \* which of them are streams and which are slow
    AllowLegacy,       \* AllowLegacyUserHeader
    Capacity,          \* how many updates a channel holds
    MaxUpdates         \* bound: how many requests save something

ASSUME ClientsAssumption ==
    /\ Seated \subseteq Clients
    /\ Settings \subseteq [streams : SUBSET Clients, slow : SUBSET Clients]
    /\ "nobody" \notin Seated
    /\ Capacity \in Nat \ {0} /\ MaxUpdates \in Nat

VARIABLES
    setting,     \* the clients of this behaviour: never changes
    saved,       \* how many requests have saved something
    savedHand,   \* the request that saved the hand last
    savedTable,  \* the request that saved the table last
    saver,       \* where each request is
    subs,        \* PubSub.subscribers of the hand and Hub.subs of the table
    client,      \* where the handler of each client is
    queue,       \* the client's channel
    gone,        \* the client's connection is lost
    shown,       \* what the client was sent last
    published,   \* history: the newest request each of the two has published
    missed,      \* history: the clients the last publication has passed by
    overlappedSaves  \* history: a save while another request was to publish

liveVars == <<setting, saved, savedHand, savedTable, saver, subs, client, queue, gone,
              shown, published, missed, overlappedSaves>>

savedVars  == <<setting, saved, savedHand, savedTable, overlappedSaves>>
saverVars  == <<savedVars, saver>>
clientVars == <<subs, client, gone, shown>>

Streams == setting.streams
Sockets == Clients \ Streams
Slow == setting.slow          \* may stop reading without going away
HubOf(s) == IF s \in Streams THEN "pubsub" ELSE "hub"

Absent == -1                  \* what a view does not show

domainStateToProto(state) == [hand |-> state, table |-> 0, cards |-> Seated]

domainTableToProto(row, state, viewer) ==
    [hand |-> state, table |-> row,
     cards |-> IF state = Absent THEN {} ELSE Seated \cap {viewer}]

None == [hand |-> Absent, table |-> Absent, cards |-> {}]

Versions == 1 .. MaxUpdates
Answered == [pc |-> "answered", kind |-> "none", next |-> 0]

LiveInit ==
    /\ setting \in Settings
    /\ saved = 0 /\ savedHand = 0 /\ savedTable = 0
    /\ saver = [r \in Versions |-> [Answered EXCEPT !.pc = "none"]]
    /\ subs = [h \in {"pubsub", "hub"} |-> <<>>]
    /\ client = [s \in Clients |-> "off"]
    /\ queue = [s \in Clients |-> <<>>]
    /\ gone = {}
    /\ shown = [s \in Clients |-> None]
    /\ published = [h \in {"pubsub", "hub"} |-> 0]
    /\ missed = {}
    /\ overlappedSaves = FALSE
-----------------------------------------------------------------------------
(* Requests.  A request at "pubsub" or "hub" is to publish there; next is  *)
(* the subscriber its Publish has come to, 0 before it has the lock.  One  *)
(* at "table" has still to save the table.                                 *)

Publishing(h) == \E r \in Versions : saver[r].pc = h /\ saver[r].next > 0

Busy(r) == saver[r].pc \in {"pubsub", "table", "hub"}

Saves(kind, pc) ==
    /\ saved < MaxUpdates
    /\ saved' = saved + 1
    /\ saver' = [saver EXCEPT ![saved'] = [pc |-> pc, kind |-> kind, next |-> 0]]
    /\ overlappedSaves' = (overlappedSaves \/ \E r \in Versions : Busy(r))
    /\ UNCHANGED <<setting, clientVars, queue, published, missed>>

(* Act up to the engine's Save.  The engine publishes the hand, then       *)
(* table-manager saves the table and publishes it with the hand it was     *)
(* answered.  (A JoinTable that starts a hand does the same, and a request *)
(* made to the engine directly is one that fails before SaveTable.)        *)
Act == Saves("act", "pubsub") /\ savedHand' = saved' /\ UNCHANGED savedTable

(* JoinTable and LeaveTable up to SaveTable, their only save. *)
ChangeSeat == Saves("seat", "hub") /\ savedTable' = saved' /\ UNCHANGED savedHand

SavesTable(r) ==
    /\ saver[r].pc = "table"
    /\ savedTable' = r
    /\ saver' = [saver EXCEPT ![r].pc = "hub"]
    /\ UNCHANGED <<setting, saved, savedHand, overlappedSaves, clientVars, queue, published, missed>>

(* The handler returns an error after a save and publishes no more:        *)
(* PublishHandEnded fails after the engine's Save, the engine's answer is  *)
(* lost, StartHand of the next hand or SaveTable fails, or SaveTable has   *)
(* saved and its answer is lost.                                           *)
Fails(r) ==
    /\ Busy(r) /\ saver[r].next = 0
    /\ saver' = [saver EXCEPT ![r] = [Answered EXCEPT !.pc = "failed"]]
    /\ UNCHANGED <<savedVars, clientVars, queue, published, missed>>

publishTableMutant(r, s) ==  \* the table as it was before the request
    {domainTableToProto(r - 1, r, s)}

(* What publishTable sends to a client.  Without a hand in the answer and  *)
(* with one at the table, both are read again for every client, unless     *)
(* that fails; without a hand at the table there is none to show, and the  *)
(* view counts as one of the hand there is.                                *)
publishTable(r, s) ==
    IF saver[r].kind = "act" THEN {domainTableToProto(r, r, s)}
    ELSE {domainTableToProto(savedTable, savedHand, s),
          domainTableToProto(r, savedHand, s),
          domainTableToProto(r, Absent, s)}

Views(r, s) ==
    IF s \in Streams THEN {domainStateToProto(r)} ELSE publishTable(r, s)

(* The request after its Publish came to subscriber number at. *)
Advance(r, at) ==
    IF at < Len(subs[saver[r].pc]) THEN [saver[r] EXCEPT !.next = at + 1]
    ELSE IF saver[r].pc = "pubsub" THEN [saver[r] EXCEPT !.pc = "table", !.next = 0]
    ELSE Answered

BeginPublish(r) ==
    /\ saver[r].pc \in {"pubsub", "hub"} /\ saver[r].next = 0
    /\ saver' = [saver EXCEPT ![r] = Advance(r, 0)]
    /\ published' = [published EXCEPT ![saver[r].pc] = IF @ < r THEN r ELSE @]
    /\ UNCHANGED <<savedVars, clientVars, queue, missed>>

PublishMutant(r) ==  \* waits for room
    /\ saver[r].next > 0
    /\ LET s == subs[saver[r].pc][saver[r].next]
       IN  \E view \in Views(r, s) :
              /\ Len(queue[s]) < Capacity
              /\ queue' = [queue EXCEPT ![s] = Append(@, view)]
    /\ saver' = [saver EXCEPT ![r] = Advance(r, saver[r].next)]
    /\ UNCHANGED <<savedVars, clientVars, published, missed>>

(* A publication passes a client by when the channel is full, and when the *)
(* view had to be built without the hand.                                  *)
Publish(r) ==
    /\ saver[r].next > 0
    /\ LET s == subs[saver[r].pc][saver[r].next]
       IN  \E view \in Views(r, s) :
              /\ queue' = IF Len(queue[s]) < Capacity
                          THEN [queue EXCEPT ![s] = Append(@, view)] ELSE queue
              /\ missed' = IF Len(queue[s]) < Capacity /\ view.hand # Absent
                           THEN missed \ {s} ELSE missed \cup {s}
    /\ saver' = [saver EXCEPT ![r] = Advance(r, saver[r].next)]
    /\ UNCHANGED <<savedVars, clientVars, published>>
-----------------------------------------------------------------------------
(* Clients. *)

(* What a client is sent first, read by FindByID and GetTable.  The        *)
(* socket's table is for the user in the header, where that is looked at.  *)
Snapshot(s) ==
    IF s \in Streams THEN domainStateToProto(savedHand)
    ELSE domainTableToProto(savedTable, savedHand, IF AllowLegacy THEN s ELSE "nobody")

(* The handler reads the hand or the table and sends it.  (When it cannot  *)
(* it ends, and the client is as it was.)                                  *)
Connect(s) ==
    /\ client[s] = "off"
    /\ client' = [client EXCEPT ![s] = "subscribe"]
    /\ shown' = [shown EXCEPT ![s] = Snapshot(s)]
    /\ UNCHANGED <<saverVars, subs, queue, gone, published, missed>>

(* A socket whose table cannot be read goes on without. *)
ConnectBlind(s) ==
    /\ client[s] = "off"
    /\ s \in Sockets
    /\ client' = [client EXCEPT ![s] = "subscribe"]
    /\ missed' = missed \cup {s}
    /\ UNCHANGED <<saverVars, subs, queue, gone, shown, published>>

(* What the client's view lacks was published before it subscribed. *)
PassedBy(s) ==
    LET Announced(has, is) == has < is /\ is <= published[HubOf(s)]
    IN  \/ Announced(shown[s].hand, savedHand)
        \/ s \in Sockets /\ Announced(shown[s].table, savedTable)

Subscribe(s) ==
    /\ client[s] = "subscribe"
    /\ ~Publishing(HubOf(s))
    /\ client' = [client EXCEPT ![s] = "loop"]
    /\ subs' = [subs EXCEPT ![HubOf(s)] = Append(@, s)]
    /\ missed' = IF PassedBy(s) THEN missed \cup {s} ELSE missed
    /\ UNCHANGED <<saverVars, queue, gone, shown, published>>

(* The handler takes an update from the channel and sends it, which waits  *)
(* for the client: what it has in hand counts as queued until then.        *)
Send(s) ==
    /\ client[s] = "loop"
    /\ s \notin gone
    /\ queue[s] # <<>>
    /\ shown' = [shown EXCEPT ![s] = Head(queue[s])]
    /\ queue' = [queue EXCEPT ![s] = Tail(@)]
    /\ UNCHANGED <<saverVars, subs, client, gone, published, missed>>

(* The connection is lost.  A stream's context is done then; the context   *)
(* of a hijacked connection is not, so a socket's handler learns of it     *)
(* from the next write.                                                    *)
GoAway(s) ==
    /\ client[s] = "loop"
    /\ s \notin gone
    /\ gone' = gone \cup {s}
    /\ UNCHANGED <<saverVars, subs, client, queue, shown, published, missed>>

NoticesMutant(s) ==  \* the context is not looked at while there is nothing to send
    s \in gone /\ queue[s] # <<>>

Notices(s) == s \in gone /\ (s \in Streams \/ queue[s] # <<>>)

(* What the handler of a lost client leaves behind: nothing.  The client   *)
(* may connect again.                                                      *)
Return(s) ==
    /\ Notices(s)
    /\ ~Publishing(HubOf(s))
    /\ client' = [client EXCEPT ![s] = "off"]
    /\ queue' = [queue EXCEPT ![s] = <<>>]
    /\ shown' = [shown EXCEPT ![s] = None]
    /\ gone' = gone \ {s} /\ missed' = missed \ {s}
    /\ UNCHANGED <<saverVars, published>>

UnsubscribeMutant(s) ==  \* closes the channel and leaves it in the list
    Return(s) /\ UNCHANGED subs

(* append(subs[:i], subs[i+1:]...), with the first index 1. *)
Without(list, i) ==
    [n \in 1 .. Len(list) - 1 |-> IF n < i THEN list[n] ELSE list[n + 1]]

(* The deferred Unsubscribe, under the write lock: the first entry with    *)
(* the client's channel.                                                   *)
Unsubscribe(s) ==
    LET list == subs[HubOf(s)]
    IN  /\ Return(s)
        /\ \E i \in 1 .. Len(list) :
              /\ list[i] = s /\ \A j \in 1 .. i - 1 : list[j] # s
              /\ subs' = [subs EXCEPT ![HubOf(s)] = Without(list, i)]

LiveNext ==
    \/ Act
    \/ ChangeSeat
    \/ \E r \in Versions : BeginPublish(r) \/ Publish(r) \/ SavesTable(r) \/ Fails(r)
    \/ \E s \in Clients :
          \/ Connect(s)
          \/ ConnectBlind(s)
          \/ Subscribe(s)
          \/ Send(s)
          \/ GoAway(s)
          \/ Unsubscribe(s)

LiveSpec == LiveInit /\ [][LiveNext]_liveVars

(* The servers go on with what they have begun; a client that is not slow  *)
(* reads what it is sent.  Nobody has to connect, to go away or to act,    *)
(* and no request has to fail.                                             *)
Fairness ==
    /\ \A r \in Versions :
          WF_liveVars(BeginPublish(r)) /\ WF_liveVars(Publish(r)) /\ WF_liveVars(SavesTable(r))
    /\ \A s \in Clients :
          WF_liveVars(Subscribe(s)) /\ WF_liveVars(Unsubscribe(s))
    /\ \A s \in Clients : WF_liveVars(s \notin Slow /\ Send(s))

FairLiveSpec == LiveSpec /\ Fairness
-----------------------------------------------------------------------------
(* Properties. *)

Listed(s) == \E n \in 1 .. Len(subs[HubOf(s)]) : subs[HubOf(s)][n] = s

(* What the code's data are, and: the list of PubSub and Hub has a client  *)
(* once, exactly while its handler is between Subscribe and Unsubscribe,   *)
(* so that Publish never sends on a channel that is closed.  A socket is   *)
(* never sent another player's hole cards, whoever's request the view was  *)
(* built for (domainTableToProto inside Publish).                          *)
LiveTypeOK ==
    /\ saved \in 0 .. MaxUpdates /\ savedHand \in 0 .. saved /\ savedTable \in 0 .. saved
    /\ \A h \in {"pubsub", "hub"} : published[h] \in 0 .. saved
    /\ \A r \in Versions :
          saver[r].next \in
              0 .. (IF saver[r].pc \in {"pubsub", "hub"} THEN Len(subs[saver[r].pc]) ELSE 0)
    /\ \A s \in Clients :
          /\ Len(queue[s]) <= Capacity
          /\ shown[s].hand \in Absent .. saved /\ shown[s].table \in Absent .. saved
          /\ Listed(s) <=> client[s] = "loop"
    /\ \A h \in {"pubsub", "hub"} :
          \A m, n \in 1 .. Len(subs[h]) : subs[h][m] = subs[h][n] => m = n
    /\ \A s \in Sockets :
          /\ shown[s].cards \subseteq {s}
          /\ \A n \in 1 .. Len(queue[s]) : queue[s][n].cards \subseteq {s}

Older(v, w) == v.table < w.table \/ (v.hand # Absent /\ v.hand < w.hand)

(* A client is never shown an older hand or an older table after a newer   *)
(* one as long as no request saves while another is still to publish.      *)
(* (When they overlap it may be: nothing orders the publications as the    *)
(* saves.)                                                                 *)
NeverGoesBack ==
    [][\A s \in Clients :
          client[s] = "loop" /\ client'[s] = "loop" /\ Older(shown'[s], shown[s])
              => overlappedSaves]_liveVars

Current(s) == shown[s].hand = savedHand /\ (s \in Streams \/ shown[s].table = savedTable)

(* What was saved last belongs to a request that failed before it came to  *)
(* publish it, and nothing was published since.                            *)
Unannounced(s) ==
    LET Silent(r) == r > 0 /\ saver[r].pc = "failed" /\ published[HubOf(s)] < r
    IN  Silent(savedHand) \/ (s \in Sockets /\ Silent(savedTable))

UpToDate(s) ==
    client[s] = "loop" => \/ Current(s)
                          \/ s \in missed \cup gone \cup Slow
                          \/ Unannounced(s)
                          \/ overlappedSaves

(* When play pauses, every client that reads has the latest hand and the   *)
(* latest table.  It may lack them when they were published between its    *)
(* snapshot and its Subscribe, while its channel was full or without the   *)
(* hand, or when the request that saved them failed before it published    *)
(* them (server.go of both services returns first); the next publication   *)
(* that reaches the client makes up for each of these.  A client that does *)
(* not read, or whose connection is lost, keeps neither the others nor a   *)
(* request waiting.                                                        *)
ClientsCatchUp ==
    /\ \A s \in Clients : []<>UpToDate(s)
    /\ \A r \in Versions : []<>~Busy(r)

(* A lost client is taken from the list: a stream in any case, a socket    *)
(* when there is something to write to it.                                 *)
GoneAreForgotten ==
    \A s \in Clients :
        (s \in gone /\ (s \in Streams \/ queue[s] # <<>>)) ~> ~Listed(s)
=============================================================================
