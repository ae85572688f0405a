---------------------------- MODULE AuthService ----------------------------
(***************************************************************************)
(* Registration, login and the refresh sessions of the auth-service, and   *)
(* the wallet that a new user gets by way of Kafka.  A request is several  *)
(* transactions with other requests in between, and it may end after any   *)
(* of them.  Requests the service refuses change nothing and are the       *)
(* negations of the guards.                                                *)
(*                                                                         *)
(* A user is known by the normalised email, which is unique.  A session    *)
(* stands for its refresh token, whose hash is stored, and for the access  *)
(* token that is issued with it.                                           *)
(***************************************************************************)
EXTENDS Integers, Sequences, FiniteSets

CONSTANTS
    Emails,       \* the emails
    Requests,     \* the requests that can run at once
    RefreshTTL,   \* TokenManager.refreshTTL, in ticks of the clock
    AccessTTL,    \* TokenManager.accessTTL
    None,         \* "no user", "no address"
    MaxTime,      \* bound: how long the clock runs
    MaxSessions,  \* bound: how many sessions there are
    MaxFailures   \* bound: how many steps fail, or are repeated by Kafka

ASSUME TTLAssumption == RefreshTTL \in Nat /\ AccessTTL \in Nat /\ AccessTTL <= RefreshTTL
ASSUME NoneAssumption == None \notin Emails \cup Nat
ASSUME BoundsAssumption ==
    /\ IsFiniteSet(Requests)
    /\ MaxTime \in Nat /\ MaxSessions \in Nat /\ MaxFailures \in Nat

VARIABLES
    users,       \* auth.users and auth.password_credentials
    sessions,    \* auth.refresh_sessions, in the order of their creation
    now,         \* the clock
    req,         \* the requests
    topic,       \* external: the messages of user.created
    committed,   \* external: the consumer group's offset
    consumer,    \* the wallet's consumer: where it is
    address,     \* wallet_deposit_addresses (and accounts and balances)
    generated,   \* how many deposit addresses were generated
    unannounced, \* history: the users whose message was never written
    refused,     \* history: the users for whom ProvisionUser has failed
    failures     \* how many steps have failed

auth   == <<users, sessions, now, req>>
wallet == <<committed, consumer, address, generated, refused>>
vars   == <<auth, topic, wallet, unannounced, failures>>

Idle == [pc |-> "idle", op |-> "none", user |-> None, session |-> 0]

Init ==
    /\ users = {}
    /\ sessions = << >>
    /\ now = 0
    /\ req = [r \in Requests |-> Idle]
    /\ topic = << >>
    /\ committed = 0
    /\ consumer = "fetch"
    /\ address = [u \in Emails |-> None]
    /\ generated = 0
    /\ unannounced = {}
    /\ refused = {}
    /\ failures = 0

At(r, pc) == req[r].pc = pc

NextFailure ==
    /\ failures < MaxFailures
    /\ failures' = failures + 1
-----------------------------------------------------------------------------
(* Register and Login. *)

RegisterMutant(r, u) ==  \* goes on although CreateUser was rolled back
    /\ At(r, "idle")
    /\ u \notin users
    /\ \E created \in {users, users \cup {u}} : users' = created
    /\ req' = [req EXCEPT ![r] = [pc |-> "publish", op |-> "register", user |-> u,
                                  session |-> 0]]
    /\ UNCHANGED <<sessions, now, topic, wallet, unannounced, failures>>

(* CreateUser: the user and the password in one transaction. *)
Register(r, u) ==
    /\ At(r, "idle")
    /\ u \notin users
    /\ users' = users \cup {u}
    /\ req' = [req EXCEPT ![r] = [pc |-> "publish", op |-> "register", user |-> u,
                                  session |-> 0]]
    /\ UNCHANGED <<sessions, now, topic, wallet, unannounced, failures>>

PublishUserCreated(r) ==
    /\ At(r, "publish")
    /\ topic' = Append(topic, req[r].user)
    /\ req' = [req EXCEPT ![r].pc = "issue"]
    /\ UNCHANGED <<users, sessions, now, wallet, unannounced, failures>>

(* The writer sends the message again when the broker's answer is lost. *)
PublishTwice(r) ==
    /\ At(r, "publish")
    /\ NextFailure
    /\ topic' = topic \o <<req[r].user, req[r].user>>
    /\ req' = [req EXCEPT ![r].pc = "issue"]
    /\ UNCHANGED <<users, sessions, now, wallet, unannounced>>

(* Register drops the publisher's error. *)
PublishFails(r) ==
    /\ At(r, "publish")
    /\ NextFailure
    /\ unannounced' = unannounced \cup {req[r].user}
    /\ req' = [req EXCEPT ![r].pc = "issue"]
    /\ UNCHANGED <<users, sessions, now, topic, wallet>>

FindUserWithPasswordByEmail(u) == u \in users

(* CheckPassword is a request that is refused, or not. *)
Login(r, u) ==
    /\ At(r, "idle")
    /\ FindUserWithPasswordByEmail(u)
    /\ req' = [req EXCEPT ![r] = [pc |-> "issue", op |-> "login", user |-> u, session |-> 0]]
    /\ UNCHANGED <<users, sessions, now, topic, wallet, unannounced, failures>>

NewSession(u, replaces) ==
    [user |-> u, expires |-> now + RefreshTTL, revoked |-> FALSE, replaces |-> replaces]

(* The session is stored and the request ends with its tokens.  A client   *)
(* that does not get the answer is one that does not use the session.      *)
AnswerWith(r, stored) ==
    /\ sessions' = stored
    /\ req' = [req EXCEPT ![r] = Idle]
    /\ UNCHANGED <<users, now, topic, wallet, unannounced, failures>>

CreateRefreshSession(u) == Append(sessions, NewSession(u, 0))

issueSession(r) ==
    /\ At(r, "issue")
    /\ Len(sessions) < MaxSessions
    /\ AnswerWith(r, CreateRefreshSession(req[r].user))

(* A query fails, the client goes away or the service stops; what was      *)
(* committed stays.                                                        *)
Fail(r) ==
    /\ ~At(r, "idle")
    /\ NextFailure
    /\ unannounced' = IF At(r, "publish") THEN unannounced \cup {req[r].user} ELSE unannounced
    /\ req' = [req EXCEPT ![r] = Idle]
    /\ UNCHANGED <<users, sessions, now, topic, wallet>>
-----------------------------------------------------------------------------
(* Refresh and Logout. *)

Expired(s) == sessions[s].expires < now

FindRefreshSessionMutant(s) == [sessions[s] EXCEPT !.revoked = FALSE]  \* revoked_at is not read

(* FindRefreshSessionByTokenHash: the row of the session. *)
FindRefreshSession(s) == sessions[s]

FindUserByID(u) == u \in users

(* Refresh up to the transaction: the session is read and checked. *)
Refresh(r, s) ==
    LET session == FindRefreshSession(s)
    IN  /\ At(r, "idle")
        /\ ~session.revoked
        /\ ~Expired(s)
        /\ FindUserByID(session.user)
        /\ req' = [req EXCEPT ![r] = [pc |-> "rotate", op |-> "refresh",
                                      user |-> session.user, session |-> s]]
        /\ UNCHANGED <<users, sessions, now, topic, wallet, unannounced, failures>>

RotateRefreshSessionMutant(r) ==  \* the old session is not revoked
    /\ At(r, "rotate")
    /\ Len(sessions) < MaxSessions
    /\ AnswerWith(r, Append(sessions, NewSession(req[r].user, req[r].session)))

(* One transaction.  It does not look at the number of rows of the UPDATE: *)
(* a session that was revoked since it was read is replaced once more.     *)
RotateRefreshSession(r) ==
    /\ At(r, "rotate")
    /\ Len(sessions) < MaxSessions
    /\ AnswerWith(r, Append([sessions EXCEPT ![req[r].session].revoked = TRUE],
                            NewSession(req[r].user, req[r].session)))

(* Logout is one UPDATE. *)
RevokeRefreshSession(s) ==
    /\ ~sessions[s].revoked
    /\ sessions' = [sessions EXCEPT ![s].revoked = TRUE]
    /\ UNCHANGED <<users, now, req, topic, wallet, unannounced, failures>>

Tick ==
    /\ now < MaxTime
    /\ now' = now + 1
    /\ UNCHANGED <<users, sessions, req, topic, wallet, unannounced, failures>>
-----------------------------------------------------------------------------
(* The wallet's consumer of user.created. *)

Message == topic[committed + 1]

FetchMessage ==
    /\ consumer = "fetch"
    /\ committed < Len(topic)
    /\ consumer' = "provision"
    /\ UNCHANGED <<auth, topic, committed, address, generated, refused, unannounced, failures>>

(* A deposit address is generated for every message, and inserted ON       *)
(* CONFLICT DO NOTHING.                                                    *)
ProvisionUser ==
    /\ consumer = "provision"
    /\ consumer' = "commit"
    /\ generated' = generated + 1
    /\ address' = [address EXCEPT ![Message] = IF @ = None THEN generated' ELSE @]
    /\ UNCHANGED <<auth, topic, committed, refused, unannounced, failures>>

(* Run drops the error of ProvisionUser. *)
ProvisionFails ==
    /\ consumer = "provision"
    /\ NextFailure
    /\ consumer' = "commit"
    /\ refused' = refused \cup {Message}
    /\ UNCHANGED <<auth, topic, committed, address, generated, unannounced>>

CommitMessages ==
    /\ consumer = "commit"
    /\ committed' = committed + 1
    /\ consumer' = "fetch"
    /\ UNCHANGED <<auth, topic, address, generated, refused, unannounced, failures>>

StopMutant ==  \* as if the offset were committed before the message is handled
    /\ consumer # "fetch"
    /\ NextFailure
    /\ committed' = committed + 1
    /\ consumer' = "fetch"
    /\ UNCHANGED <<auth, topic, address, generated, refused, unannounced>>

(* The wallet stops, or ends because a commit failed, and starts again at  *)
(* the committed offset.                                                   *)
Stop ==
    /\ consumer # "fetch"
    /\ NextFailure
    /\ consumer' = "fetch"
    /\ UNCHANGED <<auth, topic, committed, address, generated, refused, unannounced>>

Consume == FetchMessage \/ ProvisionUser \/ ProvisionFails \/ CommitMessages

Next ==
    \/ \E r \in Requests :
          \/ \E u \in Emails : Register(r, u) \/ Login(r, u)
          \/ PublishUserCreated(r)
          \/ PublishTwice(r)
          \/ PublishFails(r)
          \/ issueSession(r)
          \/ \E s \in DOMAIN sessions : Refresh(r, s)
          \/ RotateRefreshSession(r)
          \/ Fail(r)
    \/ \E s \in DOMAIN sessions : RevokeRefreshSession(s)
    \/ Tick
    \/ FetchMessage
    \/ ProvisionUser
    \/ ProvisionFails
    \/ CommitMessages
    \/ Stop

Spec == Init /\ [][Next]_vars

(* A request that is to publish goes on until it has or fails; the         *)
(* consumer's loop goes on, and its process is started again when it ends. *)
FairSpec ==
    /\ Spec
    /\ \A r \in Requests : WF_vars(PublishUserCreated(r))
    /\ WF_vars(Consume)
-----------------------------------------------------------------------------
(* Properties. *)

(* The access token that was issued with session s. *)
VerifyTokenWithKey(s) == sessions[s].expires - RefreshTTL + AccessTTL >= now

(* What Me answers the holder of that token. *)
Me(s) ==
    CASE ~VerifyTokenWithKey(s) -> "unauthorized"
      [] VerifyTokenWithKey(s) /\ ~FindUserByID(sessions[s].user) -> "not found"
      [] VerifyTokenWithKey(s) /\ FindUserByID(sessions[s].user) -> "ok"

(* The tables, the requests and the consumer have their types, and whoever *)
(* has an access token is a user: tokens are issued only after CreateUser  *)
(* has committed, whatever fails on the way.                               *)
TypeOK ==
    /\ users \subseteq Emails
    /\ sessions \in Seq([user : Emails, expires : Nat, revoked : BOOLEAN, replaces : Nat])
    /\ now \in 0 .. MaxTime
    /\ req \in [Requests -> [pc : {"idle", "publish", "issue", "rotate"},
                             op : {"none", "register", "login", "refresh"},
                             user : Emails \cup {None}, session : 0 .. MaxSessions]]
    /\ topic \in Seq(Emails)
    /\ committed \in 0 .. Len(topic)
    /\ consumer \in {"fetch", "provision", "commit"}
    /\ address \in [Emails -> Nat \cup {None}]
    /\ unannounced \subseteq Emails /\ refused \subseteq Emails
    /\ failures \in 0 .. MaxFailures
    /\ \A s \in DOMAIN sessions : Me(s) # "not found"

Replacements(s) == {t \in DOMAIN sessions : sessions[t].replaces = s}

(* A refresh token is spent: a session that was replaced is revoked, and   *)
(* it is replaced more than once only by refreshes that ran beside each    *)
(* other.  (RotateRefreshSession does not notice that it comes second.)    *)
RefreshSpendsToken ==
    \A s \in DOMAIN sessions :
        Replacements(s) # {} =>
            /\ sessions[s].revoked
            /\ Cardinality(Replacements(s)) <= Cardinality(Requests)

Live(s) == ~sessions[s].revoked /\ ~Expired(s)

(* The user has no session that can be refreshed and no request running. *)
LoggedOut(u) ==
    /\ \A s \in DOMAIN sessions : sessions[s].user = u => ~Live(s)
    /\ \A r \in Requests : req[r].user # u

(* Once all sessions of a user are revoked or expired and no refresh is    *)
(* under way, there is no way back but a login: old tokens start nothing.  *)
LoggedOutUntilLogin ==
    [][\A u \in Emails :
          LoggedOut(u) =>
              LoggedOut(u)' \/ \E r \in Requests :
                  req'[r].user = u /\ req'[r].op \in {"register", "login"}]_vars

(* A deposit address, once given out, is the user's for good: a message    *)
(* that is delivered again generates an address but does not store it.     *)
AddressIsKept == [][\A u \in Emails : address[u] # None => address'[u] = address[u]]_vars

(* Whoever has registered gets a wallet, unless the message could not be   *)
(* written or ProvisionUser failed: a stop between the wallet's            *)
(* transaction and the commit of the offset loses nothing.  The wallet     *)
(* keeps its deposit address.                                              *)
WalletArrives ==
    /\ \A u \in Emails :
          u \in users ~> (address[u] # None \/ u \in unannounced \cup refused)
    /\ AddressIsKept
=============================================================================
