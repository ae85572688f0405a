------------------------- MODULE AuthServiceProofs --------------------------
(***************************************************************************)
(* Theorems about AuthService for every number of users, of requests that  *)
(* run at once, of sessions and of failures, and then about AccessTokens,  *)
(* the tokens it issues, for every number of keys, calls and rotations.    *)
(***************************************************************************)
EXTENDS AuthService, AccessTokens, FiniteSetTheorems, TLAPS

Session == [user : Emails, expires : Nat, revoked : BOOLEAN, replaces : Nat]

AuthRequest == [pc : {"idle", "publish", "issue", "rotate"},
                op : {"none", "register", "login", "refresh"},
                user : Emails \cup {None}, session : 0 .. MaxSessions]

(* The part of TypeOK that speaks of the tables alone. *)
Tables ==
    /\ users \subseteq Emails
    /\ sessions \in Seq(Session)
    /\ Len(sessions) <= MaxSessions
    /\ now \in 0 .. MaxTime
    /\ failures \in 0 .. MaxFailures

Consumer ==
    /\ topic \in Seq(Emails)
    /\ committed \in 0 .. Len(topic)
    /\ consumer \in {"fetch", "provision", "commit"}
    /\ consumer # "fetch" => committed < Len(topic)
    /\ address \in [Emails -> Nat \cup {None}]
    /\ generated \in Nat
    /\ unannounced \subseteq Emails /\ refused \subseteq Emails

(* A request past its first step is a user's, and one that is to rotate    *)
(* has a session of that user.                                             *)
RequestsAreUsers ==
    /\ req \in [Requests -> AuthRequest]
    /\ \A r \in Requests :
          /\ ~At(r, "idle") => req[r].user \in users
          /\ At(r, "rotate") => /\ req[r].session \in 1 .. Len(sessions)
                                /\ req[r].user = sessions[req[r].session].user

SessionsAreUsers == \A s \in 1 .. Len(sessions) : sessions[s].user \in users

(* The requests that have read session s and are to replace it. *)
Rotating(s) == {r \in Requests : req[r].pc = "rotate" /\ req[r].session = s}

(* A session replaces an earlier one, which is revoked, and there are no   *)
(* more replacements of it, done and under way, than requests.             *)
Spent ==
    \A s \in 1 .. Len(sessions) :
        /\ sessions[s].replaces < s
        /\ Replacements(s) # {} => sessions[s].revoked
        /\ Cardinality(Replacements(s)) + Cardinality(Rotating(s)) <= Cardinality(Requests)

AuthInv == Tables /\ Consumer /\ RequestsAreUsers /\ SessionsAreUsers /\ Spent
-----------------------------------------------------------------------------
(* What a step may do to the sessions. *)

(* UPDATE ... SET revoked_at. *)
LEMMA RevokedSession ==
    ASSUME NEW t \in Seq(Session), NEW k \in 1 .. Len(t)
    PROVE  LET v == [t EXCEPT ![k].revoked = TRUE]
           IN  /\ v \in Seq(Session) /\ Len(v) = Len(t) /\ v[k].revoked
               /\ \A s \in 1 .. Len(t) :
                     /\ v[s].user = t[s].user /\ v[s].expires = t[s].expires
                     /\ v[s].replaces = t[s].replaces
                     /\ t[s].revoked => v[s].revoked
<1> DEFINE x == [t[k] EXCEPT !.revoked = TRUE]
           v == [t EXCEPT ![k] = x]
<1>1. t[k] \in Session /\ t \in [1 .. Len(t) -> Session] /\ Len(t) \in Nat
  OBVIOUS
<1>2. /\ x \in Session /\ x.user = t[k].user /\ x.expires = t[k].expires
      /\ x.replaces = t[k].replaces /\ x.revoked = TRUE
  BY <1>1 DEF Session
<1> HIDE DEF x
<1>3. v \in [1 .. Len(t) -> Session]
  BY <1>1, <1>2
<1>4. v \in Seq(Session) /\ Len(v) = Len(t)
  BY <1>1, <1>3
<1>5. \A s \in 1 .. Len(t) : v[s] = IF s = k THEN x ELSE t[s]
  BY <1>1
<1> HIDE DEF v
<1>6. \A s \in 1 .. Len(t) :
         /\ v[s].user = t[s].user /\ v[s].expires = t[s].expires
         /\ v[s].replaces = t[s].replaces
         /\ t[s].revoked => v[s].revoked
  BY <1>2, <1>5
<1>7. v[k].revoked
  BY <1>2, <1>5
<1> QED
  BY <1>4, <1>6, <1>7 DEF v, x

(* Nothing changes in a session but that it is revoked, for good. *)
SessionsStay ==
    /\ sessions' \in Seq(Session)
    /\ Len(sessions) <= Len(sessions')
    /\ \A s \in 1 .. Len(sessions) :
          /\ sessions'[s].user = sessions[s].user
          /\ sessions'[s].expires = sessions[s].expires
          /\ sessions'[s].replaces = sessions[s].replaces
          /\ sessions[s].revoked => sessions'[s].revoked

(* Request r ends with a session, which replaces the one it has read. *)
NewSessionBy(r) ==
    LET old == IF At(r, "rotate") THEN req[r].session ELSE 0
        new == Len(sessions) + 1
    IN  /\ At(r, "issue") \/ At(r, "rotate")
        /\ Len(sessions) < MaxSessions
        /\ Len(sessions') = new
        /\ sessions'[new] = NewSession(req[r].user, old)
        /\ old # 0 => sessions'[old].revoked
        /\ req' = [req EXCEPT ![r] = Idle]
        /\ UNCHANGED <<users, now>>

LEMMA NewSessionType ==
    ASSUME Tables, NEW u \in Emails, NEW old \in Nat
    PROVE  NewSession(u, old) \in Session
<1>1. now + RefreshTTL \in Nat
  BY TTLAssumption, BoundsAssumption DEF Tables
<1> QED
  BY <1>1 DEF NewSession, Session

LEMMA SessionsStep ==
    ASSUME AuthInv, [Next]_vars
    PROVE  /\ SessionsStay
           /\ Len(sessions') = Len(sessions) \/ \E r \in Requests : NewSessionBy(r)
<1> DEFINE Goal == /\ SessionsStay
                   /\ \/ Len(sessions') = Len(sessions)
                      \/ \E r \in Requests : NewSessionBy(r)
<1>1. sessions \in Seq(Session) /\ Len(sessions) \in Nat /\ users \subseteq Emails
  BY DEF AuthInv, Tables
<1>2. CASE UNCHANGED sessions
  BY <1>1, <1>2 DEF SessionsStay
<1>3. ASSUME NEW r \in Requests, issueSession(r)
      PROVE  Goal
  <2> DEFINE x == NewSession(req[r].user, 0)
  <2>1. At(r, "issue") /\ Len(sessions) < MaxSessions /\ sessions' = Append(sessions, x)
        /\ req' = [req EXCEPT ![r] = Idle] /\ UNCHANGED <<users, now>>
    BY <1>3 DEF issueSession, AnswerWith, CreateRefreshSession
  <2>2. ~At(r, "rotate") /\ req[r].user \in Emails
    BY <1>1, <2>1 DEF AuthInv, RequestsAreUsers, At
  <2>3. x \in Session
    BY <2>2, NewSessionType DEF AuthInv
  <2> HIDE DEF x
  <2>4. /\ sessions' \in Seq(Session) /\ Len(sessions') = Len(sessions) + 1
        /\ sessions'[Len(sessions) + 1] = x
        /\ \A s \in 1 .. Len(sessions) : sessions'[s] = sessions[s]
    BY <1>1, <2>1, <2>3
  <2>5. SessionsStay
    BY <1>1, <2>4 DEF SessionsStay
  <2>6. NewSessionBy(r)
    BY <2>1, <2>2, <2>4 DEF NewSessionBy, x
  <2> QED
    BY <2>5, <2>6
<1>4. ASSUME NEW r \in Requests, RotateRefreshSession(r)
      PROVE  Goal
  <2> DEFINE k == req[r].session
             t == [sessions EXCEPT ![k].revoked = TRUE]
             x == NewSession(req[r].user, k)
  <2>1. At(r, "rotate") /\ Len(sessions) < MaxSessions /\ sessions' = Append(t, x)
        /\ req' = [req EXCEPT ![r] = Idle] /\ UNCHANGED <<users, now>>
    BY <1>4 DEF RotateRefreshSession, AnswerWith
  <2>2. k \in 1 .. Len(sessions) /\ req[r].user \in Emails /\ k # 0 /\ k \in Nat
    BY <1>1, <2>1 DEF AuthInv, RequestsAreUsers, At
  <2>3. x \in Session
    BY <2>2, NewSessionType DEF AuthInv
  <2>4. /\ t \in Seq(Session) /\ Len(t) = Len(sessions) /\ t[k].revoked
        /\ \A s \in 1 .. Len(sessions) :
              /\ t[s].user = sessions[s].user /\ t[s].expires = sessions[s].expires
              /\ t[s].replaces = sessions[s].replaces
              /\ sessions[s].revoked => t[s].revoked
    BY <1>1, <2>2, RevokedSession
  <2> HIDE DEF x, t
  <2>5. /\ sessions' \in Seq(Session) /\ Len(sessions') = Len(sessions) + 1
        /\ sessions'[Len(sessions) + 1] = x
        /\ \A s \in 1 .. Len(sessions) : sessions'[s] = t[s]
    BY <1>1, <2>1, <2>3, <2>4
  <2>6. SessionsStay
    BY <1>1, <2>4, <2>5 DEF SessionsStay
  <2>7. NewSessionBy(r)
    BY <2>1, <2>2, <2>4, <2>5 DEF NewSessionBy, x
  <2> QED
    BY <2>6, <2>7
<1>5. ASSUME NEW s \in DOMAIN sessions, RevokeRefreshSession(s)
      PROVE  Goal
  <2>1. s \in 1 .. Len(sessions)
    BY <1>1
  <2>2. sessions' = [sessions EXCEPT ![s].revoked = TRUE]
    BY <1>5 DEF RevokeRefreshSession
  <2> QED
    BY <1>1, <2>1, <2>2, RevokedSession DEF SessionsStay
<1>6. \/ UNCHANGED sessions
      \/ \E r \in Requests : issueSession(r) \/ RotateRefreshSession(r)
      \/ \E s \in DOMAIN sessions : RevokeRefreshSession(s)
  BY DEF Next, Register, Login, PublishUserCreated, PublishTwice, PublishFails, Refresh,
         Fail, Tick, FetchMessage, ProvisionUser, ProvisionFails, CommitMessages, Stop,
         vars, auth
<1> QED
  BY <1>2, <1>3, <1>4, <1>5, <1>6
-----------------------------------------------------------------------------
(* What a step may do to the requests. *)

(* A login or a registration begins, for a user. *)
Begins(q) == q.user \in users' /\ q.op \in {"register", "login"} /\ q.pc # "rotate"

(* A refresh begins: the session is live and its user is known. *)
Reads(q) ==
    /\ q.pc = "rotate"
    /\ q.session \in 1 .. Len(sessions)
    /\ q.user = sessions[q.session].user /\ q.user \in users
    /\ Live(q.session)
    /\ UNCHANGED sessions

LEMMA RequestsStep ==
    ASSUME AuthInv, [Next]_vars
    PROVE  /\ req' \in [Requests -> AuthRequest]
           /\ users \subseteq users' /\ users' \subseteq Emails
           /\ \A r \in Requests :
                 \/ req'[r] = req[r]
                 \/ req'[r] = Idle
                 \/ At(r, "publish") /\ req'[r].user = req[r].user /\ req'[r].pc = "issue"
                 \/ Begins(req'[r])
                 \/ Reads(req'[r])
<1> DEFINE Moved(r) ==
             \/ req'[r] = req[r]
             \/ req'[r] = Idle
             \/ At(r, "publish") /\ req'[r].user = req[r].user /\ req'[r].pc = "issue"
             \/ Begins(req'[r])
             \/ Reads(req'[r])
           Goal == /\ req' \in [Requests -> AuthRequest]
                   /\ users \subseteq users' /\ users' \subseteq Emails
                   /\ \A r \in Requests : Moved(r)
<1>1. /\ req \in [Requests -> AuthRequest] /\ users \subseteq Emails
      /\ sessions \in Seq(Session) /\ Len(sessions) <= MaxSessions
  BY DEF AuthInv, Tables, RequestsAreUsers
<1>2. CASE UNCHANGED <<users, req>>
  BY <1>1, <1>2
<1>3. ASSUME NEW r \in Requests, NEW q \in AuthRequest, req' = [req EXCEPT ![r] = q],
             users \subseteq users', users' \subseteq Emails,
             \/ q = Idle
             \/ At(r, "publish") /\ q.user = req[r].user /\ q.pc = "issue"
             \/ Begins(q)
             \/ Reads(q)
      PROVE  Goal
  <2>1. req' \in [Requests -> AuthRequest]
        /\ \A o \in Requests : req'[o] = IF o = r THEN q ELSE req[o]
    BY <1>1, <1>3
  <2> QED
    BY <1>3, <2>1
<1>4. Idle \in AuthRequest
  BY BoundsAssumption DEF Idle, AuthRequest
<1> HIDE DEF Goal
<1>5. ASSUME NEW r \in Requests, NEW u \in Emails, Register(r, u) \/ Login(r, u)
      PROVE  Goal
  <2> DEFINE q == req'[r]
  <2>1. /\ q \in AuthRequest /\ req' = [req EXCEPT ![r] = q] /\ q.pc # "rotate"
        /\ q.user = u /\ q.op \in {"register", "login"}
        /\ users \subseteq users' /\ users' \subseteq Emails /\ u \in users'
    BY <1>1, <1>5, BoundsAssumption
       DEF Register, Login, FindUserWithPasswordByEmail, AuthRequest
  <2> HIDE DEF q
  <2> QED
    BY <1>3, <2>1 DEF Begins
<1>6. ASSUME NEW r \in Requests,
             PublishUserCreated(r) \/ PublishTwice(r) \/ PublishFails(r)
      PROVE  Goal
  <2> DEFINE q == [req[r] EXCEPT !.pc = "issue"]
  <2>1. At(r, "publish") /\ req' = [req EXCEPT ![r] = q] /\ users' = users
    BY <1>6 DEF PublishUserCreated, PublishTwice, PublishFails
  <2>2. req[r] \in AuthRequest
    BY <1>1
  <2>3. q \in AuthRequest /\ q.user = req[r].user /\ q.pc = "issue"
    BY <2>2 DEF AuthRequest
  <2> HIDE DEF q
  <2> QED
    BY <1>1, <1>3, <2>1, <2>3
<1>7. ASSUME NEW r \in Requests, issueSession(r) \/ RotateRefreshSession(r) \/ Fail(r)
      PROVE  Goal
  <2>1. req' = [req EXCEPT ![r] = Idle] /\ users' = users
    BY <1>7 DEF issueSession, RotateRefreshSession, AnswerWith, Fail
  <2> QED
    BY <1>1, <1>3, <1>4, <2>1
<1>8. ASSUME NEW r \in Requests, NEW s \in DOMAIN sessions, Refresh(r, s)
      PROVE  Goal
  <2> DEFINE q == [pc |-> "rotate", op |-> "refresh", user |-> sessions[s].user, session |-> s]
  <2>1. /\ req' = [req EXCEPT ![r] = q] /\ Live(s) /\ sessions[s].user \in users
        /\ UNCHANGED <<users, sessions>>
    BY <1>8 DEF Refresh, FindRefreshSession, FindUserByID, Live
  <2>2. s \in 1 .. Len(sessions) /\ s \in 0 .. MaxSessions
    BY <1>1, BoundsAssumption
  <2>3. /\ q \in AuthRequest /\ q.pc = "rotate" /\ q.session = s
        /\ q.user = sessions[s].user
    BY <1>1, <2>1, <2>2 DEF AuthRequest
  <2> HIDE DEF q
  <2> QED
    BY <1>1, <1>3, <2>1, <2>2, <2>3 DEF Reads
<1>9. \/ UNCHANGED <<users, req>>
      \/ \E r \in Requests, u \in Emails : Register(r, u) \/ Login(r, u)
      \/ \E r \in Requests :
            \/ PublishUserCreated(r) \/ PublishTwice(r) \/ PublishFails(r)
            \/ issueSession(r) \/ RotateRefreshSession(r) \/ Fail(r)
            \/ \E s \in DOMAIN sessions : Refresh(r, s)
  BY DEF Next, RevokeRefreshSession, Tick, FetchMessage, ProvisionUser, ProvisionFails,
         CommitMessages, Stop, vars, auth
<1> QED
  BY <1>2, <1>5, <1>6, <1>7, <1>8, <1>9 DEF Goal
-----------------------------------------------------------------------------
(* The invariant. *)

LEMMA InitIsAuth == Init => AuthInv
<1> SUFFICES ASSUME Init PROVE AuthInv
  OBVIOUS
<1>1. Idle \in AuthRequest /\ Idle.pc = "idle"
  BY BoundsAssumption DEF Idle, AuthRequest
<1>2. /\ req \in [Requests -> AuthRequest] /\ \A r \in Requests : At(r, "idle")
      /\ address \in [Emails -> Nat \cup {None}]
  BY <1>1 DEF Init, At
<1>3. Len(sessions) = 0 /\ sessions \in Seq(Session) /\ topic \in Seq(Emails) /\ Len(topic) = 0
  BY DEF Init
<1>4. Tables
  BY <1>3, BoundsAssumption DEF Init, Tables
<1>5. Consumer
  BY <1>2, <1>3 DEF Init, Consumer
<1>6. RequestsAreUsers
  BY <1>2 DEF RequestsAreUsers, At
<1>7. SessionsAreUsers /\ Spent
  BY <1>3 DEF SessionsAreUsers, Spent
<1> QED
  BY <1>4, <1>5, <1>6, <1>7 DEF AuthInv

LEMMA TablesKept ==
    ASSUME AuthInv, [Next]_vars
    PROVE  Tables'
<1>1. /\ users' \subseteq Emails /\ sessions' \in Seq(Session)
      /\ Len(sessions') <= MaxSessions
  <2>1. CASE Len(sessions') = Len(sessions)
    BY <2>1, SessionsStep, RequestsStep DEF SessionsStay, AuthInv, Tables
  <2>2. ASSUME NEW r \in Requests, NewSessionBy(r)
        PROVE  Len(sessions') <= MaxSessions
    BY <2>2, BoundsAssumption DEF NewSessionBy, AuthInv, Tables
  <2> QED
    BY <2>1, <2>2, SessionsStep, RequestsStep DEF SessionsStay
<1>2. now' \in 0 .. MaxTime
  <2>1. UNCHANGED now \/ Tick
    BY DEF Next, Register, Login, PublishUserCreated, PublishTwice, PublishFails, Refresh,
           issueSession, RotateRefreshSession, AnswerWith, RevokeRefreshSession,
           Fail, FetchMessage, ProvisionUser, ProvisionFails, CommitMessages, Stop,
           vars, auth
  <2> QED
    BY <2>1, BoundsAssumption DEF Tick, AuthInv, Tables
<1>3. failures' \in 0 .. MaxFailures
  <2>1. failures' = failures \/ NextFailure
    BY DEF Next, Register, Login, PublishUserCreated, PublishTwice, PublishFails, Refresh,
           issueSession, RotateRefreshSession, AnswerWith, RevokeRefreshSession,
           Fail, Tick, FetchMessage, ProvisionUser, ProvisionFails, CommitMessages, Stop,
           vars
  <2> QED
    BY <2>1, BoundsAssumption DEF NextFailure, AuthInv, Tables
<1> QED
  BY <1>1, <1>2, <1>3 DEF Tables

LEMMA ConsumerKept ==
    ASSUME AuthInv, [Next]_vars
    PROVE  Consumer'
<1>1. /\ Consumer /\ topic \in Seq(Emails) /\ Len(topic) \in Nat
      /\ \A r \in Requests : ~At(r, "idle") => req[r].user \in Emails
  BY DEF AuthInv, Consumer, RequestsAreUsers, Tables
<1>2. CASE UNCHANGED <<topic, wallet, unannounced>>
  BY <1>1, <1>2 DEF Consumer, wallet
<1>3. ASSUME NEW r \in Requests,
             PublishUserCreated(r) \/ PublishTwice(r)
      PROVE  Consumer'
  <2>1. req[r].user \in Emails
    BY <1>1, <1>3 DEF PublishUserCreated, PublishTwice, At
  <2>2. topic' \in Seq(Emails) /\ Len(topic') >= Len(topic)
    <3>1. CASE PublishUserCreated(r)
      BY <1>1, <2>1, <3>1 DEF PublishUserCreated
    <3>2. CASE PublishTwice(r)
      <4>1. topic' = topic \o <<req[r].user, req[r].user>>
        BY <3>2 DEF PublishTwice
      <4>2. /\ <<req[r].user, req[r].user>> \in Seq(Emails)
            /\ Len(<<req[r].user, req[r].user>>) = 2
        BY <2>1
      <4> HIDE DEF At
      <4> QED
        BY <1>1, <4>1, <4>2
    <3> QED
      BY <1>3, <3>1, <3>2
  <2>3. UNCHANGED <<wallet, unannounced>>
    BY <1>3 DEF PublishUserCreated, PublishTwice
  <2> QED
    BY <1>1, <2>2, <2>3 DEF Consumer, wallet
<1>4. ASSUME NEW r \in Requests, PublishFails(r) \/ Fail(r)
      PROVE  Consumer'
  <2>1. /\ unannounced' = unannounced \cup {req[r].user} \/ unannounced' = unannounced
        /\ ~At(r, "idle") /\ UNCHANGED <<topic, wallet>>
    BY <1>4 DEF PublishFails, Fail, At
  <2> QED
    BY <1>1, <2>1 DEF Consumer, wallet
<1>5. ASSUME committed < Len(topic) PROVE Message \in Emails
  BY <1>1, <1>5 DEF Message, Consumer
<1>6. CASE FetchMessage
  BY <1>1, <1>6 DEF FetchMessage, Consumer
<1>7. CASE ProvisionUser
  <2>1. generated' = generated + 1 /\ Message \in Emails /\ generated' \in Nat
    BY <1>1, <1>5, <1>7 DEF ProvisionUser, Consumer
  <2>2. address' \in [Emails -> Nat \cup {None}]
    BY <1>1, <1>7, <2>1 DEF ProvisionUser, Consumer
  <2> QED
    BY <1>1, <1>7, <2>1, <2>2 DEF ProvisionUser, Consumer
<1>8. CASE ProvisionFails
  BY <1>1, <1>5, <1>8 DEF ProvisionFails, Consumer
<1>9. CASE CommitMessages
  BY <1>1, <1>9 DEF CommitMessages, Consumer
<1>10. CASE Stop
  BY <1>1, <1>10 DEF Stop, Consumer
<1>11. \/ UNCHANGED <<topic, wallet, unannounced>>
       \/ \E r \in Requests : \/ PublishUserCreated(r) \/ PublishTwice(r)
                              \/ PublishFails(r) \/ Fail(r)
       \/ FetchMessage \/ ProvisionUser \/ ProvisionFails \/ CommitMessages \/ Stop
  BY DEF Next, Register, Login, Refresh, issueSession, RotateRefreshSession, AnswerWith,
         RevokeRefreshSession, Tick, vars
<1> QED
  BY <1>2, <1>3, <1>4, <1>6, <1>7, <1>8, <1>9, <1>10, <1>11

LEMMA RequestsKept ==
    ASSUME AuthInv, [Next]_vars
    PROVE  RequestsAreUsers'
<1>1. /\ req' \in [Requests -> AuthRequest] /\ users \subseteq users'
      /\ SessionsStay /\ Len(sessions) \in Nat /\ Len(sessions') \in Nat
  BY RequestsStep, SessionsStep DEF SessionsStay, AuthInv, Tables
<1>2. ASSUME NEW r \in Requests
      PROVE  /\ req'[r].pc # "idle" => req'[r].user \in users'
             /\ req'[r].pc = "rotate" => /\ req'[r].session \in 1 .. Len(sessions')
                                         /\ req'[r].user = sessions'[req'[r].session].user
  <2>1. CASE req'[r] = req[r]
    BY <1>1, <2>1 DEF SessionsStay, AuthInv, RequestsAreUsers, At
  <2>2. CASE req'[r] = Idle
    BY <2>2 DEF Idle
  <2>3. CASE At(r, "publish") /\ req'[r].user = req[r].user /\ req'[r].pc = "issue"
    BY <1>1, <2>3 DEF AuthInv, RequestsAreUsers, At
  <2>4. CASE Begins(req'[r])
    BY <2>4 DEF Begins
  <2>5. CASE Reads(req'[r])
    BY <1>1, <2>5 DEF Reads
  <2> QED
    BY <2>1, <2>2, <2>3, <2>4, <2>5, RequestsStep
<1> QED
  BY <1>1, <1>2 DEF RequestsAreUsers, At

LEMMA SessionsKept ==
    ASSUME AuthInv, [Next]_vars
    PROVE  SessionsAreUsers'
<1>1. /\ SessionsStay /\ users \subseteq users' /\ Len(sessions) \in Nat
      /\ SessionsAreUsers
  BY RequestsStep, SessionsStep DEF SessionsStay, AuthInv, Tables
<1>2. CASE Len(sessions') = Len(sessions)
  BY <1>1, <1>2 DEF SessionsStay, SessionsAreUsers
<1>3. ASSUME NEW r \in Requests, NewSessionBy(r)
      PROVE  SessionsAreUsers'
  <2>1. /\ Len(sessions') = Len(sessions) + 1
        /\ sessions'[Len(sessions) + 1].user = req[r].user
        /\ req[r].user \in users
    BY <1>3 DEF NewSessionBy, NewSession, AuthInv, RequestsAreUsers, At
  <2> QED
    BY <1>1, <2>1 DEF SessionsStay, SessionsAreUsers
<1> QED
  BY <1>2, <1>3, SessionsStep
-----------------------------------------------------------------------------
(* A refresh token is spent. *)

LEMMA RotatingFinite ==
    ASSUME NEW s
    PROVE  /\ IsFiniteSet(Rotating(s))
           /\ Cardinality(Rotating(s)) \in Nat /\ Cardinality(Requests) \in Nat
           /\ Cardinality(Rotating(s)) <= Cardinality(Requests)
<1>1. Rotating(s) \subseteq Requests /\ IsFiniteSet(Requests)
  BY BoundsAssumption DEF Rotating
<1> QED
  BY <1>1, FS_Subset, FS_CardinalityType

LEMMA ReplacementsFinite ==
    ASSUME Tables, NEW s
    PROVE  /\ IsFiniteSet(Replacements(s))
           /\ Cardinality(Replacements(s)) \in Nat
<1>1. Replacements(s) \subseteq 1 .. Len(sessions) /\ Len(sessions) \in Nat
  BY DEF Replacements, Tables
<1>2. IsFiniteSet(1 .. Len(sessions))
  BY <1>1, FS_Interval
<1> QED
  BY <1>1, <1>2, FS_Subset, FS_CardinalityType

(* Only a refresh that finds the session live joins those that are to      *)
(* replace it.                                                             *)
LEMMA RotatingStep ==
    ASSUME AuthInv, [Next]_vars, NEW s \in 1 .. Len(sessions)
    PROVE  \/ Rotating(s)' \subseteq Rotating(s)
           \/ ~sessions[s].revoked /\ UNCHANGED sessions
<1> SUFFICES ASSUME NEW r \in Requests, req'[r].pc = "rotate", req'[r].session = s,
                    r \notin Rotating(s)
             PROVE  ~sessions[s].revoked /\ UNCHANGED sessions
  BY DEF Rotating
<1>1. req'[r] # req[r] /\ req'[r] # Idle
  BY DEF Rotating, Idle
<1>2. Reads(req'[r])
  BY <1>1, RequestsStep DEF Begins
<1> QED
  BY <1>2 DEF Reads, Live

LEMMA SpentKept ==
    ASSUME AuthInv, [Next]_vars
    PROVE  Spent'
<1> DEFINE n == Len(sessions)
<1>1. /\ SessionsStay /\ n \in Nat /\ Tables /\ Tables' /\ Spent
      /\ DOMAIN sessions = 1 .. n /\ DOMAIN sessions' = 1 .. Len(sessions')
      /\ \A s \in 1 .. n : sessions[s].replaces \in Nat /\ sessions[s].revoked \in BOOLEAN
  <2>1. SessionsStay /\ Tables /\ Tables' /\ Spent
    BY SessionsStep, TablesKept DEF AuthInv
  <2>2. sessions \in Seq(Session) /\ sessions' \in Seq(Session)
    BY <2>1 DEF Tables
  <2>3. ASSUME NEW s \in 1 .. n
        PROVE  sessions[s].replaces \in Nat /\ sessions[s].revoked \in BOOLEAN
    <3>1. sessions[s] \in Session
      BY <2>2
    <3> QED
      BY <3>1 DEF Session
  <2> QED
    BY <2>1, <2>2, <2>3
<1>2. CASE Len(sessions') = n
  <2> SUFFICES ASSUME NEW s \in 1 .. n
               PROVE  /\ sessions'[s].replaces < s
                      /\ Replacements(s)' # {} => sessions'[s].revoked
                      /\ Cardinality(Replacements(s)') + Cardinality(Rotating(s)')
                            <= Cardinality(Requests)
    BY <1>2 DEF Spent
  <2>1. Replacements(s)' = Replacements(s)
    BY <1>1, <1>2 DEF Replacements, SessionsStay
  <2>2. CASE Rotating(s)' \subseteq Rotating(s)
    <3>1. Cardinality(Rotating(s)') <= Cardinality(Rotating(s))
          /\ Cardinality(Rotating(s)') \in Nat
      BY <2>2, RotatingFinite, FS_Subset, FS_CardinalityType
    <3> QED
      BY <1>1, <2>1, <3>1, RotatingFinite, ReplacementsFinite DEF Spent, SessionsStay
  <2>3. CASE ~sessions[s].revoked /\ UNCHANGED sessions
    <3>1. Replacements(s) = {}
      BY <1>1, <2>3 DEF Spent
    <3>2. Cardinality(Replacements(s)) = 0
      BY <3>1, FS_EmptySet
    <3>3. Rotating(s)' \subseteq Requests
      BY DEF Rotating
    <3>4. Cardinality(Rotating(s)') <= Cardinality(Requests)
          /\ Cardinality(Rotating(s)') \in Nat
      BY <3>3, BoundsAssumption, FS_Subset, FS_CardinalityType
    <3> QED
      BY <1>1, <2>1, <2>3, <3>1, <3>2, <3>4, RotatingFinite DEF Spent
  <2> QED
    BY <1>1, <2>2, <2>3, RotatingStep
<1>3. ASSUME NEW r \in Requests, NewSessionBy(r)
      PROVE  Spent'
  <2> DEFINE old == IF At(r, "rotate") THEN req[r].session ELSE 0
             new == n + 1
  <2>1. /\ Len(sessions') = new /\ sessions'[new].replaces = old
        /\ old # 0 => sessions'[old].revoked
        /\ req' = [req EXCEPT ![r] = Idle]
    BY <1>3 DEF NewSessionBy, NewSession
  <2>2. old \in 0 .. n /\ old < new
    BY <1>1 DEF AuthInv, RequestsAreUsers
  <2>3. \A o \in Requests : req'[o] = IF o = r THEN Idle ELSE req[o]
    BY <2>1 DEF AuthInv, RequestsAreUsers
  <2>4. ASSUME NEW s \in 1 .. n
        PROVE  Replacements(s)' = IF s = old THEN Replacements(s) \cup {new}
                                             ELSE Replacements(s)
    <3>1. \A t : t \in 1 .. new <=> t \in 1 .. n \/ t = new
      BY <1>1
    <3>2. \A t \in 1 .. n : sessions'[t].replaces = sessions[t].replaces
      BY <1>1 DEF SessionsStay
    <3> HIDE DEF n, new, old
    <3>3. \A t : t \in Replacements(s)' <=> t \in Replacements(s) \/ (t = new /\ s = old)
      BY <1>1, <2>1, <3>1, <3>2 DEF Replacements
    <3> QED
      BY <3>3
  <2>5. ASSUME NEW s \in 1 .. n
        PROVE  Rotating(s)' = IF s = old THEN Rotating(s) \ {r} ELSE Rotating(s)
    <3>1. s = old => r \in Rotating(s)
      BY DEF Rotating, At
    <3>2. s # old => r \notin Rotating(s)
      BY DEF Rotating, At
    <3>3. Idle.pc = "idle"
      BY DEF Idle
    <3> HIDE DEF n, new, old
    <3>4. \A o : o \in Rotating(s)' <=> o \in Rotating(s) /\ o # r
      BY <2>3, <3>3 DEF Rotating
    <3> QED
      BY <3>1, <3>2, <3>4
  <2>6. new \notin Replacements(old)
    BY <1>1 DEF Replacements
  <2>7. ASSUME NEW s \in 1 .. new, s = new
        PROVE  Replacements(s)' = {} /\ Rotating(s)' = {}
    <3>1. ASSUME NEW t \in 1 .. new PROVE sessions'[t].replaces # new
      <4>1. CASE t = new
        BY <1>1, <2>1, <2>2, <4>1
      <4>2. CASE t \in 1 .. n
        <5>1. sessions'[t].replaces < t /\ sessions'[t].replaces \in Nat
          BY <1>1, <4>2 DEF Spent, SessionsStay
        <5> QED
          BY <1>1, <4>2, <5>1
      <4> QED
        BY <1>1, <4>1, <4>2
    <3>2. ASSUME NEW o \in Requests, req'[o].pc = "rotate" PROVE req'[o].session # new
      <4>1. req'[o] = req[o]
        BY <2>3, <3>2 DEF Idle
      <4> QED
        BY <1>1, <3>2, <4>1 DEF AuthInv, RequestsAreUsers, At
    <3>3. DOMAIN sessions' = 1 .. new
      BY <1>1, <2>1
    <3> HIDE DEF n, new, old
    <3>4. Replacements(s)' = {}
      BY <2>7, <3>1, <3>3 DEF Replacements
    <3>5. Rotating(s)' = {}
      BY <2>7, <3>2 DEF Rotating
    <3> QED
      BY <3>4, <3>5
  <2>8. ASSUME NEW s \in 1 .. new
        PROVE  /\ sessions'[s].replaces < s
               /\ Replacements(s)' # {} => sessions'[s].revoked
               /\ Cardinality(Replacements(s)') + Cardinality(Rotating(s)')
                     <= Cardinality(Requests)
    <3>1. CASE s = new
      <4>1. Cardinality({}) + Cardinality({}) <= Cardinality(Requests)
        BY RotatingFinite, FS_EmptySet
      <4>2. Replacements(s)' = {} /\ Rotating(s)' = {}
        BY <2>7, <3>1
      <4>3. sessions'[s].replaces < s
        BY <2>1, <2>2, <3>1
      <4> QED
        BY <4>1, <4>2, <4>3
    <3>2. CASE s \in 1 .. n /\ s # old
      BY <1>1, <2>4, <2>5, <3>2 DEF Spent, SessionsStay
    <3>3. CASE s \in 1 .. n /\ s = old
      <4>1. Cardinality(Replacements(s)') = Cardinality(Replacements(s)) + 1
        <5> HIDE DEF new, old
        <5>1. Replacements(s)' = Replacements(s) \cup {new}
          BY <2>4, <3>3
        <5>2. new \notin Replacements(s)
          BY <2>6, <3>3
        <5>3. IsFiniteSet(Replacements(s))
          BY ReplacementsFinite DEF AuthInv
        <5> QED
          BY <5>1, <5>2, <5>3, FS_AddElement
      <4>2. r \in Rotating(s)
        BY <3>3 DEF Rotating, At
      <4>3. Cardinality(Rotating(s)') = Cardinality(Rotating(s)) - 1
        <5> HIDE DEF new, old
        <5> QED
          BY <2>5, <3>3, <4>2, RotatingFinite, FS_RemoveElement
      <4>4. /\ Cardinality(Replacements(s)) + Cardinality(Rotating(s)) <= Cardinality(Requests)
            /\ sessions'[s].replaces < s
        BY <1>1, <3>3 DEF Spent, SessionsStay
      <4>5. sessions'[s].revoked
        BY <2>1, <3>3
      <4> QED
        BY <1>1, <4>1, <4>3, <4>4, <4>5, RotatingFinite, ReplacementsFinite
    <3> QED
      BY <1>1, <3>1, <3>2, <3>3
  <2> QED
    BY <2>1, <2>8 DEF Spent
<1> QED
  BY <1>2, <1>3, SessionsStep

LEMMA AuthInvariant == Spec => []AuthInv
<1>1. AuthInv /\ [Next]_vars => AuthInv'
  <2> SUFFICES ASSUME AuthInv, [Next]_vars PROVE AuthInv'
    OBVIOUS
  <2> QED
    BY TablesKept, ConsumerKept, RequestsKept, SessionsKept, SpentKept DEF AuthInv
<1> QED
  BY <1>1, InitIsAuth, PTL DEF Spec

(* The tables, the requests and the consumer have their types, and whoever *)
(* has an access token is a user, whatever fails on the way (Register,     *)
(* Login, Refresh, Me).                                                    *)
THEOREM AuthTypeCorrect == Spec => []TypeOK
<1>1. AuthInv => TypeOK
  <2> SUFFICES ASSUME AuthInv PROVE TypeOK
    OBVIOUS
  <2>1. \A s \in DOMAIN sessions : Me(s) # "not found"
    <3> SUFFICES ASSUME NEW s \in DOMAIN sessions PROVE Me(s) # "not found"
      OBVIOUS
    <3>1. FindUserByID(sessions[s].user)
      BY DEF AuthInv, Tables, SessionsAreUsers, FindUserByID
    <3>2. VerifyTokenWithKey(s) \in BOOLEAN
      BY DEF VerifyTokenWithKey
    <3> QED
      BY <3>1, <3>2 DEF Me
  <2>2. req \in [Requests -> AuthRequest] /\ sessions \in Seq(Session)
    BY DEF AuthInv, Tables, RequestsAreUsers
  <2> QED
    BY <2>1, <2>2 DEF AuthInv, Tables, Consumer, TypeOK, AuthRequest, Session
<1> QED
  BY <1>1, AuthInvariant, PTL

(* A session that was replaced is revoked, and it is replaced no more      *)
(* often than there are requests that run beside each other: the count of  *)
(* RotateRefreshSession's blind UPDATE is bounded for any number of them.  *)
THEOREM RefreshSpendsTokenHolds == Spec => []RefreshSpendsToken
<1>1. AuthInv => RefreshSpendsToken
  <2> SUFFICES ASSUME AuthInv, NEW s \in DOMAIN sessions, Replacements(s) # {}
               PROVE  /\ sessions[s].revoked
                      /\ Cardinality(Replacements(s)) <= Cardinality(Requests)
    BY DEF RefreshSpendsToken
  <2>1. s \in 1 .. Len(sessions) /\ Tables /\ Spent
    BY DEF AuthInv, Tables
  <2> QED
    BY <2>1, RotatingFinite, ReplacementsFinite DEF Spent
<1> QED
  BY <1>1, AuthInvariant, PTL

(* Whoever has no live session and no request under way gets one only by   *)
(* a login or a registration (FindRefreshSession, RotateRefreshSession,    *)
(* RevokeRefreshSession).                                                  *)
THEOREM LoggedOutUntilLoginHolds == Spec => LoggedOutUntilLogin
<1> DEFINE Back(u) == LoggedOut(u)' \/ \E r \in Requests :
                          req'[r].user = u /\ req'[r].op \in {"register", "login"}
<1>1. ASSUME AuthInv, [Next]_vars, NEW u \in Emails, LoggedOut(u)
      PROVE  Back(u)
  <2> SUFFICES ASSUME ~\E r \in Requests :
                          req'[r].user = u /\ req'[r].op \in {"register", "login"}
               PROVE  LoggedOut(u)'
    OBVIOUS
  <2>1. /\ SessionsStay /\ DOMAIN sessions = 1 .. Len(sessions) /\ Len(sessions) \in Nat
        /\ DOMAIN sessions' = 1 .. Len(sessions')
        /\ \A s \in 1 .. Len(sessions) : sessions[s].expires \in Nat
    <3>1. SessionsStay /\ Tables
      BY <1>1, SessionsStep DEF AuthInv
    <3>2. sessions \in Seq(Session) /\ sessions' \in Seq(Session)
      BY <3>1 DEF SessionsStay, Tables
    <3>3. ASSUME NEW s \in 1 .. Len(sessions) PROVE sessions[s].expires \in Nat
      <4>1. sessions[s] \in Session
        BY <3>2
      <4> QED
        BY <4>1 DEF Session
    <3> QED
      BY <3>1, <3>2, <3>3
  <2>2. now \in Nat /\ now' \in Nat /\ now <= now'
    <3>1. now' = now \/ now' = now + 1
      BY <1>1 DEF Next, Register, Login, PublishUserCreated, PublishTwice, PublishFails,
           Refresh, issueSession, RotateRefreshSession, AnswerWith, RevokeRefreshSession,
           Fail, Tick, FetchMessage, ProvisionUser, ProvisionFails, CommitMessages, Stop,
           vars, auth
    <3> QED
      BY <1>1, <3>1, BoundsAssumption DEF AuthInv, Tables
  <2>3. ASSUME NEW s \in 1 .. Len(sessions), sessions'[s].user = u
        PROVE  ~Live(s)'
    <3>1. ~Live(s)
      BY <1>1, <2>1, <2>3 DEF LoggedOut, SessionsStay
    <3> QED
      BY <2>1, <2>2, <3>1 DEF Live, Expired, SessionsStay
  <2>4. ASSUME NEW r \in Requests, NewSessionBy(r)
        PROVE  sessions'[Len(sessions) + 1].user # u
    BY <1>1, <2>4 DEF NewSessionBy, NewSession, LoggedOut
  <2>5. \A s \in DOMAIN sessions' : sessions'[s].user = u => ~Live(s)'
    <3>1. CASE Len(sessions') = Len(sessions)
      BY <2>1, <2>3, <3>1
    <3>2. ASSUME NEW r \in Requests, NewSessionBy(r)
          PROVE  \A s \in DOMAIN sessions' : sessions'[s].user = u => ~Live(s)'
      <4>1. Len(sessions') = Len(sessions) + 1
        BY <3>2 DEF NewSessionBy
      <4>2. \A s \in DOMAIN sessions' : s \in 1 .. Len(sessions) \/ s = Len(sessions) + 1
        BY <2>1, <4>1
      <4> QED
        BY <2>3, <2>4, <3>2, <4>2
    <3> QED
      BY <1>1, <3>1, <3>2, SessionsStep
  <2>6. ASSUME NEW r \in Requests PROVE req'[r].user # u
    <3>1. req[r].user # u
      BY <1>1 DEF LoggedOut
    <3>2. CASE req'[r] = Idle
      BY <3>2, NoneAssumption DEF Idle
    <3>3. CASE Begins(req'[r])
      BY <3>3 DEF Begins
    <3>4. CASE Reads(req'[r])
      BY <1>1, <2>1, <3>4 DEF Reads, LoggedOut
    <3> QED
      BY <1>1, <3>1, <3>2, <3>3, <3>4, RequestsStep
  <2> QED
    BY <2>5, <2>6 DEF LoggedOut
<1>2. AuthInv /\ [Next]_vars => [\A u \in Emails : LoggedOut(u) => Back(u)]_vars
  BY <1>1
<1> QED
  BY <1>2, AuthInvariant, PTL DEF Spec, LoggedOutUntilLogin
-----------------------------------------------------------------------------
(* No user is forgotten: the safety that WalletArrives rests on. *)

(* The user has a wallet, or the message or ProvisionUser has failed. *)
Handled(u) == address[u] # None \/ u \in unannounced \cup refused

(* A request is still to write the message, or the wallet to read it. *)
OnItsWay(u) ==
    \/ \E r \in Requests : At(r, "publish") /\ req[r].user = u
    \/ \E i \in committed + 1 .. Len(topic) : topic[i] = u

(* Every user has a wallet, or it is on its way, or a failure has been     *)
(* dropped (Register, PublishUserCreated, the wallet's Run).               *)
NobodyIsForgotten ==
    /\ \A u \in users : Handled(u) \/ OnItsWay(u)
    /\ consumer = "commit" => Handled(Message)

(* ProvisionUser: what becomes of the addresses. *)
LEMMA ProvisionedAddress ==
    ASSUME AuthInv, ProvisionUser
    PROVE  /\ Message \in Emails /\ address'[Message] # None
           /\ \A u \in Emails : address[u] # None => address'[u] = address[u]
<1>1. /\ topic \in Seq(Emails) /\ committed \in 0 .. Len(topic) /\ committed < Len(topic)
      /\ address \in [Emails -> Nat \cup {None}] /\ generated \in Nat
  BY DEF AuthInv, Consumer, ProvisionUser
<1>2. Message \in Emails
  BY <1>1 DEF Message
<1>3. generated' \in Nat /\ generated' # None
  BY <1>1, NoneAssumption DEF ProvisionUser
<1> DEFINE m == Message
           a == IF address[m] = None THEN generated' ELSE address[m]
<1>4. address' = [address EXCEPT ![m] = a]
  BY DEF ProvisionUser
<1>5. a # None /\ (address[m] # None => a = address[m])
  BY <1>3
<1> HIDE DEF m, a
<1>6. \A u \in Emails : address'[u] = IF u = m THEN a ELSE address[u]
  BY <1>1, <1>4
<1> QED
  BY <1>2, <1>5, <1>6 DEF m

LEMMA HandledForGood ==
    ASSUME AuthInv, [Next]_vars
    PROVE  /\ \A u \in Emails : address[u] # None => address'[u] = address[u]
           /\ unannounced \subseteq unannounced' /\ refused \subseteq refused'
           /\ \A u \in Emails : Handled(u) => Handled(u)'
<1>1. /\ ProvisionUser \/ UNCHANGED address
      /\ unannounced \subseteq unannounced' /\ refused \subseteq refused'
  BY DEF Next, Register, Login, PublishUserCreated, PublishTwice, PublishFails, issueSession,
         AnswerWith, Refresh, RotateRefreshSession, Fail, RevokeRefreshSession, Tick,
         FetchMessage, ProvisionUser, ProvisionFails, CommitMessages, Stop, vars, auth, wallet
<1>2. \A u \in Emails : address[u] # None => address'[u] = address[u]
  BY <1>1, ProvisionedAddress
<1>3. \A u \in Emails : Handled(u) => Handled(u)'
  BY <1>1, <1>2 DEF Handled
<1> QED
  BY <1>1, <1>2, <1>3

(* A step of a request, of the clock, or of the consumer up to the message *)
(* it is at: the topic only grows, the offset stays, and a request leaves  *)
(* "publish" with its message written or its user unannounced.             *)
LEMMA BesideTheWallet ==
    ASSUME AuthInv, [Next]_vars, NobodyIsForgotten,
           topic' \in Seq(Emails), Len(topic) <= Len(topic'), committed' = committed,
           \A i \in 1 .. Len(topic) : topic'[i] = topic[i],
           consumer' = "commit" => consumer = "commit",
           \A r \in Requests : At(r, "publish") =>
               \/ req'[r] = req[r]
               \/ req[r].user \in unannounced'
               \/ \E i \in committed + 1 .. Len(topic') : topic'[i] = req[r].user,
           \A u \in users' \ users : \E r \in Requests :
               req'[r].pc = "publish" /\ req'[r].user = u
    PROVE  NobodyIsForgotten'
<1>1. /\ topic \in Seq(Emails) /\ committed \in 0 .. Len(topic) /\ users \subseteq Emails
      /\ consumer = "commit" => committed < Len(topic)
  BY DEF AuthInv, Tables, Consumer
<1>2. \A u \in Emails : Handled(u) => Handled(u)'
  BY HandledForGood
<1>3. ASSUME NEW u \in users PROVE Handled(u)' \/ OnItsWay(u)'
  <2>1. CASE Handled(u)
    BY <1>1, <1>2, <2>1
  <2>2. ASSUME NEW r \in Requests, At(r, "publish"), req[r].user = u
        PROVE  Handled(u)' \/ OnItsWay(u)'
    <3>1. CASE req'[r] = req[r]
      BY <2>2, <3>1 DEF OnItsWay, At
    <3>2. CASE u \in unannounced'
      BY <3>2 DEF Handled
    <3>3. CASE \E i \in committed + 1 .. Len(topic') : topic'[i] = u
      BY <3>3 DEF OnItsWay
    <3> QED
      BY <2>2, <3>1, <3>2, <3>3
  <2>3. ASSUME NEW i \in committed + 1 .. Len(topic), topic[i] = u
        PROVE  OnItsWay(u)'
    <3>1. i \in committed' + 1 .. Len(topic') /\ topic'[i] = u
      BY <1>1, <2>3
    <3> QED
      BY <3>1 DEF OnItsWay
  <2> QED
    BY <2>1, <2>2, <2>3 DEF NobodyIsForgotten, OnItsWay
<1>4. \A u \in users' \ users : OnItsWay(u)'
  BY DEF OnItsWay, At
<1>5. ASSUME consumer' = "commit" PROVE Handled(Message)'
  <2>1. Message \in Emails /\ Message' = Message
    BY <1>1, <1>5 DEF Message
  <2>2. Handled(Message)
    BY <1>5 DEF NobodyIsForgotten
  <2> QED
    BY <1>2, <2>1, <2>2 DEF Handled
<1> QED
  BY <1>3, <1>4, <1>5 DEF NobodyIsForgotten


LEMMA NobodyForgottenStep ==
    ASSUME AuthInv, NobodyIsForgotten, [Next]_vars
    PROVE  NobodyIsForgotten'
<1>1. /\ topic \in Seq(Emails) /\ committed \in 0 .. Len(topic) /\ Len(topic) \in Nat
      /\ users \subseteq Emails /\ req \in [Requests -> AuthRequest]
      /\ consumer # "fetch" => committed < Len(topic)
  BY DEF AuthInv, Tables, Consumer, RequestsAreUsers
<1>2. \A u \in Emails : Handled(u) => Handled(u)'
  BY HandledForGood
<1>3. ASSUME UNCHANGED <<topic, committed>>, consumer' = "commit" => consumer = "commit",
             \A r \in Requests : At(r, "publish") =>
                 req'[r] = req[r] \/ req[r].user \in unannounced',
             \A u \in users' \ users : \E r \in Requests :
                 req'[r].pc = "publish" /\ req'[r].user = u
      PROVE  NobodyIsForgotten'
  BY <1>1, <1>3, BesideTheWallet
<1>4. CASE UNCHANGED <<users, topic, committed, req>> /\ (consumer' = consumer \/ consumer' = "fetch")
  BY <1>3, <1>4
<1>5. ASSUME NEW r \in Requests, NEW u \in Emails, Register(r, u) PROVE NobodyIsForgotten'
  <2> DEFINE q == [pc |-> "publish", op |-> "register", user |-> u, session |-> 0]
  <2>1. /\ At(r, "idle") /\ users' = users \cup {u} /\ req' = [req EXCEPT ![r] = q]
        /\ UNCHANGED <<topic, committed, consumer>>
    BY <1>5 DEF Register, wallet
  <2>2. q.pc = "publish" /\ q.user = u
    OBVIOUS
  <2> HIDE DEF q
  <2>3. \A o \in Requests : req'[o] = IF o = r THEN q ELSE req[o]
    BY <1>1, <2>1
  <2> QED
    BY <1>3, <2>1, <2>2, <2>3 DEF At
<1>6. ASSUME NEW r \in Requests, ~At(r, "publish") \/ req[r].user \in unannounced',
             NEW q, req' = [req EXCEPT ![r] = q],
             UNCHANGED <<users, topic, committed, consumer>>
      PROVE  NobodyIsForgotten'
  <2>1. \A o \in Requests : o # r => req'[o] = req[o]
    BY <1>1, <1>6
  <2> QED
    BY <1>3, <1>6, <2>1
<1>7. ASSUME NEW r \in Requests, NEW u \in Emails, Login(r, u) PROVE NobodyIsForgotten'
  BY <1>6, <1>7 DEF Login, At, wallet
<1>8. ASSUME NEW r \in Requests, NEW s \in DOMAIN sessions, Refresh(r, s)
      PROVE  NobodyIsForgotten'
  BY <1>6, <1>8 DEF Refresh, At, wallet
<1>9. ASSUME NEW r \in Requests, issueSession(r) \/ RotateRefreshSession(r)
      PROVE  NobodyIsForgotten'
  BY <1>6, <1>9 DEF issueSession, RotateRefreshSession, AnswerWith, At, wallet
<1>10. ASSUME NEW r \in Requests, PublishFails(r) \/ Fail(r) PROVE NobodyIsForgotten'
  BY <1>6, <1>10 DEF PublishFails, Fail, wallet
<1>11. ASSUME NEW r \in Requests, PublishUserCreated(r) \/ PublishTwice(r)
       PROVE  NobodyIsForgotten'
  <2> DEFINE u == req[r].user
             q == [req[r] EXCEPT !.pc = "issue"]
  <2>1. /\ At(r, "publish") /\ req' = [req EXCEPT ![r] = q]
        /\ topic' = Append(topic, u) \/ topic' = topic \o <<u, u>>
        /\ UNCHANGED <<users, committed, consumer>>
    BY <1>11 DEF PublishUserCreated, PublishTwice, wallet
  <2>2. u \in Emails
    BY <1>1, <2>1 DEF AuthInv, RequestsAreUsers, At
  <2> HIDE DEF q, u
  <2>3. /\ topic' \in Seq(Emails) /\ Len(topic) + 1 \in committed + 1 .. Len(topic')
        /\ Len(topic) <= Len(topic')
        /\ topic'[Len(topic) + 1] = u
        /\ \A i \in 1 .. Len(topic) : topic'[i] = topic[i]
    <3>1. CASE topic' = Append(topic, u)
      BY <1>1, <2>2, <3>1
    <3>2. CASE topic' = topic \o <<u, u>>
      BY <1>1, <2>2, <3>2
    <3> QED
      BY <2>1, <3>1, <3>2
  <2>4. \A o \in Requests : o # r => req'[o] = req[o]
    BY <1>1, <2>1
  <2>5. \A o \in Requests : At(o, "publish") =>
           \/ req'[o] = req[o]
           \/ \E i \in committed + 1 .. Len(topic') : topic'[i] = req[o].user
    BY <2>3, <2>4 DEF u
  <2> QED
    BY <2>1, <2>3, <2>5, BesideTheWallet
<1>12. ASSUME ProvisionUser \/ ProvisionFails PROVE NobodyIsForgotten'
  <2>1. UNCHANGED <<users, topic, committed, req>> /\ committed < Len(topic)
    BY <1>1, <1>12 DEF ProvisionUser, ProvisionFails, auth
  <2>2. Message \in Emails /\ Message' = Message
    BY <1>1, <2>1 DEF Message
  <2>3. Handled(Message)'
    <3>1. CASE ProvisionUser
      BY <2>2, <3>1, ProvisionedAddress DEF Handled
    <3>2. CASE ProvisionFails
      BY <2>2, <3>2 DEF ProvisionFails, Handled
    <3> QED
      BY <1>12, <3>1, <3>2
  <2>4. \A u \in users : OnItsWay(u) => OnItsWay(u)'
    BY <2>1 DEF OnItsWay, At
  <2> QED
    BY <1>1, <1>2, <2>1, <2>3, <2>4 DEF NobodyIsForgotten
<1>13. ASSUME CommitMessages PROVE NobodyIsForgotten'
  <2>1. /\ UNCHANGED <<users, topic, req>> /\ committed' = committed + 1
        /\ consumer' = "fetch" /\ Handled(Message)
    BY <1>13 DEF CommitMessages, auth, NobodyIsForgotten
  <2>2. ASSUME NEW u \in users, ~Handled(u) PROVE OnItsWay(u)'
    <3>1. CASE \E r \in Requests : At(r, "publish") /\ req[r].user = u
      BY <2>1, <3>1 DEF OnItsWay, At
    <3>2. ASSUME NEW i \in committed + 1 .. Len(topic), topic[i] = u PROVE OnItsWay(u)'
      <4>1. i # committed + 1
        BY <2>1, <2>2, <3>2 DEF Message
      <4>2. i \in committed' + 1 .. Len(topic')
        BY <1>1, <2>1, <3>2, <4>1
      <4> QED
        BY <2>1, <3>2, <4>2 DEF OnItsWay
    <3> QED
      BY <2>2, <3>1, <3>2 DEF NobodyIsForgotten, OnItsWay
  <2> QED
    BY <1>1, <1>2, <2>1, <2>2 DEF NobodyIsForgotten
<1>14. \/ UNCHANGED <<users, topic, committed, req>>
          /\ (consumer' = consumer \/ consumer' = "fetch" \/ consumer' = "provision")
       \/ \E r \in Requests :
             \/ \E u \in Emails : Register(r, u) \/ Login(r, u)
             \/ PublishUserCreated(r) \/ PublishTwice(r) \/ PublishFails(r)
             \/ issueSession(r) \/ RotateRefreshSession(r) \/ Fail(r)
             \/ \E s \in DOMAIN sessions : Refresh(r, s)
       \/ ProvisionUser \/ ProvisionFails \/ CommitMessages
  BY DEF Next, RevokeRefreshSession, Tick, FetchMessage, Stop, vars, auth, wallet
<1>15. CASE UNCHANGED <<users, topic, committed, req>> /\ consumer' = "provision"
  BY <1>3, <1>15
<1> QED
  BY <1>4, <1>5, <1>7, <1>8, <1>9, <1>10, <1>11, <1>12, <1>13, <1>14, <1>15

(* The safety that WalletArrives rests on: a user who has registered has a *)
(* wallet, or a request is still to publish user.created, or the message   *)
(* is in the topic at or after the committed offset; otherwise one of the  *)
(* failures that Register and the wallet's Run drop has happened.  A stop  *)
(* of the wallet between ProvisionUser and CommitMessages loses nobody.    *)
THEOREM NobodyIsForgottenHolds == Spec => []NobodyIsForgotten
<1>1. Init => NobodyIsForgotten
  BY DEF Init, NobodyIsForgotten
<1>2. AuthInv /\ NobodyIsForgotten /\ [Next]_vars => NobodyIsForgotten'
  BY NobodyForgottenStep
<1> QED
  BY <1>1, <1>2, AuthInvariant, PTL DEF Spec

(* The safety part of WalletArrives: a deposit address, once stored, is    *)
(* never replaced, however often user.created is delivered.                *)
THEOREM AddressIsKeptHolds == Spec => AddressIsKept
<1>1. AuthInv /\ [Next]_vars
      => [\A u \in Emails : address[u] # None => address'[u] = address[u]]_vars
  BY HandledForGood
<1> QED
  BY <1>1, AuthInvariant, PTL DEF Spec, AddressIsKept
-----------------------------------------------------------------------------
(* AccessTokens. *)

Kids == {keyIDs[k] : k \in Keys} \cup {"none"}

Token == [kid : Kids, key : Nat, expires : Nat, admin : BOOLEAN]

TokenRoutes == {UserHandlers, AdminHandlers, InternalHandlers,
                RequiredUserID, OptionalUserID, WSHandler}

CallRecord ==
    [pc : {"idle", "next", "fetch", "store", "lookup", "served", "refused"},
     stage : 0 .. 2, token : Token, header : BOOLEAN, route : TokenRoutes \cup {{}},
     began : Nat, cached : Nat, answer : Nat, how : Hows]

(* The keys came into use one after the other. *)
KeysInTurn ==
    /\ service \in {"table-manager", "wallet"}
    /\ clock \in 0 .. MaxClock
    /\ current \in Keys
    /\ since \in [Keys -> Nat \cup {Never}]
    /\ \A k \in 1 .. current : since[k] \in 0 .. clock
    /\ \A j, k \in 1 .. current : j <= k => since[j] <= since[k]
    /\ fetchFailures \in 0 .. MaxFetchFailures

(* A key in the cache was the auth-service's when the fetch began. *)
CacheOK ==
    /\ keys \in 0 .. current /\ newest \in keys .. current
    /\ fetchedAt \in (0 .. clock) \cup {Never}
    /\ keys # 0 => fetchedAt # Never
    /\ keys # 0 /\ keys < current => fetchedAt - FetchTime <= since[keys + 1]

(* The token is one of the auth-service's, or not signed by it; the call   *)
(* has not taken longer than a fetch may.                                  *)
Current(c) ==
    /\ c \in CallRecord
    /\ c.token.key <= current
    /\ c.token.key # 0 => c.token.kid = keyIDs[c.token.key]
    /\ c.began <= clock
    /\ c.pc # "idle" => clock - c.began <= FetchTime
    /\ c.cached <= current /\ c.answer <= current

(* What ServedCallsAreAuthentic asks of a call that is served, but for the *)
(* admin claim.                                                            *)
Trusted(c, how) ==
    /\ how = "anonymous" => c.route = OptionalUserID
    /\ how = "legacy" => AllowLegacy /\ c.token = NoToken
    /\ how = "internal" => c.route = InternalHandlers
    /\ how \notin {"anonymous", "legacy", "internal"} =>
          /\ c.token.key # 0
          /\ c.began <= c.token.expires
          /\ Replaced(c.token.key) /\ how # "old key" => ReplacedFor(c) <= CacheAge + FetchTime

(* What GoodTokensAreServed asks of a call that is refused. *)
Justified(c, how) ==
    c.token.key = current /\ c.token.expires >= c.began
        /\ c.route # InternalHandlers /\ how # "forbidden" =>
      \/ how \in {"no key", "old key", "reverted"}
      \/ /\ how = "cache"
         /\ \E k \in 1 .. current - 1 : keyIDs[k] = keyIDs[current]
         /\ c.began - since[current] <= CacheAge + FetchTime

(* What a call knows at each step: the answer it has fetched is no older   *)
(* than its token's key or than its beginning, and so is what it finds     *)
(* stored afterwards, by itself or by another call.                        *)
CallOK(c) ==
    /\ Current(c)
    /\ c.pc \in {"fetch", "store", "lookup"} => c.began <= c.token.expires
    /\ c.pc = "store" => /\ c.answer # 0 /\ c.token.key <= c.answer
                         /\ c.answer < current => c.began <= since[c.answer + 1]
    /\ c.pc = "lookup" => /\ c.token.key <= newest
                          /\ fetchedAt # Never /\ c.began <= fetchedAt
    /\ c.pc = "served" => /\ Trusted(c, c.how)
                          /\ c.how \notin {"anonymous", "legacy", "internal"}
                                /\ c.route = AdminHandlers => c.token.admin
    /\ c.pc = "refused" => Justified(c, c.how)

TokensInv ==
    /\ KeysInTurn /\ CacheOK
    /\ call \in [Calls -> CallRecord] /\ \A i \in Calls : CallOK(call[i])
-----------------------------------------------------------------------------
(* The routes and the tokens. *)

LEMMA RoutesDiffer ==
    /\ AdminHandlers # RequiredUserID /\ AdminHandlers # OptionalUserID
    /\ {} \notin TokenRoutes
<1>1. "AdminFaucet" \in AdminHandlers /\ "AdminFaucet" \notin RequiredUserID
      /\ "AdminFaucet" \notin OptionalUserID
  BY DEF AdminHandlers, RequiredUserID, OptionalUserID
<1>2. {} \notin TokenRoutes
  BY DEF TokenRoutes, UserHandlers, AdminHandlers, InternalHandlers, RequiredUserID,
         OptionalUserID, WSHandler
<1> QED
  BY <1>1, <1>2

(* A token of the auth-service, or one it has not signed. *)
Known(token) ==
    /\ token \in Token
    /\ token.key <= current
    /\ token.key # 0 => token.kid = keyIDs[token.key]

LEMMA NoTokenKnown == KeysInTurn => Known(NoToken) /\ NoToken.key = 0
BY DEF KeysInTurn, Known, NoToken, Token, Kids, Keys

LEMMA IssuedTokensKnown ==
    ASSUME KeysInTurn, NEW claims \in SUBSET BOOLEAN, NEW token \in IssuedTokens(claims)
    PROVE  Known(token)
<1>1. PICK k \in 1 .. current :
         token \in {[kid |-> keyIDs[k], key |-> k, expires |-> t + TokenTTL, admin |-> a] :
                       t \in since[k] .. (IF Replaced(k) THEN since[k + 1] ELSE clock),
                       a \in claims}
  BY DEF IssuedTokens
<1>2. PICK t \in since[k] .. (IF Replaced(k) THEN since[k + 1] ELSE clock), a \in claims :
         token = [kid |-> keyIDs[k], key |-> k, expires |-> t + TokenTTL, admin |-> a]
  BY <1>1
<1>3. k \in Keys /\ k \in Nat /\ k <= current /\ keyIDs[k] \in Kids
  BY TokenBoundsAssumption DEF KeysInTurn, Keys, Kids
<1>4. t \in Nat
  BY DEF KeysInTurn
<1>5. t + TokenTTL \in Nat
  BY <1>4, TimesAssumption
<1> QED
  BY <1>2, <1>3, <1>5 DEF Known, Token

LEMMA TokensForKnown ==
    ASSUME KeysInTurn, NEW route \in Routes, NEW token \in TokensFor(route)
    PROVE  Known(token) /\ route \in TokenRoutes
<1>1. route \in TokenRoutes
  BY DEF Routes, TokenRoutes
<1>2. Known(UnsignedToken)
  BY TokenBoundsAssumption DEF KeysInTurn, Known, UnsignedToken, Token, Kids, Keys
<1>3. token \in {NoToken, UnsignedToken} \cup IssuedTokens({FALSE}) \cup IssuedTokens(BOOLEAN)
  BY <1>1 DEF TokensFor, TokenRoutes
<1> QED
  BY <1>1, <1>2, <1>3, NoTokenKnown, IssuedTokensKnown
-----------------------------------------------------------------------------
(* How a call is refused or accepted. *)

LEMMA IdleCallType ==
    KeysInTurn => /\ IdleCall \in CallRecord /\ IdleCall.pc = "idle" /\ IdleCall.token = NoToken
                  /\ IdleCall.began = 0 /\ IdleCall.cached = 0 /\ IdleCall.answer = 0
<1> SUFFICES ASSUME KeysInTurn PROVE IdleCall \in CallRecord
  BY DEF IdleCall
<1>1. NoToken \in Token /\ "none" \in Hows
  BY NoTokenKnown DEF Known, Hows
<1> QED
  BY <1>1 DEF IdleCall, CallRecord

LEMMA DoneType ==
    ASSUME KeysInTurn, NEW c, Current(c), NEW pc \in {"served", "refused"}, NEW how \in Hows,
           clock - c.began <= FetchTime
    PROVE  LET d == Done(c, pc, how)
           IN  /\ Current(d) /\ d.pc = pc /\ d.how = how
               /\ d.token = c.token /\ d.route = c.route /\ d.began = c.began
<1>1. c \in CallRecord /\ current \in Nat
  BY DEF Current, KeysInTurn, Keys
<1> DEFINE d == Done(c, pc, how)
<1>2. IdleCall \in CallRecord /\ IdleCall.cached = 0 /\ IdleCall.answer = 0
  BY IdleCallType
<1>3. c.token \in Token /\ c.route \in TokenRoutes \cup {{}} /\ c.began \in Nat
  BY <1>1 DEF CallRecord
<1>4. d \in CallRecord
  BY <1>2, <1>3 DEF CallRecord, Done
<1>5. /\ d.pc = pc /\ d.how = how /\ d.token = c.token /\ d.route = c.route
      /\ d.began = c.began /\ d.cached = 0 /\ d.answer = 0
  BY <1>2 DEF CallRecord, Done
<1> HIDE DEF d
<1>6. Current(d)
  BY <1>1, <1>4, <1>5 DEF Current
<1> QED
  BY <1>5, <1>6 DEF d

LEMMA RefuseOK ==
    ASSUME KeysInTurn, NEW c, Current(c), NEW how \in Hows, clock - c.began <= FetchTime,
           Justified(c, how)
    PROVE  CallOK(Refuse(c, how))
<1> DEFINE d == Done(c, "refused", how)
<1>1. /\ Current(d) /\ d.pc = "refused" /\ d.how = how
      /\ d.token = c.token /\ d.route = c.route /\ d.began = c.began
  BY DoneType
<1> HIDE DEF d
<1>2. Justified(d, how)
  BY <1>1 DEF Justified
<1>3. CallOK(d)
  BY <1>1, <1>2 DEF CallOK
<1> QED
  BY <1>3 DEF d, Refuse

LEMMA AcceptOK ==
    ASSUME KeysInTurn, NEW c, Current(c), NEW how \in Hows, clock - c.began <= FetchTime,
           Trusted(c, how)
    PROVE  CallOK(Accept(c, how))
<1>1. CASE c.route = AdminHandlers /\ ~c.token.admin
  <2>1. Justified(c, "forbidden") /\ "forbidden" \in Hows
    BY DEF Justified, Hows
  <2>2. Accept(c, how) = Refuse(c, "forbidden")
    BY <1>1 DEF Accept
  <2> QED
    BY <2>1, <2>2, RefuseOK
<1>2. CASE ~(c.route = AdminHandlers /\ ~c.token.admin) /\ c.stage < LastStage(c)
  <2> DEFINE d == [c EXCEPT !.pc = "next", !.cached = 0, !.answer = 0]
  <2>1. c \in CallRecord /\ current \in Nat
    BY DEF Current, KeysInTurn, Keys
  <2>2. /\ d \in CallRecord /\ d.pc = "next" /\ d.token = c.token /\ d.began = c.began
        /\ d.cached = 0 /\ d.answer = 0
    BY <2>1 DEF CallRecord
  <2>3. Accept(c, how) = d
    BY <1>2 DEF Accept
  <2> HIDE DEF d
  <2>4. Current(d)
    BY <2>1, <2>2 DEF Current
  <2> QED
    BY <2>2, <2>3, <2>4 DEF CallOK
<1>3. CASE ~(c.route = AdminHandlers /\ ~c.token.admin) /\ ~(c.stage < LastStage(c))
  <2> DEFINE d == Done(c, "served", how)
  <2>1. /\ Current(d) /\ d.pc = "served" /\ d.how = how
        /\ d.token = c.token /\ d.route = c.route /\ d.began = c.began
    BY DoneType
  <2>2. Accept(c, how) = d
    BY <1>3 DEF Accept
  <2> HIDE DEF d
  <2>3. Trusted(d, how)
    BY <2>1 DEF Trusted, ReplacedFor
  <2>4. d.route = AdminHandlers => d.token.admin
    BY <1>3, <2>1
  <2> QED
    BY <2>1, <2>2, <2>3, <2>4 DEF CallOK
<1> QED
  BY <1>1, <1>2, <1>3

LEMMA VerifyOK ==
    ASSUME KeysInTurn, NEW c, Current(c), NEW how \in Hows, clock - c.began <= FetchTime,
           NEW key, c.token.key = key => Trusted(c, how),
           c.token.key # key => Justified(c, how)
    PROVE  CallOK(Verify(c, key, how))
BY AcceptOK, RefuseOK DEF Verify

(* A key that was fetched within CacheAge was replaced no longer ago than  *)
(* that and a fetch.                                                       *)
LEMMA CachedKeyIsRecent ==
    ASSUME KeysInTurn, CacheOK, keys # 0, keys < current,
           NEW b \in Nat, fetchedAt # Never => b - fetchedAt <= CacheAge
    PROVE  /\ b - since[keys + 1] <= CacheAge + FetchTime
           /\ b - since[current] <= CacheAge + FetchTime
<1>1. /\ keys \in Nat /\ current \in Nat /\ keys + 1 \in 1 .. current /\ current \in 1 .. current
      /\ keys + 1 <= current
  BY DEF KeysInTurn, CacheOK, Keys
<1>2. since[keys + 1] \in Nat /\ since[current] \in Nat /\ since[keys + 1] <= since[current]
  BY <1>1 DEF KeysInTurn
<1>3. fetchedAt \in Nat /\ fetchedAt - FetchTime <= since[keys + 1]
  BY DEF CacheOK, KeysInTurn
<1> QED
  BY <1>2, <1>3, TimesAssumption DEF CacheOK

LEMMA keyForOK ==
    ASSUME KeysInTurn, CacheOK, NEW c, Current(c), c.began = clock, c.began <= c.token.expires
    PROVE  CallOK(keyFor(c))
<1>1. /\ c \in CallRecord /\ clock \in Nat /\ current \in Nat /\ c.began \in Nat
      /\ clock - c.began <= FetchTime
  BY TimesAssumption DEF Current, KeysInTurn, Keys, CallRecord
<1>2. CASE KeyInCache(c.token.kid) # 0 /\ ~NeedsRefresh
  <2>1. keys # 0 /\ keyIDs[keys] = c.token.kid
    BY <1>2 DEF KeyInCache
  <2>2. fetchedAt # Never /\ fetchedAt \in Nat /\ c.began - fetchedAt <= CacheAge
    <3>1. fetchedAt # Never /\ ~(clock - fetchedAt > CacheAge)
      BY <1>2 DEF NeedsRefresh
    <3>2. fetchedAt \in Nat
      BY <3>1 DEF CacheOK, KeysInTurn
    <3> QED
      BY <1>1, <3>1, <3>2, TimesAssumption
  <2>3. keys < current => /\ c.began - since[keys + 1] <= CacheAge + FetchTime
                          /\ c.began - since[current] <= CacheAge + FetchTime
    BY <1>1, <2>1, <2>2, CachedKeyIsRecent
  <2>4. c.token.key = keys => Trusted(c, "cache")
    BY <2>1, <2>3 DEF Trusted, Replaced, ReplacedFor
  <2>5. c.token.key # keys => Justified(c, "cache")
    <3> SUFFICES ASSUME c.token.key # keys, c.token.key = current
                 PROVE  /\ \E k \in 1 .. current - 1 : keyIDs[k] = keyIDs[current]
                        /\ c.began - since[current] <= CacheAge + FetchTime
      BY DEF Justified
    <3>1. keys \in 1 .. current - 1 /\ keys < current
      BY <1>1, <2>1 DEF CacheOK
    <3>2. keyIDs[keys] = keyIDs[current]
      BY <1>1, <2>1 DEF Current, KeysInTurn, Keys
    <3> QED
      BY <2>3, <3>1, <3>2
  <2>6. keyFor(c) = Verify(c, keys, "cache") /\ "cache" \in Hows
    BY <1>2 DEF keyFor, Hows
  <2> QED
    BY <1>1, <2>4, <2>5, <2>6, VerifyOK
<1>3. CASE ~(KeyInCache(c.token.kid) # 0 /\ ~NeedsRefresh)
  <2> DEFINE k == KeyInCache(c.token.kid)
             d == [c EXCEPT !.pc = "fetch", !.cached = k]
  <2>1. k \in Nat /\ k <= current
    BY <1>1 DEF KeyInCache, CacheOK
  <2> HIDE DEF k
  <2>2. /\ d \in CallRecord /\ d.pc = "fetch" /\ d.token = c.token /\ d.began = c.began
        /\ d.cached = k /\ d.answer = c.answer
    BY <1>1, <2>1 DEF CallRecord
  <2>3. keyFor(c) = d
    BY <1>3 DEF keyFor, k
  <2> HIDE DEF d
  <2>4. Current(d)
    BY <1>1, <2>1, <2>2 DEF Current
  <2> QED
    BY <2>2, <2>3, <2>4 DEF CallOK
<1> QED
  BY <1>2, <1>3

LEMMA verifyTokenOK ==
    ASSUME KeysInTurn, CacheOK, NEW c, Current(c), c.began = clock
    PROVE  CallOK(verifyToken(c))
<1>1. /\ c \in CallRecord /\ clock \in Nat /\ c.token \in Token /\ c.token.expires \in Nat
      /\ c.began \in Nat /\ clock - c.began <= FetchTime
  BY TimesAssumption DEF Current, KeysInTurn, CallRecord, Token
<1>2. CASE c.token.expires < clock
  <2>1. Justified(c, "claims") /\ "claims" \in Hows
    BY <1>1, <1>2 DEF Justified, Hows
  <2> QED
    BY <1>1, <1>2, <2>1, RefuseOK DEF verifyToken
<1>3. CASE ~(c.token.expires < clock)
  BY <1>1, <1>3, keyForOK DEF verifyToken
<1> QED
  BY <1>2, <1>3

LEMMA CheckOK ==
    ASSUME KeysInTurn, CacheOK, NEW c, Current(c), c.began = clock
    PROVE  CallOK(Check(c))
<1>1. /\ c \in CallRecord /\ clock \in Nat /\ c.began \in Nat /\ clock - c.began <= FetchTime
      /\ current # 0 /\ NoToken.key = 0
  BY NoTokenKnown, TimesAssumption DEF Current, KeysInTurn, CallRecord, Keys
<1>2. {"missing", "legacy", "anonymous", "internal"} \subseteq Hows
  BY DEF Hows
<1>3. ASSUME c.token = NoToken PROVE CallOK(Refuse(c, "missing"))
  <2>1. Justified(c, "missing")
    BY <1>1, <1>3 DEF Justified
  <2> QED
    BY <1>1, <1>2, <2>1, RefuseOK
<1>4. CallOK(Authenticate(c))
  <2>1. CASE c.token # NoToken
    BY <2>1, verifyTokenOK DEF Authenticate
  <2>2. CASE c.token = NoToken /\ AllowLegacy /\ c.header
    <3>1. Trusted(c, "legacy")
      BY <2>2 DEF Trusted
    <3>2. Authenticate(c) = Accept(c, "legacy")
      BY <2>2 DEF Authenticate
    <3> QED
      BY <1>1, <1>2, <3>1, <3>2, AcceptOK
  <2>3. CASE c.token = NoToken /\ ~(AllowLegacy /\ c.header) /\ routeRequiresAuth(c.route)
    BY <1>3, <2>3 DEF Authenticate
  <2>4. CASE c.token = NoToken /\ ~(AllowLegacy /\ c.header) /\ ~routeRequiresAuth(c.route)
    <3>1. Trusted(c, "anonymous")
      BY <2>4 DEF Trusted, routeRequiresAuth
    <3>2. Authenticate(c) = Accept(c, "anonymous")
      BY <2>4 DEF Authenticate
    <3> QED
      BY <1>1, <1>2, <3>1, <3>2, AcceptOK
  <2> QED
    BY <2>1, <2>2, <2>3, <2>4
<1>5. CallOK(AuthenticateRequest(c))
  BY <1>3, verifyTokenOK DEF AuthenticateRequest
<1>6. ASSUME c.route = InternalHandlers PROVE CallOK(internalAuthorized(c))
  <2>1. Trusted(c, "internal") /\ Justified(c, "missing")
    BY <1>6 DEF Trusted, Justified
  <2> QED
    BY <1>1, <1>2, <2>1, AcceptOK, RefuseOK DEF internalAuthorized
<1>7. CASE service = "table-manager"
  BY <1>4, <1>7 DEF Check
<1>8. CASE service = "wallet" /\ c.route = InternalHandlers
  BY <1>6, <1>8 DEF Check
<1>9. CASE service = "wallet" /\ c.route # InternalHandlers
  BY <1>5, <1>9 DEF Check
<1> QED
  BY <1>7, <1>8, <1>9 DEF KeysInTurn
-----------------------------------------------------------------------------
(* The invariant, action by action. *)

LEMMA InitIsTokens == TokensInit => TokensInv
<1> SUFFICES ASSUME TokensInit PROVE TokensInv
  OBVIOUS
<1>1. /\ 1 \in Keys /\ 0 \in 0 .. MaxClock /\ 0 \in 0 .. MaxFetchFailures
  BY TokenBoundsAssumption DEF Keys
<1>2. /\ clock = 0 /\ current = 1 /\ keys = 0 /\ newest = 0 /\ fetchedAt = Never
      /\ fetchFailures = 0 /\ service \in {"table-manager", "wallet"}
      /\ since = [k \in Keys |-> IF k = 1 THEN 0 ELSE Never]
      /\ call = [i \in Calls |-> IdleCall]
  BY DEF TokensInit
<1>3. KeysInTurn
  <2>1. since \in [Keys -> Nat \cup {Never}] /\ since[1] = 0 /\ \A k \in 1 .. current : k = 1
    BY <1>1, <1>2
  <2> QED
    BY <1>1, <1>2, <2>1 DEF KeysInTurn
<1>4. CacheOK
  BY <1>2 DEF CacheOK
<1>5. CallOK(IdleCall)
  BY <1>2, <1>3, IdleCallType, NoTokenKnown DEF CallOK, Current
<1> QED
  BY <1>2, <1>3, <1>4, <1>5, IdleCallType DEF TokensInv

(* What the calls know is about the clock, the keys and the cache. *)
LEMMA CallsFrame ==
    ASSUME UNCHANGED <<keyIDs, clock, current, since, fetchedAt, newest>>
    PROVE  CallRecord' = CallRecord /\ \A c : CallOK(c)' <=> CallOK(c)
<1>1. CallRecord' = CallRecord
  BY DEF CallRecord, Token, Kids, Keys
<1>2. \A c : Current(c)' <=> Current(c)
  BY <1>1 DEF Current
<1>3. \A c, how : Trusted(c, how)' <=> Trusted(c, how)
  BY DEF Trusted, Replaced, ReplacedFor
<1>4. \A c, how : Justified(c, how)' <=> Justified(c, how)
  BY DEF Justified
<1> QED
  BY <1>1, <1>2, <1>3, <1>4 DEF CallOK

LEMMA StutterKeepsTokens ==
    ASSUME TokensInv, UNCHANGED tokenVars
    PROVE  TokensInv'
<1>1. KeysInTurn' /\ CacheOK'
  BY DEF TokensInv, KeysInTurn, CacheOK, Keys, tokenVars
<1> QED
  BY <1>1, CallsFrame DEF TokensInv, tokenVars

(* One call moves and nothing else does. *)
LEMMA OneCall ==
    ASSUME TokensInv, NEW i \in Calls, NEW x, CallOK(x), call' = [call EXCEPT ![i] = x],
           UNCHANGED <<service, keyIDs, clock, current, since, keys, fetchedAt, newest>>,
           fetchFailures' \in 0 .. MaxFetchFailures
    PROVE  TokensInv'
<1>1. KeysInTurn' /\ CacheOK'
  BY DEF TokensInv, KeysInTurn, CacheOK, Keys
<1>2. CallRecord' = CallRecord
  BY CallsFrame
<1>3. \A c : CallOK(c)' <=> CallOK(c)
  BY CallsFrame
<1>4. x \in CallRecord
  BY DEF CallOK, Current
<1>5. /\ call' \in [Calls -> CallRecord]
      /\ \A j \in Calls : call'[j] = IF j = i THEN x ELSE call[j]
  BY <1>4 DEF TokensInv
<1>6. \A j \in Calls : CallOK(call'[j])
  BY <1>5 DEF TokensInv
<1> QED
  BY <1>1, <1>2, <1>3, <1>5, <1>6 DEF TokensInv

(* A call comes with a token and goes to a route; the gateway's comes      *)
(* with what InjectUserID has put in.  (For any sets: the provers do not   *)
(* take the header together with the numbers.)                             *)
LEMMA CallUpdates ==
    ASSUME NEW P, NEW S, NEW T, NEW B, NEW R, NEW N, NEW H,
           NEW c \in [pc : P, stage : S, token : T, header : B, route : R,
                      began : N, cached : N, answer : N, how : H],
           NEW s \in S, NEW t \in T, NEW b \in B, NEW r \in R, NEW n \in N
    PROVE  /\ LET d == [c EXCEPT !.stage = s, !.token = t, !.header = b, !.route = r, !.began = n]
              IN  /\ d \in [pc : P, stage : S, token : T, header : B, route : R,
                            began : N, cached : N, answer : N, how : H]
                  /\ d.token = t /\ d.began = n /\ d.cached = c.cached /\ d.answer = c.answer
           /\ LET d == [c EXCEPT !.stage = s, !.began = n, !.header = b]
              IN  /\ d \in [pc : P, stage : S, token : T, header : B, route : R,
                            began : N, cached : N, answer : N, how : H]
                  /\ d.token = c.token /\ d.began = n
                  /\ d.cached = c.cached /\ d.answer = c.answer
OBVIOUS

LEMMA RequestKeepsTokens ==
    ASSUME TokensInv, NEW i \in Calls, NEW route \in Routes, NEW token \in TokensFor(route),
           NEW header \in BOOLEAN, Request(i, token, header, route)
    PROVE  TokensInv'
<1> DEFINE c == [IdleCall EXCEPT !.stage = 1, !.token = token, !.header = header,
                                 !.route = route, !.began = clock]
<1>1. KeysInTurn /\ CacheOK /\ clock \in Nat /\ current \in Nat
  BY DEF TokensInv, KeysInTurn, Keys
<1>2. Known(token) /\ route \in TokenRoutes
  BY <1>1, TokensForKnown
<1>3. IdleCall \in CallRecord /\ IdleCall.cached = 0 /\ IdleCall.answer = 0
  BY <1>1, IdleCallType
<1>4. /\ c \in CallRecord /\ c.token = token /\ c.began = clock
      /\ c.cached = 0 /\ c.answer = 0
  <2>1. 1 \in 0 .. 2 /\ token \in Token /\ route \in TokenRoutes \cup {{}}
    BY <1>2 DEF Known
  <2> QED
    BY <1>1, <1>3, <2>1, CallUpdates DEF CallRecord
<1>5. /\ call' = [call EXCEPT ![i] = Check(c)]
      /\ UNCHANGED <<service, keyIDs, clock, current, since, keys, fetchedAt, newest, fetchFailures>>
  BY DEF Request
<1> HIDE DEF c
<1>6. Current(c)
  BY <1>1, <1>2, <1>4, TimesAssumption DEF Current, Known
<1>7. CallOK(Check(c))
  BY <1>1, <1>4, <1>6, CheckOK
<1> QED
  BY <1>5, <1>7, OneCall DEF TokensInv, KeysInTurn

LEMMA InjectUserIDKeepsTokens ==
    ASSUME TokensInv, NEW i \in Calls, InjectUserID(i)
    PROVE  TokensInv'
<1> DEFINE c == call[i]
           h == c.header \/ c.token # NoToken
           d == [c EXCEPT !.stage = 2, !.began = clock, !.header = h]
<1>1. KeysInTurn /\ CacheOK /\ clock \in Nat /\ Current(c) /\ c \in CallRecord
  BY DEF TokensInv, KeysInTurn, CallOK, Current
<1>2. h \in BOOLEAN
  BY <1>1 DEF CallRecord
<1>3. /\ call' = [call EXCEPT ![i] = Check(d)]
      /\ UNCHANGED <<service, keyIDs, clock, current, since, keys, fetchedAt, newest, fetchFailures>>
  BY DEF InjectUserID
<1> HIDE DEF h, c
<1>4. /\ d \in CallRecord /\ d.token = c.token /\ d.began = clock
      /\ d.cached = c.cached /\ d.answer = c.answer
  <2>1. 2 \in 0 .. 2 /\ c.token \in Token /\ c.route \in TokenRoutes \cup {{}}
    BY <1>1 DEF CallRecord
  <2> QED
    BY <1>1, <1>2, <2>1, CallUpdates DEF CallRecord
<1> HIDE DEF d
<1>5. Current(d)
  BY <1>1, <1>4, TimesAssumption DEF Current
<1>6. CallOK(Check(d))
  BY <1>1, <1>4, <1>5, CheckOK
<1> QED
  BY <1>3, <1>6, OneCall DEF TokensInv, KeysInTurn

LEMMA FetchKeysKeepsTokens ==
    ASSUME TokensInv, NEW i \in Calls, FetchKeys(i)
    PROVE  TokensInv'
<1> DEFINE c == call[i]
           d == [c EXCEPT !.pc = "store", !.answer = current]
<1>1. /\ CallOK(c) /\ Current(c) /\ c \in CallRecord /\ c.pc = "fetch"
      /\ current \in Nat /\ current # 0
  BY DEF TokensInv, KeysInTurn, Keys, CallOK, Current, FetchKeys, CallAt
<1>2. /\ call' = [call EXCEPT ![i] = d]
      /\ UNCHANGED <<service, keyIDs, clock, current, since, keys, fetchedAt, newest, fetchFailures>>
  BY DEF FetchKeys, JWKS
<1> HIDE DEF c
<1>3. /\ d \in CallRecord /\ d.pc = "store" /\ d.token = c.token /\ d.began = c.began
      /\ d.cached = c.cached /\ d.answer = current
  BY <1>1 DEF CallRecord
<1> HIDE DEF d
<1>4. CallOK(d)
  BY <1>1, <1>3 DEF CallOK, Current
<1> QED
  BY <1>2, <1>4, OneCall DEF TokensInv, KeysInTurn

LEMMA FetchFailsKeepsTokens ==
    ASSUME TokensInv, NEW i \in Calls, FetchFails(i)
    PROVE  TokensInv'
<1> DEFINE c == call[i]
           d == IF c.cached # 0 THEN Verify(c, c.cached, "old key") ELSE Refuse(c, "no key")
<1>1. /\ KeysInTurn /\ CallOK(c) /\ Current(c) /\ c.pc = "fetch"
      /\ clock - c.began <= FetchTime /\ c.began <= c.token.expires
  BY DEF TokensInv, CallOK, Current, FetchFails, CallAt
<1>2. /\ call' = [call EXCEPT ![i] = d]
      /\ UNCHANGED <<service, keyIDs, clock, current, since, keys, fetchedAt, newest>>
      /\ fetchFailures < MaxFetchFailures /\ fetchFailures' = fetchFailures + 1
  BY DEF FetchFails
<1>3. fetchFailures' \in 0 .. MaxFetchFailures
  <2>1. fetchFailures \in 0 .. MaxFetchFailures
    BY DEF TokensInv, KeysInTurn
  <2>2. fetchFailures < MaxFetchFailures /\ fetchFailures' = fetchFailures + 1
    BY <1>2
  <2> QED
    BY <2>1, <2>2, TokenBoundsAssumption
<1>4. "old key" \in Hows /\ "no key" \in Hows
  BY DEF Hows
<1>5. c.cached # 0 /\ c.token.key = c.cached => Trusted(c, "old key")
  BY <1>1 DEF Trusted
<1>6. Justified(c, "old key") /\ Justified(c, "no key")
  BY DEF Justified
<1>7. CallOK(d)
  <2> HIDE DEF c
  <2>1. CASE c.cached # 0
    <3>1. CallOK(Verify(c, c.cached, "old key"))
      BY <1>1, <1>4, <1>5, <1>6, <2>1, VerifyOK
    <3> QED
      BY <2>1, <3>1
  <2>2. CASE c.cached = 0
    <3>1. CallOK(Refuse(c, "no key"))
      BY <1>1, <1>4, <1>6, RefuseOK
    <3> QED
      BY <2>2, <3>1
  <2> QED
    BY <2>1, <2>2
<1> HIDE DEF d
<1> QED
  BY <1>2, <1>3, <1>7, OneCall

LEMMA LookUpKeepsTokens ==
    ASSUME TokensInv, NEW i \in Calls, LookUp(i)
    PROVE  TokensInv'
<1> DEFINE c == call[i]
           how == FetchedOrReverted
           d == IF KeyInCache(c.token.kid) = 0 THEN Refuse(c, how) ELSE Verify(c, keys, how)
<1>1. /\ KeysInTurn /\ CacheOK /\ CallOK(c) /\ Current(c) /\ c \in CallRecord /\ c.pc = "lookup"
      /\ clock - c.began <= FetchTime /\ c.began <= c.token.expires
      /\ c.token.key <= newest /\ c.token.key <= current
      /\ fetchedAt # Never /\ c.began <= fetchedAt
  BY DEF TokensInv, CallOK, Current, LookUp, CallAt
<1>2. /\ call' = [call EXCEPT ![i] = d]
      /\ UNCHANGED <<service, keyIDs, clock, current, since, keys, fetchedAt, newest, fetchFailures>>
  BY DEF LookUp
<1>3. how \in {"fetched", "reverted"} /\ how \in Hows
  BY DEF FetchedOrReverted, Hows
<1>4. /\ c.began \in Nat /\ c.token.key \in Nat /\ fetchedAt \in Nat /\ current \in Nat
      /\ keys \in Nat /\ newest \in Nat /\ newest <= current /\ current # 0
  <2>1. c.token \in Token /\ c.began \in Nat
    BY <1>1 DEF CallRecord
  <2>2. c.token.key \in Nat
    BY <2>1 DEF Token
  <2> QED
    BY <1>1, <2>1, <2>2 DEF KeysInTurn, Keys, CacheOK
<1>5. c.token.key = keys /\ keys # 0 => Trusted(c, how)
  <2> SUFFICES ASSUME c.token.key = keys, keys # 0, keys < current
               PROVE  c.began - since[keys + 1] <= CacheAge + FetchTime
    BY <1>1, <1>3 DEF Trusted, Replaced, ReplacedFor
  <2>1. c.began - fetchedAt <= CacheAge
    BY <1>1, <1>4, TimesAssumption
  <2> QED
    BY <1>1, <1>4, <2>1, CachedKeyIsRecent
<1>6. ASSUME c.token.key # keys \/ keys = 0 PROVE Justified(c, how)
  <2> SUFFICES ASSUME c.token.key = current PROVE how = "reverted"
    BY DEF Justified
  <2>1. newest = current
    BY <1>1, <1>4
  <2>2. keys < newest
    BY <1>1, <1>4, <1>6, <2>1 DEF CacheOK
  <2> QED
    BY <2>2 DEF FetchedOrReverted
<1>7. KeyInCache(c.token.kid) = 0 => c.token.key # keys \/ keys = 0
  BY <1>1 DEF KeyInCache, Current
<1>8. KeyInCache(c.token.kid) # 0 => keys # 0
  BY DEF KeyInCache
<1>9. CallOK(d)
  <2> HIDE DEF c, how
  <2>1. CASE KeyInCache(c.token.kid) = 0
    <3>1. CallOK(Refuse(c, how))
      BY <1>1, <1>3, <1>6, <1>7, <2>1, RefuseOK
    <3> QED
      BY <2>1, <3>1
  <2>2. CASE KeyInCache(c.token.kid) # 0
    <3>1. CallOK(Verify(c, keys, how))
      BY <1>1, <1>3, <1>5, <1>6, <1>8, <2>2, VerifyOK
    <3> QED
      BY <2>2, <3>1
  <2> QED
    BY <2>1, <2>2
<1> HIDE DEF d
<1> QED
  BY <1>2, <1>9, OneCall DEF TokensInv, KeysInTurn

LEMMA AnswerKeepsTokens ==
    ASSUME TokensInv, NEW i \in Calls, Answer(i)
    PROVE  TokensInv'
<1>1. /\ call' = [call EXCEPT ![i] = IdleCall]
      /\ UNCHANGED <<service, keyIDs, clock, current, since, keys, fetchedAt, newest, fetchFailures>>
  BY DEF Answer
<1>2. KeysInTurn /\ clock \in Nat /\ current \in Nat
  BY DEF TokensInv, KeysInTurn, Keys
<1>3. CallOK(IdleCall)
  BY <1>2, IdleCallType, NoTokenKnown DEF CallOK, Current
<1> QED
  BY <1>1, <1>3, OneCall DEF TokensInv, KeysInTurn

LEMMA StoreKeysKeepsTokens ==
    ASSUME TokensInv, NEW i \in Calls, StoreKeys(i)
    PROVE  TokensInv'
<1> DEFINE c == call[i]
           d == [c EXCEPT !.pc = "lookup"]
<1>1. /\ KeysInTurn /\ CacheOK /\ CallOK(c) /\ Current(c) /\ c \in CallRecord /\ c.pc = "store"
      /\ clock - c.began <= FetchTime /\ c.began <= c.token.expires /\ c.began <= clock
      /\ c.answer # 0 /\ c.token.key <= c.answer /\ c.answer <= current
      /\ c.answer < current => c.began <= since[c.answer + 1]
  BY DEF TokensInv, CallOK, Current, StoreKeys, CallAt
<1>2. /\ keys' = c.answer /\ fetchedAt' = clock
      /\ newest' = IF c.answer > newest THEN c.answer ELSE newest
      /\ call' = [call EXCEPT ![i] = d]
      /\ UNCHANGED <<service, keyIDs, clock, current, since, fetchFailures>>
  BY DEF StoreKeys
<1>3. /\ c.began \in Nat /\ c.answer \in Nat /\ clock \in Nat /\ current \in Nat
      /\ newest \in Nat /\ newest <= current /\ c.token.key \in Nat
  <2>1. c.token \in Token /\ c.began \in Nat /\ c.answer \in Nat
    BY <1>1 DEF CallRecord
  <2>2. c.token.key \in Nat
    BY <2>1 DEF Token
  <2> QED
    BY <1>1, <2>1, <2>2 DEF KeysInTurn, Keys, CacheOK
<1> HIDE DEF c
<1>4. /\ d \in CallRecord /\ d.pc = "lookup" /\ d.token = c.token /\ d.began = c.began
      /\ d.cached = c.cached /\ d.answer = c.answer
  BY <1>1 DEF CallRecord
<1> HIDE DEF d
<1>5. newest' \in Nat /\ newest <= newest' /\ c.answer <= newest' /\ newest' <= current
  BY <1>1, <1>2, <1>3
<1>6. KeysInTurn'
  BY <1>1, <1>2 DEF KeysInTurn, Keys
<1>7. CacheOK'
  <2>1. keys' \in 0 .. current /\ newest' \in keys' .. current /\ fetchedAt' \in 0 .. clock
    BY <1>1, <1>2, <1>3, <1>5
  <2>2. fetchedAt' # Never
    BY <1>2, <1>3, TimesAssumption
  <2>3. keys' < current => fetchedAt' - FetchTime <= since[keys' + 1]
    <3> SUFFICES ASSUME c.answer < current PROVE clock - FetchTime <= since[c.answer + 1]
      BY <1>2
    <3>1. c.answer + 1 \in 1 .. current
      BY <1>3
    <3>2. since[c.answer + 1] \in Nat
      BY <1>1, <3>1 DEF KeysInTurn
    <3> QED
      BY <1>1, <1>3, <3>2, TimesAssumption
  <2> QED
    BY <1>2, <2>1, <2>2, <2>3 DEF CacheOK
<1>8. CallRecord' = CallRecord
  BY <1>2 DEF CallRecord, Token, Kids, Keys
<1>9. ASSUME NEW x \in CallRecord, CallOK(x)
      PROVE  CallOK(x)'
  <2>1. x.token.key \in Nat /\ x.began \in Nat
    BY <1>9 DEF CallRecord, Token
  <2>2. Current(x)'
    BY <1>2, <1>8, <1>9 DEF CallOK, Current
  <2>3. \A how : (Trusted(x, how)' <=> Trusted(x, how)) /\ (Justified(x, how)' <=> Justified(x, how))
    BY <1>2 DEF Trusted, Justified, Replaced, ReplacedFor
  <2>4. x.pc = "lookup" => x.token.key <= newest' /\ fetchedAt' # Never /\ x.began <= fetchedAt'
    BY <1>2, <1>3, <1>5, <1>9, <2>1, TimesAssumption DEF CallOK, Current
  <2> QED
    BY <1>2, <1>9, <2>2, <2>3, <2>4 DEF CallOK
<1>10. ASSUME NEW x, x = d
       PROVE  CallOK(x)'
  <2>1. /\ x \in CallRecord /\ x.pc = "lookup" /\ x.token = c.token /\ x.began = c.began
        /\ x.cached = c.cached /\ x.answer = c.answer
    BY <1>4, <1>10
  <2>2. Current(x)'
    BY <1>1, <1>2, <1>8, <2>1 DEF Current
  <2>3. x.token.key <= newest' /\ fetchedAt' # Never /\ x.began <= fetchedAt'
    BY <1>1, <1>2, <1>3, <1>5, <2>1, TimesAssumption
  <2> QED
    BY <1>1, <2>1, <2>2, <2>3 DEF CallOK
<1>11. /\ call' \in [Calls -> CallRecord]
       /\ \A j \in Calls : call'[j] = IF j = i THEN d ELSE call[j]
  BY <1>2, <1>4 DEF TokensInv
<1>12. ASSUME NEW j \in Calls PROVE CallOK(call[j])'
  <2>1. CASE j = i
    BY <1>10, <1>11, <2>1
  <2>2. CASE j # i
    <3>1. call'[j] = call[j] /\ call[j] \in CallRecord /\ CallOK(call[j])
      BY <1>11, <2>2 DEF TokensInv
    <3>2. PICK x \in CallRecord : x = call[j] /\ x = call'[j]
      BY <3>1
    <3>3. CallOK(x)'
      BY <1>9, <3>1, <3>2
    <3> QED
      BY <3>2, <3>3
  <2> QED
    BY <2>1, <2>2
<1> QED
  BY <1>6, <1>7, <1>8, <1>11, <1>12 DEF TokensInv

LEMMA NewTokenManagerKeepsTokens ==
    ASSUME TokensInv, NewTokenManager
    PROVE  TokensInv'
<1>1. /\ current < MaxKeys /\ current' = current + 1
      /\ since' = [since EXCEPT ![current + 1] = clock]
      /\ UNCHANGED <<service, keyIDs, clock, keys, fetchedAt, newest, call, fetchFailures>>
  BY DEF NewTokenManager
<1>2. /\ KeysInTurn /\ CacheOK /\ clock \in Nat /\ current \in Nat /\ current # 0
      /\ since \in [Keys -> Nat \cup {Never}] /\ current + 1 \in Keys
  BY <1>1, TokenBoundsAssumption DEF TokensInv, KeysInTurn, Keys
<1>3. /\ since' \in [Keys -> Nat \cup {Never}] /\ since'[current + 1] = clock
      /\ \A k \in 1 .. current : since'[k] = since[k] /\ since[k] \in 0 .. clock
  <2>1. \A k \in 1 .. current : k \in Keys /\ k # current + 1
    BY <1>1, <1>2, TokenBoundsAssumption DEF Keys
  <2>2. \A k \in 1 .. current : since[k] \in 0 .. clock
    BY <1>2 DEF KeysInTurn
  <2> QED
    BY <1>1, <1>2, <2>1, <2>2
<1>4. \A k \in 1 .. current + 1 : k \in 1 .. current \/ k = current + 1
  BY <1>2
<1>5. KeysInTurn'
  <2>1. \A k \in 1 .. current + 1 : since'[k] \in 0 .. clock
    BY <1>2, <1>3, <1>4
  <2>2. ASSUME NEW j \in 1 .. current + 1, NEW k \in 1 .. current + 1, j <= k
        PROVE  since'[j] <= since'[k]
    <3>1. CASE k = current + 1
      BY <1>2, <1>3, <2>1, <3>1
    <3>2. CASE k \in 1 .. current
      <4>1. j \in 1 .. current
        BY <1>2, <2>2, <3>2
      <4> QED
        BY <1>2, <1>3, <2>2, <3>2, <4>1 DEF KeysInTurn
    <3> QED
      BY <1>4, <3>1, <3>2
  <2> QED
    BY <1>1, <1>2, <1>3, <2>1, <2>2 DEF KeysInTurn
<1>6. ASSUME NEW k \in Nat, k # 0, k <= current, NEW b \in Int, b <= clock,
             k < current => b <= since[k + 1]
      PROVE  b <= since'[k + 1]
  <2>1. CASE k = current
    BY <1>3, <1>6, <2>1
  <2>2. CASE k < current
    <3>1. k + 1 \in 1 .. current
      BY <1>2, <2>2
    <3> QED
      BY <1>3, <1>6, <2>2, <3>1
  <2> QED
    BY <1>2, <1>6, <2>1, <2>2
<1>7. CacheOK'
  <2>1. /\ keys \in Nat /\ keys <= current /\ newest \in Nat /\ newest <= current
        /\ newest \in keys .. current /\ (keys # 0 => fetchedAt \in Nat /\ fetchedAt <= clock)
    BY <1>2 DEF CacheOK
  <2>2. keys \in 0 .. current + 1 /\ newest \in keys .. current + 1
    BY <1>2, <2>1
  <2>3. keys # 0 => fetchedAt - FetchTime <= since'[keys + 1]
    <3> SUFFICES ASSUME keys # 0 PROVE fetchedAt - FetchTime <= since'[keys + 1]
      OBVIOUS
    <3>1. fetchedAt - FetchTime \in Int /\ fetchedAt - FetchTime <= clock
      BY <1>2, <2>1, TimesAssumption
    <3>2. keys < current => fetchedAt - FetchTime <= since[keys + 1]
      BY <1>2 DEF CacheOK
    <3> QED
      BY <1>6, <2>1, <3>1, <3>2
  <2> QED
    BY <1>1, <1>2, <2>2, <2>3 DEF CacheOK
<1>8. CallRecord' = CallRecord
  BY <1>1 DEF CallRecord, Token, Kids, Keys
<1>9. ASSUME NEW c \in CallRecord, CallOK(c)
      PROVE  CallOK(c)'
  <2>1. /\ Current(c) /\ c.token \in Token /\ c.began \in Nat /\ c.answer \in Nat
        /\ c.cached \in Nat /\ c.began <= clock /\ c.token.key <= current
        /\ c.answer <= current /\ c.cached <= current
    BY <1>9 DEF CallOK, Current, CallRecord
  <2>2. c.token.key \in Nat
    BY <2>1 DEF Token
  <2>3. Current(c)'
    <3>1. c.token.key <= current + 1 /\ c.answer <= current + 1 /\ c.cached <= current + 1
      BY <1>2, <2>1, <2>2
    <3> QED
      BY <1>1, <1>8, <2>1, <3>1 DEF Current
  <2>4. c.pc = "store" => /\ c.answer # 0 /\ c.token.key <= c.answer
                          /\ c.began <= since'[c.answer + 1]
    BY <1>6, <1>9, <2>1 DEF CallOK
  <2>5. ASSUME NEW how, Trusted(c, how) PROVE Trusted(c, how)'
    <3>1. PICK k \in Nat : k = c.token.key /\ k <= current
      BY <2>1, <2>2
    <3>2. ASSUME k < current => c.began - since[k + 1] <= CacheAge + FetchTime
          PROVE  c.began - since'[k + 1] <= CacheAge + FetchTime
      <4>1. CASE k = current
        BY <1>2, <1>3, <2>1, <4>1, TimesAssumption
      <4>2. CASE k < current
        <5>1. k + 1 \in 1 .. current
          BY <1>2, <4>2
        <5> QED
          BY <1>3, <3>2, <4>2, <5>1
      <4> QED
        BY <1>2, <3>1, <4>1, <4>2
    <3> QED
      BY <1>1, <2>5, <3>1, <3>2 DEF Trusted, Replaced, ReplacedFor
  <2>6. ASSUME NEW how PROVE Justified(c, how)'
    <3>1. c.token.key # current'
      BY <1>1, <1>2, <2>1, <2>2
    <3> QED
      BY <3>1 DEF Justified
  <2> QED
    BY <1>1, <1>9, <2>3, <2>4, <2>5, <2>6 DEF CallOK
<1> QED
  BY <1>1, <1>5, <1>7, <1>8, <1>9 DEF TokensInv

LEMMA ClockTickKeepsTokens ==
    ASSUME TokensInv, ClockTick
    PROVE  TokensInv'
<1>1. /\ clock < MaxClock /\ clock' = clock + 1
      /\ \A i \in Calls : call[i].pc # "idle" => clock - call[i].began < FetchTime
      /\ UNCHANGED <<service, keyIDs, current, since, keys, fetchedAt, newest, call, fetchFailures>>
  BY DEF ClockTick, CallAt
<1>2. KeysInTurn /\ CacheOK /\ clock \in Nat /\ clock' \in 0 .. MaxClock
  BY <1>1, TokenBoundsAssumption DEF TokensInv, KeysInTurn
<1>3. \A t \in 0 .. clock : t \in 0 .. clock'
  BY <1>1, <1>2
<1>4. KeysInTurn' /\ CacheOK'
  BY <1>1, <1>2, <1>3 DEF KeysInTurn, CacheOK, Keys
<1>5. CallRecord' = CallRecord
  BY <1>1 DEF CallRecord, Token, Kids, Keys
<1>6. ASSUME NEW i \in Calls PROVE CallOK(call[i])'
  <2> DEFINE c == call[i]
  <2>1. CallOK(c) /\ c \in CallRecord /\ (c.pc # "idle" => clock - c.began < FetchTime)
    BY <1>1 DEF TokensInv
  <2>2. call'[i] = c
    BY <1>1
  <2> HIDE DEF c
  <2>3. c.began \in Nat
    BY <2>1 DEF CallRecord
  <2>4. c.began <= clock + 1 /\ (c.pc # "idle" => (clock + 1) - c.began <= FetchTime)
    BY <1>2, <2>1, <2>3, TimesAssumption DEF CallOK, Current
  <2>5. Current(call[i])'
    BY <1>1, <1>5, <2>1, <2>2, <2>4 DEF CallOK, Current
  <2> QED
    BY <1>1, <2>1, <2>2, <2>5 DEF CallOK, Trusted, Justified, Replaced, ReplacedFor
<1> QED
  BY <1>1, <1>4, <1>5, <1>6 DEF TokensInv

LEMMA TokensInvariant == TokensSpec => []TokensInv
<1>1. ASSUME TokensInv, [TokensNext]_tokenVars PROVE TokensInv'
  <2>1. CASE UNCHANGED tokenVars
    BY <1>1, <2>1, StutterKeepsTokens
  <2>2. CASE NewTokenManager \/ ClockTick
    BY <1>1, <2>2, NewTokenManagerKeepsTokens, ClockTickKeepsTokens
  <2>3. ASSUME NEW i \in Calls, NEW route \in Routes, NEW token \in TokensFor(route),
               NEW header \in BOOLEAN, Request(i, token, header, route)
        PROVE  TokensInv'
    BY <1>1, <2>3, RequestKeepsTokens
  <2>4. ASSUME NEW i \in Calls,
               \/ InjectUserID(i) \/ FetchKeys(i) \/ FetchFails(i)
               \/ StoreKeys(i) \/ LookUp(i) \/ Answer(i)
        PROVE  TokensInv'
    BY <1>1, <2>4, InjectUserIDKeepsTokens, FetchKeysKeepsTokens, FetchFailsKeepsTokens,
       StoreKeysKeepsTokens, LookUpKeepsTokens, AnswerKeepsTokens
  <2> QED
    BY <1>1, <2>1, <2>2, <2>3, <2>4 DEF TokensNext
<1> QED
  BY <1>1, InitIsTokens, PTL DEF TokensSpec

(* A call that is served with a token has one that the auth-service signed *)
(* and that had not expired, with a key that was replaced no longer ago    *)
(* than the cache and one fetch may last, in whatever order any number of  *)
(* calls store what they have fetched (keyFor, refreshKeys), and an        *)
(* administrator's where one is asked for.                                 *)
THEOREM ServedCallsAreAuthenticHolds == TokensSpec => []ServedCallsAreAuthentic
<1>1. TokensInv => ServedCallsAreAuthentic
  <2> SUFFICES ASSUME TokensInv PROVE ServedCallsAreAuthentic
    OBVIOUS
  <2>1. TokensTypeOK
    <3>1. ASSUME NEW i \in Calls
          PROVE  /\ call[i].pc \in {"idle", "next", "fetch", "store", "lookup", "served", "refused"}
                 /\ call[i].how \in Hows
                 /\ call[i].cached \in 0 .. current
                 /\ call[i].answer \in IF CallAt(i, "store") THEN 1 .. current ELSE 0 .. current
      <4>1. CallOK(call[i]) /\ call[i] \in CallRecord /\ current \in Nat
        BY DEF TokensInv, KeysInTurn, Keys
      <4>2. /\ call[i].pc \in {"idle", "next", "fetch", "store", "lookup", "served", "refused"}
            /\ call[i].how \in Hows /\ call[i].cached \in Nat /\ call[i].answer \in Nat
        BY <4>1 DEF CallRecord
      <4> QED
        BY <4>1, <4>2 DEF CallOK, Current, CallAt
    <3> QED
      BY <3>1 DEF TokensInv, KeysInTurn, CacheOK, TokensTypeOK
  <2>2. ASSUME NEW i \in Calls, CallAt(i, "served")
        PROVE  LET c == call[i]
               IN  CASE c.how = "anonymous" -> c.route = OptionalUserID
                     [] c.how = "legacy"    -> AllowLegacy /\ c.token = NoToken
                     [] c.how = "internal"  -> c.route = InternalHandlers
                     [] OTHER ->
                           /\ c.token.key # 0
                           /\ c.route = AdminHandlers => c.token.admin
                           /\ c.began <= c.token.expires
                           /\ Replaced(c.token.key) /\ c.how # "old key" =>
                                 ReplacedFor(c) <= CacheAge + FetchTime
    <3> DEFINE c == call[i]
    <3>1. /\ Trusted(c, c.how)
          /\ c.how \notin {"anonymous", "legacy", "internal"}
                /\ c.route = AdminHandlers => c.token.admin
      BY <2>2 DEF TokensInv, CallOK, CallAt
    <3> HIDE DEF c
    <3>2. CASE c.how = "anonymous"
      BY <3>1, <3>2 DEF Trusted, c
    <3>3. CASE c.how = "legacy"
      BY <3>1, <3>3 DEF Trusted, c
    <3>4. CASE c.how = "internal"
      BY <3>1, <3>4 DEF Trusted, c
    <3>5. CASE c.how \notin {"anonymous", "legacy", "internal"}
      BY <3>1, <3>5 DEF Trusted, c
    <3> QED
      BY <3>2, <3>3, <3>4, <3>5
  <2> QED
    BY <2>1, <2>2 DEF ServedCallsAreAuthentic
<1> QED
  BY <1>1, TokensInvariant, PTL

(* A good token is refused only when the keys cannot be fetched, when an   *)
(* older answer was stored over the one the call fetched, or when a key    *)
(* was replaced under the same ID and the cache may still hold it (keyFor, *)
(* refreshKeys).                                                           *)
THEOREM GoodTokensAreServedHolds == TokensSpec => []GoodTokensAreServed
<1>1. TokensInv => GoodTokensAreServed
  <2> SUFFICES ASSUME TokensInv, NEW i \in Calls, CallAt(i, "refused")
               PROVE  Justified(call[i], call[i].how)
    BY DEF GoodTokensAreServed, Justified
  <2> QED
    BY DEF TokensInv, CallOK, CallAt
<1> QED
  BY <1>1, TokensInvariant, PTL
=============================================================================
