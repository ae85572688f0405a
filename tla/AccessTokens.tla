---------------------------- MODULE AccessTokens ----------------------------
(***************************************************************************)
(* How table-manager and wallet-service check the access tokens of the     *)
(* auth-service: the keys are fetched from its JWKS endpoint, kept for     *)
(* CacheAge and fetched again when they are old or a token names a key     *)
(* that is not among them.  The fetch is outside the lock, so the calls    *)
(* that run beside each other may store what they fetched in any order.    *)
(* The auth-service has one key at a time; it gets another when it is      *)
(* started with one, under a new key ID or under the same.                 *)
(*                                                                         *)
(* A call to table-manager is checked twice, by the HTTP middleware and by *)
(* the gRPC server behind the gateway; a call to the wallet, or for a      *)
(* websocket, once.                                                        *)
(***************************************************************************)
EXTENDS Integers

CONSTANTS
    Calls,            \* the calls that can run at once
    MaxKeys,          \* bound: how many keys the auth-service has one after the other
    KeyIDs,           \* what their key IDs may be, in their order
    AllowLegacy,      \* AllowLegacyUserHeader
    TokenTTL,         \* TokenManager.accessTTL: how long a token is valid
    CacheAge,         \* how long keys are used without being fetched again
    FetchTime,        \* the timeout of the HTTP client
    Never,            \* "not fetched yet", "not replaced yet"
    MaxClock,         \* bound: how long the clock runs
    MaxFetchFailures  \* bound: how many fetches fail

ASSUME TimesAssumption ==
    TokenTTL \in Nat /\ CacheAge \in Nat /\ FetchTime \in Nat /\ Never \notin Nat
ASSUME TokenBoundsAssumption ==
    MaxKeys \in Nat \ {0} /\ MaxClock \in Nat /\ MaxFetchFailures \in Nat

VARIABLES
    service,    \* whose validator this is: "table-manager" or "wallet"
    keyIDs,     \* the IDs of the keys
    clock,      \* the clock
    current,    \* the auth-service's key
    since,      \* history: when the keys came into use
    keys,       \* JWTValidator.keys: the one key in it, or 0
    fetchedAt,  \* JWTValidator.fetchedAt
    newest,     \* history: the newest key that was ever stored
    call,       \* the calls
    fetchFailures  \* how many fetches have failed

tokenVars == <<service, keyIDs, clock, current, since, keys, fetchedAt, newest, call, fetchFailures>>

Keys == 1 .. MaxKeys

(* A token: the key ID, the key that signed it (0 for none of the          *)
(* auth-service's), the time of expiry and the admin claim.                *)
NoToken == [kid |-> "none", key |-> 0, expires |-> 0, admin |-> FALSE]

Replaced(k) == k < current

(* IssueAccessToken: what the auth-service may have issued so far. *)
IssuedTokens(adminClaims) ==
    UNION {{[kid |-> keyIDs[k], key |-> k, expires |-> t + TokenTTL, admin |-> a] :
               t \in since[k] .. (IF Replaced(k) THEN since[k + 1] ELSE clock),
               a \in adminClaims} :
           k \in 1 .. current}

(* A token with the present key ID that the auth-service has not signed. *)
UnsignedToken == [kid |-> keyIDs[current], key |-> 0, expires |-> MaxClock,
                  admin |-> TRUE]

(* The handlers, by how they check a call: the routes of the model. *)
UserHandlers == {"Balance", "DepositAddress", "LinkedAddresses", "CreateLinkChallenge",
                 "ConfirmLink", "Deposits", "CreateWithdrawal", "Withdrawals"}
AdminHandlers == {"AdminFaucet", "ListAdminFaucetTransfers"}
InternalHandlers == {"DebitForJoin", "CreditForCashout"}

(* Of table-manager: RequiredUserID, OptionalUserID and the websocket's.   *)
RequiredUserID == {"CreateTable", "JoinTable", "LeaveTable", "Act"}
OptionalUserID == {"ListTables", "GetTable"}
WSHandler == {"ServeHTTP"}

Routes ==
    IF service = "wallet" THEN {UserHandlers, AdminHandlers, InternalHandlers}
    ELSE {RequiredUserID, OptionalUserID, WSHandler}

routeRequiresAuth(route) == route # OptionalUserID

IdleCall == [pc |-> "idle", stage |-> 0, token |-> NoToken, header |-> FALSE,
         route |-> {}, began |-> 0, cached |-> 0, answer |-> 0, how |-> "none"]

TokensInit ==
    /\ service \in {"table-manager", "wallet"}
    /\ keyIDs \in KeyIDs
    /\ clock = 0
    /\ current = 1
    /\ since = [k \in Keys |-> IF k = 1 THEN 0 ELSE Never]
    /\ keys = 0
    /\ fetchedAt = Never
    /\ newest = 0
    /\ call = [c \in Calls |-> IdleCall]
    /\ fetchFailures = 0

CallAt(c, pc) == call[c].pc = pc

(* The auth-service starts with its next key, which JWKS then answers. *)
NewTokenManager ==
    /\ current < MaxKeys
    /\ current' = current + 1
    /\ since' = [since EXCEPT ![current'] = clock]
    /\ UNCHANGED <<service, keyIDs, clock, keys, fetchedAt, newest, call, fetchFailures>>

(* Time passes.  A call takes no longer than its fetch may: what it does   *)
(* before and after takes no time beside the minutes of CacheAge.          *)
ClockTick ==
    /\ clock < MaxClock
    /\ \A c \in Calls : ~CallAt(c, "idle") => clock - call[c].began < FetchTime
    /\ clock' = clock + 1
    /\ UNCHANGED <<service, keyIDs, current, since, keys, fetchedAt, newest, call, fetchFailures>>
-----------------------------------------------------------------------------
(* How a call is refused or accepted is kept for the properties.  A call   *)
(* that is accepted at its last stage is served.                           *)

LastStage(c) == IF c.route \in {RequiredUserID, OptionalUserID} THEN 2 ELSE 1

Done(c, pc, how) == [IdleCall EXCEPT !.pc = pc, !.token = c.token, !.route = c.route,
                                 !.began = c.began, !.how = how]

Refuse(c, how) == Done(c, "refused", how)

(* authenticatedAdmin of the wallet asks for the admin claim besides. *)
Accept(c, how) ==
    IF c.route = AdminHandlers /\ ~c.token.admin THEN Refuse(c, "forbidden")
    ELSE IF c.stage < LastStage(c) THEN [c EXCEPT !.pc = "next", !.cached = 0, !.answer = 0]
    ELSE Done(c, "served", how)

(* rsa.VerifyPKCS1v15. *)
Verify(c, key, how) == IF c.token.key = key THEN Accept(c, how) ELSE Refuse(c, how)

KeyInCache(kid) == IF keys # 0 /\ keyIDs[keys] = kid THEN keys ELSE 0

NeedsRefresh == fetchedAt = Never \/ clock - fetchedAt > CacheAge

keyForMutant(c) ==  \* a key ID that is not there does not make it fetch
    IF ~NeedsRefresh
    THEN IF KeyInCache(c.token.kid) = 0 THEN Refuse(c, "cache") ELSE Verify(c, keys, "cache")
    ELSE [c EXCEPT !.pc = "fetch", !.cached = KeyInCache(c.token.kid)]

(* keyFor up to the fetch. *)
keyFor(c) ==
    IF KeyInCache(c.token.kid) # 0 /\ ~NeedsRefresh
    THEN Verify(c, keys, "cache")
    ELSE [c EXCEPT !.pc = "fetch", !.cached = KeyInCache(c.token.kid)]

verifyToken(c) ==
    IF c.token.expires < clock THEN Refuse(c, "claims") ELSE keyFor(c)

(* AuthenticateHTTPRequest and AuthenticateMetadata: the header counts     *)
(* only without a token.  The second stage sees what InjectUserID put in.  *)
Authenticate(c) ==
    CASE c.token # NoToken -> verifyToken(c)
      [] c.token = NoToken /\ AllowLegacy /\ c.header -> Accept(c, "legacy")
      [] c.token = NoToken /\ ~(AllowLegacy /\ c.header) ->
            IF routeRequiresAuth(c.route) THEN Refuse(c, "missing") ELSE Accept(c, "anonymous")

(* AuthenticateRequest, of the wallet: there has to be a token. *)
AuthenticateRequest(c) ==
    IF c.token = NoToken THEN Refuse(c, "missing") ELSE verifyToken(c)

(* The wallet's routes for table-manager: the header is the right          *)
(* X-Internal-Token.                                                       *)
internalAuthorized(c) ==
    IF c.header THEN Accept(c, "internal") ELSE Refuse(c, "missing")

Check(c) ==
    CASE service = "table-manager" -> Authenticate(c)
      [] service = "wallet" /\ c.route = InternalHandlers -> internalAuthorized(c)
      [] service = "wallet" /\ c.route # InternalHandlers -> AuthenticateRequest(c)

(* The tokens a call comes with.  Issued ones go where most happens to     *)
(* them: UserHandlers do what AdminHandlers do with an administrator's,    *)
(* WSHandler and OptionalUserID what RequiredUserID does at its first      *)
(* check, and the internal handlers do not look at a token.                *)
TokensFor(route) ==
    CASE route \in {InternalHandlers, OptionalUserID} -> {NoToken}
      [] route \in {UserHandlers, WSHandler} -> {NoToken, UnsignedToken}
      [] route = RequiredUserID -> {NoToken, UnsignedToken} \cup IssuedTokens({FALSE})
      [] route = AdminHandlers  -> {NoToken, UnsignedToken} \cup IssuedTokens(BOOLEAN)

Request(i, token, header, route) ==
    /\ CallAt(i, "idle")
    /\ route \in Routes
    /\ call' = [call EXCEPT ![i] =
          Check([IdleCall EXCEPT !.stage = 1, !.token = token, !.header = header,
                             !.route = route, !.began = clock])]
    /\ UNCHANGED <<service, keyIDs, clock, current, since, keys, fetchedAt, newest, fetchFailures>>

(* InjectUserID, the gateway, and the gRPC server's authenticator. *)
InjectUserID(i) ==
    LET c == call[i]
    IN  /\ CallAt(i, "next")
        /\ call' = [call EXCEPT ![i] =
              Check([c EXCEPT !.stage = 2, !.began = clock,
                              !.header = c.header \/ c.token # NoToken])]
        /\ UNCHANGED <<service, keyIDs, clock, current, since, keys, fetchedAt, newest,
                       fetchFailures>>
-----------------------------------------------------------------------------
(* refreshKeys, and the rest of keyFor. *)

(* What the auth-service answers: its one key. *)
JWKS == current

FetchKeys(i) ==
    /\ CallAt(i, "fetch")
    /\ call' = [call EXCEPT ![i].pc = "store", ![i].answer = JWKS]
    /\ UNCHANGED <<service, keyIDs, clock, current, since, keys, fetchedAt, newest, fetchFailures>>

(* The fetch or the decoding of its answer fails: the key that was found   *)
(* is used although it is old.                                             *)
FetchFails(i) ==
    /\ CallAt(i, "fetch")
    /\ fetchFailures < MaxFetchFailures
    /\ fetchFailures' = fetchFailures + 1
    /\ call' = [call EXCEPT ![i] =
          IF @.cached # 0 THEN Verify(@, @.cached, "old key") ELSE Refuse(@, "no key")]
    /\ UNCHANGED <<service, keyIDs, clock, current, since, keys, fetchedAt, newest>>

StoreKeysMutant(i) ==  \* keeps what was there when the answer has another key ID
    /\ CallAt(i, "store")
    /\ keys' = IF keys = 0 \/ keyIDs[keys] = keyIDs[call[i].answer] THEN call[i].answer ELSE keys
    /\ fetchedAt' = clock
    /\ newest' = IF call[i].answer > newest THEN call[i].answer ELSE newest
    /\ call' = [call EXCEPT ![i].pc = "lookup"]
    /\ UNCHANGED <<service, keyIDs, clock, current, since, fetchFailures>>

StoreKeys(i) ==
    /\ CallAt(i, "store")
    /\ keys' = call[i].answer
    /\ fetchedAt' = clock
    /\ newest' = IF call[i].answer > newest THEN call[i].answer ELSE newest
    /\ call' = [call EXCEPT ![i].pc = "lookup"]
    /\ UNCHANGED <<service, keyIDs, clock, current, since, fetchFailures>>

(* Another call has stored an older answer over a newer one. *)
FetchedOrReverted == IF keys < newest THEN "reverted" ELSE "fetched"

LookUp(i) ==
    /\ CallAt(i, "lookup")
    /\ call' = [call EXCEPT ![i] =
          IF KeyInCache(@.token.kid) = 0 THEN Refuse(@, FetchedOrReverted)
                                         ELSE Verify(@, keys, FetchedOrReverted)]
    /\ UNCHANGED <<service, keyIDs, clock, current, since, keys, fetchedAt, newest, fetchFailures>>

Answer(i) ==
    /\ call[i].pc \in {"served", "refused"}
    /\ call' = [call EXCEPT ![i] = IdleCall]
    /\ UNCHANGED <<service, keyIDs, clock, current, since, keys, fetchedAt, newest, fetchFailures>>

TokensNext ==
    \/ NewTokenManager
    \/ ClockTick
    \/ \E i \in Calls :
          \/ \E route \in Routes : \E token \in TokensFor(route), header \in BOOLEAN :
                /\ header => token.key = 0   \* beside a good token it adds nothing
                /\ Request(i, token, header, route)
          \/ InjectUserID(i)
          \/ FetchKeys(i)
          \/ FetchFails(i)
          \/ StoreKeys(i)
          \/ LookUp(i)
          \/ Answer(i)

TokensSpec == TokensInit /\ [][TokensNext]_tokenVars
-----------------------------------------------------------------------------
(* Properties. *)

Hows == {"none", "claims", "cache", "old key", "no key", "fetched", "reverted",
         "missing", "forbidden", "legacy", "anonymous", "internal"}

(* The validator and the calls have their types. *)
TokensTypeOK ==
    /\ clock \in 0 .. MaxClock
    /\ current \in Keys
    /\ keys \in 0 .. current /\ newest \in keys .. current
    /\ fetchedAt \in (0 .. clock) \cup {Never}
    /\ \A i \in Calls :
          /\ call[i].pc \in {"idle", "next", "fetch", "store", "lookup", "served", "refused"}
          /\ call[i].how \in Hows
          /\ call[i].cached \in 0 .. current
          /\ call[i].answer \in IF CallAt(i, "store") THEN 1 .. current ELSE 0 .. current
    /\ fetchFailures \in 0 .. MaxFetchFailures

(* How long ago, when the call began, the key was replaced. *)
ReplacedFor(c) == c.began - since[c.token.key + 1]

(* A call that is served with a token has one that the auth-service signed *)
(* and that was valid a moment ago.  The key may have been replaced since, *)
(* but no longer than the cache may keep it and one fetch may take, even   *)
(* when an older answer is stored over a newer one; longer only while the  *)
(* keys cannot be fetched.  The header of a call counts only without a     *)
(* token, and only where it is allowed.                                    *)
ServedCallsAreAuthentic ==
    TokensTypeOK /\ \A i \in Calls :
        LET c == call[i]
        IN  CallAt(i, "served") =>
              CASE c.how = "anonymous" -> c.route = OptionalUserID
                [] c.how = "legacy"    -> AllowLegacy /\ c.token = NoToken
                [] c.how = "internal"  -> c.route = InternalHandlers
                [] OTHER ->
                      /\ c.token.key # 0
                      /\ c.route = AdminHandlers => c.token.admin
                      /\ c.began <= c.token.expires
                      /\ Replaced(c.token.key) /\ c.how # "old key" =>
                            ReplacedFor(c) <= CacheAge + FetchTime

(* A good token, signed with the key the auth-service uses all along, is   *)
(* refused only when the keys cannot be fetched, when another call has     *)
(* stored an older answer in between, or, for as long as the cache may     *)
(* keep it, when the key was replaced under the same key ID.               *)
GoodTokensAreServed ==
    \A i \in Calls :
        LET c == call[i]
        IN  CallAt(i, "refused") /\ c.token.key = current /\ c.token.expires >= c.began
                /\ c.route # InternalHandlers /\ c.how # "forbidden" =>
              \/ c.how \in {"no key", "old key", "reverted"}
              \/ /\ c.how = "cache"
                 /\ \E k \in 1 .. current - 1 : keyIDs[k] = keyIDs[current]
                 /\ c.began - since[current] <= CacheAge + FetchTime
=============================================================================
