---------------------------- MODULE AtomicLedger ----------------------------
(***************************************************************************)
(* What the wallet's ledger promises its callers: an entry is applied at   *)
(* once or not at all, each idempotency key is applied at most once, and   *)
(* no balance goes below zero.                                             *)
(***************************************************************************)
EXTENDS Integers

CONSTANTS
    Users,    \* the users
    Keys,     \* the idempotency keys
    Amounts   \* the amounts of the entries, negative for a debit

VARIABLES
    accounts,  \* the users with an account
    balance,   \* available_gwei of every user
    entries    \* the ledger entries

ledger == <<accounts, balance, entries>>

Entries == [user : Users, key : Keys, amount : Amounts]

Init ==
    /\ accounts = {}
    /\ balance = [u \in Users |-> 0]
    /\ entries = {}

Open(u) ==
    /\ u \notin accounts
    /\ accounts' = accounts \cup {u}
    /\ UNCHANGED <<balance, entries>>

Applied(key) == \E e \in entries : e.key = key

Apply(e) ==
    /\ e.user \in accounts
    /\ ~Applied(e.key)
    /\ balance[e.user] + e.amount >= 0
    /\ balance' = [balance EXCEPT ![e.user] = @ + e.amount]
    /\ entries' = entries \cup {e}
    /\ UNCHANGED accounts

Next == (\E u \in Users : Open(u)) \/ (\E e \in Entries : Apply(e))

Spec == Init /\ [][Next]_ledger
=============================================================================
