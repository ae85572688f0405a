------------------------------- MODULE Ledger -------------------------------
(***************************************************************************)
(* The wallet's ledger as PostgreSQL runs it: transactions of the wallet's *)
(* repository, statement by statement, at the isolation level READ         *)
(* COMMITTED (the default: withTx passes no options).  Every change of a   *)
(* balance is an applyLedgerEntryTx in such a transaction: table buy-ins   *)
(* and cash-outs, confirmed deposits, withdrawals and their compensation.  *)
(*                                                                         *)
(* A statement sees what is committed when it runs.  A row lock, and the   *)
(* insertion of a key that another transaction has inserted and not yet    *)
(* committed, make a transaction wait.                                     *)
(***************************************************************************)
EXTENDS Integers, Functions

CONSTANTS
    Users,     \* the users
    Keys,      \* the idempotency keys
    Amounts,   \* the amounts of the entries, negative for a debit
    Txs,       \* the database connections
    Nobody,    \* "no transaction holds the lock"
    NoEntry    \* "no transaction is running"

ASSUME AmountsInt == Amounts \subseteq Int
ASSUME NobodyAssumption == Nobody \notin Txs

VARIABLES
    accounts,  \* the users with rows in wallet_accounts and wallet_balances
    balance,   \* available_gwei of every user
    entries,   \* the rows of wallet_ledger_entries
    lock,      \* the transaction that has a user's balance row FOR UPDATE
    tx         \* the transactions

vars == <<accounts, balance, entries, lock, tx>>

Entries == [user : Users, key : Keys, amount : Amounts]

PC == {"idle", "find", "lock", "funds", "insert", "update",
       "ok", "refused", "error"}

Idle == [pc |-> "idle", entry |-> NoEntry, balance |-> 0]

Init ==
    /\ accounts = {}
    /\ balance = [u \in Users |-> 0]
    /\ entries = {}
    /\ lock = [u \in Users |-> Nobody]
    /\ tx = [t \in Txs |-> Idle]
-----------------------------------------------------------------------------
(* ProvisionUser: user.created may be delivered more than once, and the    *)
(* inserts then do nothing.                                                *)
ProvisionUser(u) ==
    /\ accounts' = accounts \cup {u}
    /\ balance' = IF u \in accounts THEN balance
                                    ELSE [balance EXCEPT ![u] = 0]
    /\ UNCHANGED <<entries, lock, tx>>

At(t, pc) == tx[t].pc = pc
User(t)   == tx[t].entry.user
Key(t)    == tx[t].entry.key
NewBalance(t) == tx[t].balance + tx[t].entry.amount

GoTo(t, pc) == tx' = [tx EXCEPT ![t].pc = pc]

(* The end of a transaction gives back its lock. *)
Unlocked(t) == [u \in Users |-> IF lock[u] = t THEN Nobody ELSE lock[u]]

(* withTx and the call of applyLedgerEntryTx. *)
BeginTx(t, e) ==
    /\ At(t, "idle")
    /\ tx' = [tx EXCEPT ![t] = [pc |-> "find", entry |-> e, balance |-> 0]]
    /\ UNCHANGED <<accounts, balance, entries, lock>>

FindExistingMutant(t) ==  \* reads uncommitted entries
    /\ At(t, "find")
    /\ GoTo(t, IF \/ \E e \in entries : e.key = Key(t)
                  \/ \E o \in Txs : At(o, "update") /\ Key(o) = Key(t)
               THEN "ok" ELSE "lock")
    /\ UNCHANGED <<accounts, balance, entries, lock>>

(* SELECT id ... WHERE idempotency_key: an entry that exists is a success. *)
FindExisting(t) ==
    /\ At(t, "find")
    /\ GoTo(t, IF \E e \in entries : e.key = Key(t) THEN "ok" ELSE "lock")
    /\ UNCHANGED <<accounts, balance, entries, lock>>

LockBalanceMutant(t) ==  \* without FOR UPDATE
    /\ At(t, "lock")
    /\ IF User(t) \in accounts
       THEN tx' = [tx EXCEPT ![t].pc = "funds", ![t].balance = balance[User(t)]]
       ELSE GoTo(t, "refused")
    /\ UNCHANGED <<accounts, balance, entries, lock>>

(* SELECT available_gwei ... FOR UPDATE. *)
LockBalance(t) ==
    /\ At(t, "lock")
    /\ \/ /\ User(t) \in accounts
          /\ lock[User(t)] = Nobody
          /\ lock' = [lock EXCEPT ![User(t)] = t]
          /\ tx' = [tx EXCEPT ![t].pc = "funds",
                              ![t].balance = balance[User(t)]]
       \/ /\ User(t) \notin accounts
          /\ GoTo(t, "refused")
          /\ UNCHANGED lock
    /\ UNCHANGED <<accounts, balance, entries>>

CheckFundsMutant(t) ==  \* the transaction is not rolled back
    /\ At(t, "funds")
    /\ GoTo(t, IF NewBalance(t) < 0 THEN "refused" ELSE "insert")
    /\ UNCHANGED <<accounts, balance, entries, lock>>

CheckFunds(t) ==
    /\ At(t, "funds")
    /\ \/ /\ NewBalance(t) >= 0
          /\ GoTo(t, "insert")
          /\ UNCHANGED lock
       \/ /\ NewBalance(t) < 0
          /\ GoTo(t, "refused")
          /\ lock' = Unlocked(t)
    /\ UNCHANGED <<accounts, balance, entries>>

(* Another transaction has inserted the key and may still commit it. *)
KeyIsPending(t) ==
    \E o \in Txs \ {t} : At(o, "update") /\ Key(o) = Key(t)

InsertEntryMutant(t) ==  \* no unique index on idempotency_key
    /\ At(t, "insert")
    /\ GoTo(t, "update")
    /\ UNCHANGED <<accounts, balance, entries, lock>>

(* INSERT INTO wallet_ledger_entries.  The unique index makes it wait or   *)
(* fail; a failed insert aborts the transaction, and although              *)
(* applyLedgerEntryTx then returns nil, Commit answers with an error.      *)
InsertEntry(t) ==
    /\ At(t, "insert")
    /\ ~KeyIsPending(t)
    /\ \/ /\ ~\E e \in entries : e.key = Key(t)
          /\ GoTo(t, "update")
          /\ UNCHANGED lock
       \/ /\ \E e \in entries : e.key = Key(t)
          /\ GoTo(t, "error")
          /\ lock' = Unlocked(t)
    /\ UNCHANGED <<accounts, balance, entries>>

(* UPDATE wallet_balances and COMMIT.  The answer to the commit may get    *)
(* lost: the caller then has an error, and the entry is there.             *)
UpdateAndCommit(t) ==
    /\ At(t, "update")
    /\ balance' = [balance EXCEPT ![User(t)] = NewBalance(t)]
    /\ entries' = entries \cup {tx[t].entry}
    /\ lock' = Unlocked(t)
    /\ \E answer \in {"ok", "error"} : GoTo(t, answer)
    /\ UNCHANGED accounts

(* A statement, the commit or the connection fails. *)
Rollback(t) ==
    /\ tx[t].pc \in {"find", "lock", "funds", "insert", "update"}
    /\ GoTo(t, "error")
    /\ lock' = Unlocked(t)
    /\ UNCHANGED <<accounts, balance, entries>>

(* The caller has its answer and may call again, with the same entry too. *)
Return(t) ==
    /\ tx[t].pc \in {"ok", "refused", "error"}
    /\ tx' = [tx EXCEPT ![t] = Idle]
    /\ UNCHANGED <<accounts, balance, entries, lock>>

Next ==
    \/ \E u \in Users : ProvisionUser(u)
    \/ \E t \in Txs :
          \/ \E e \in Entries : BeginTx(t, e)
          \/ FindExisting(t)
          \/ LockBalance(t)
          \/ CheckFunds(t)
          \/ InsertEntry(t)
          \/ UpdateAndCommit(t)
          \/ Rollback(t)
          \/ Return(t)

Spec == Init /\ [][Next]_vars
-----------------------------------------------------------------------------
(* Properties. *)

(* The rows and the transactions have their types; no balance is negative. *)
TypeOK ==
    /\ accounts \subseteq Users
    /\ balance \in [Users -> Nat]
    /\ entries \subseteq Entries
    /\ lock \in [Users -> Txs \cup {Nobody}]
    /\ tx \in [Txs -> [pc : PC, entry : Entries \cup {NoEntry}, balance : Int]]

AmountOf     == [e \in Entries |-> e.amount]
EntriesOf(u) == {e \in entries : e.user = u}

(* The balance applyLedgerEntryTx writes without looking again is right:   *)
(* whatever transactions run beside it, a user's balance is the sum of the *)
(* user's entries, and never negative.                                     *)
BalanceIsSumOfEntries ==
    /\ TypeOK
    /\ \A u \in Users : balance[u] = SumFunctionOnSet(AmountOf, EntriesOf(u))

(* A caller that is told "ok" may rely on the entry: one with its key is   *)
(* committed, by this call or by an earlier one.                           *)
OkIsDurable ==
    \A t \in Txs : At(t, "ok") => \E e \in entries : e.key = Key(t)

(* What a transaction waits for. *)
Waits(t) ==
    \/ At(t, "lock") /\ User(t) \in accounts /\ lock[User(t)] # Nobody
    \/ At(t, "insert") /\ KeyIsPending(t)

(* No deadlock in the database: the row lock comes before the key, so of   *)
(* the transactions that run one can always go on, and a lock is always    *)
(* held by a transaction that still runs.                                  *)
NoDeadlock ==
    /\ (\E t \in Txs : Waits(t)) =>
          \E t \in Txs : tx[t].pc \in {"funds", "insert", "update"} /\ ~Waits(t)
    /\ \A u \in Users :
          lock[u] # Nobody => tx[lock[u]].pc \in {"funds", "insert", "update"}

Atomic == INSTANCE AtomicLedger

(* The transactions implement the ledger its callers are promised. *)
ImplementsAtomicLedger == Atomic!Spec
=============================================================================
