---------------------------- MODULE LedgerProofs ----------------------------
(***************************************************************************)
(* For any users, keys, amounts and number of connections, the wallet's    *)
(* transactions implement AtomicLedger, keep balances the sums of their    *)
(* entries, and never wait for each other in a circle; and every linked    *)
(* address is proven, for any number of confirmations.                     *)
(***************************************************************************)
EXTENDS Wallet, ChipsProofs

Holding == {"funds", "insert", "update"}

(* A transaction runs with an entry. *)
EntryGiven == \A t \in Txs : ~At(t, "idle") => tx[t].entry \in Entries

(* A transaction past FOR UPDATE has its user's row, and the balance it    *)
(* has read is still the user's balance.                                   *)
LockedBalance ==
    \A t \in Txs : tx[t].pc \in Holding =>
        /\ User(t) \in accounts
        /\ lock[User(t)] = t
        /\ tx[t].balance = balance[User(t)]

(* A lock is held by a transaction that runs for that user. *)
LockHolder ==
    \A u \in Users : lock[u] # Nobody =>
        tx[lock[u]].pc \in Holding /\ User(lock[u]) = u

Funded == \A t \in Txs : tx[t].pc \in {"insert", "update"} => NewBalance(t) >= 0

(* A key that was inserted is nobody else's. *)
KeyTaken ==
    \A t \in Txs : At(t, "update") =>
        /\ \A e \in entries : e.key # Key(t)
        /\ \A o \in Txs : At(o, "update") /\ Key(o) = Key(t) => o = t

NoAccountNoMoney == \A u \in Users \ accounts : balance[u] = 0

LedgerInv ==
    /\ TypeOK
    /\ EntryGiven
    /\ LockedBalance
    /\ LockHolder
    /\ Funded
    /\ KeyTaken
    /\ NoAccountNoMoney
    /\ OkIsDurable
-----------------------------------------------------------------------------
(* ProvisionUser changes the accounts only: a user without an account has  *)
(* a balance of zero already.                                              *)
LEMMA ProvisionKeepsBalance ==
    ASSUME LedgerInv, NEW u \in Users, ProvisionUser(u)
    PROVE  balance' = balance
BY DEF LedgerInv, TypeOK, NoAccountNoMoney, ProvisionUser

(* The first state satisfies the invariant. *)
LEMMA LedgerInit == Init => LedgerInv
BY NobodyAssumption
DEF Init, LedgerInv, TypeOK, EntryGiven, LockedBalance, LockHolder, Funded, KeyTaken,
    NoAccountNoMoney, OkIsDurable, Idle, PC, Holding, At

(* Every step keeps the invariant. *)
LEMMA LedgerStep == LedgerInv /\ [Next]_vars => LedgerInv'
<1> SUFFICES ASSUME LedgerInv, [Next]_vars PROVE LedgerInv'
    OBVIOUS
<1> USE AmountsInt, NobodyAssumption DEF LedgerInv, At, GoTo, User, Key, Idle
<1>1. ASSUME NEW u \in Users, ProvisionUser(u) PROVE LedgerInv'
  <2>1. balance' = balance
    BY <1>1, ProvisionKeepsBalance
  <2>2. /\ accounts' = accounts \cup {u}
        /\ entries' = entries /\ lock' = lock /\ tx' = tx
    BY <1>1 DEF ProvisionUser
  <2> QED
    BY <2>1, <2>2 DEF TypeOK, EntryGiven, LockedBalance, LockHolder, Funded,
       KeyTaken, NoAccountNoMoney, OkIsDurable, Holding, NewBalance
<1>2. ASSUME NEW t \in Txs, NEW e \in Entries, BeginTx(t, e) PROVE LedgerInv'
  <2>1. TypeOK'
    BY <1>2 DEF TypeOK, BeginTx, PC, EntryGiven, Funded, Entries, NewBalance
  <2>2. EntryGiven'
    BY <1>2 DEF TypeOK, EntryGiven, BeginTx
  <2>3. LockedBalance'
    BY <1>2 DEF TypeOK, EntryGiven, LockedBalance, LockHolder, BeginTx, Holding, Entries
  <2>4. LockHolder'
    BY <1>2 DEF TypeOK, EntryGiven, LockedBalance, LockHolder, BeginTx, Holding, Entries
  <2>5. Funded'
    BY <1>2 DEF TypeOK, EntryGiven, LockedBalance, Funded, NewBalance, BeginTx, Holding, Entries
  <2>6. KeyTaken'
    BY <1>2 DEF TypeOK, EntryGiven, KeyTaken, BeginTx, Entries
  <2>7. NoAccountNoMoney'
    BY <1>2 DEF TypeOK, EntryGiven, LockedBalance, NoAccountNoMoney, NewBalance, BeginTx, Holding, Entries
  <2>8. OkIsDurable'
    BY <1>2 DEF TypeOK, EntryGiven, OkIsDurable, BeginTx, Entries
  <2> QED
    BY <2>1, <2>2, <2>3, <2>4, <2>5, <2>6, <2>7, <2>8
<1>3. ASSUME NEW t \in Txs, FindExisting(t) PROVE LedgerInv'
  <2>1. TypeOK'
    BY <1>3 DEF TypeOK, FindExisting, PC, EntryGiven, Funded, Entries, NewBalance
  <2>2. EntryGiven'
    BY <1>3 DEF TypeOK, EntryGiven, FindExisting
  <2>3. LockedBalance'
    BY <1>3 DEF TypeOK, EntryGiven, LockedBalance, LockHolder, FindExisting, Holding, Entries
  <2>4. LockHolder'
    BY <1>3 DEF TypeOK, EntryGiven, LockedBalance, LockHolder, FindExisting, Holding, Entries
  <2>5. Funded'
    BY <1>3 DEF TypeOK, EntryGiven, LockedBalance, Funded, NewBalance, FindExisting, Holding, Entries
  <2>6. KeyTaken'
    BY <1>3 DEF TypeOK, EntryGiven, KeyTaken, FindExisting, Entries
  <2>7. NoAccountNoMoney'
    BY <1>3 DEF TypeOK, EntryGiven, LockedBalance, NoAccountNoMoney, NewBalance, FindExisting, Holding, Entries
  <2>8. OkIsDurable'
    BY <1>3 DEF TypeOK, EntryGiven, OkIsDurable, FindExisting, Entries
  <2> QED
    BY <2>1, <2>2, <2>3, <2>4, <2>5, <2>6, <2>7, <2>8
<1>4. ASSUME NEW t \in Txs, LockBalance(t) PROVE LedgerInv'
  <2>1. TypeOK'
    BY <1>4 DEF TypeOK, LockBalance, PC, EntryGiven, Funded, Entries, NewBalance
  <2>2. EntryGiven'
    BY <1>4 DEF TypeOK, EntryGiven, LockBalance
  <2>3. LockedBalance'
    BY <1>4 DEF TypeOK, EntryGiven, LockedBalance, LockHolder, LockBalance, Holding, Entries
  <2>4. LockHolder'
    BY <1>4, SMTT(40) DEF TypeOK, EntryGiven, LockedBalance, LockHolder, LockBalance, Holding, Entries
  <2>5. Funded'
    BY <1>4 DEF TypeOK, EntryGiven, LockedBalance, Funded, NewBalance, LockBalance, Holding, Entries
  <2>6. KeyTaken'
    <3>1. \A o \in Txs : /\ tx'[o].entry = tx[o].entry
                         /\ tx'[o].pc = "update" <=> tx[o].pc = "update"
      BY <1>4 DEF TypeOK, LockBalance
    <3> QED
      BY <1>4, <3>1 DEF TypeOK, EntryGiven, KeyTaken, LockBalance, Entries
  <2>7. NoAccountNoMoney'
    BY <1>4 DEF TypeOK, EntryGiven, LockedBalance, NoAccountNoMoney, NewBalance, LockBalance, Holding, Entries
  <2>8. OkIsDurable'
    <3>1. \A o \in Txs : /\ tx'[o].entry = tx[o].entry
                         /\ tx'[o].pc = "ok" <=> tx[o].pc = "ok"
      BY <1>4 DEF TypeOK, LockBalance
    <3> QED
      BY <1>4, <3>1 DEF TypeOK, EntryGiven, OkIsDurable, LockBalance, Entries
  <2> QED
    BY <2>1, <2>2, <2>3, <2>4, <2>5, <2>6, <2>7, <2>8
<1>5. ASSUME NEW t \in Txs, CheckFunds(t) PROVE LedgerInv'
  <2>1. TypeOK'
    BY <1>5 DEF TypeOK, CheckFunds, Unlocked, PC, EntryGiven, Funded, Entries, NewBalance
  <2>2. EntryGiven'
    BY <1>5 DEF TypeOK, EntryGiven, CheckFunds, Unlocked
  <2>3. LockedBalance'
    BY <1>5 DEF TypeOK, EntryGiven, LockedBalance, LockHolder, CheckFunds, Unlocked, Holding, Entries
  <2>4. LockHolder'
    BY <1>5 DEF TypeOK, EntryGiven, LockedBalance, LockHolder, CheckFunds, Unlocked, Holding, Entries
  <2>5. Funded'
    BY <1>5 DEF TypeOK, EntryGiven, LockedBalance, Funded, NewBalance, CheckFunds, Unlocked, Holding, Entries
  <2>6. KeyTaken'
    BY <1>5 DEF TypeOK, EntryGiven, KeyTaken, CheckFunds, Unlocked, Entries
  <2>7. NoAccountNoMoney'
    BY <1>5 DEF TypeOK, EntryGiven, LockedBalance, NoAccountNoMoney, NewBalance, CheckFunds, Unlocked, Holding, Entries
  <2>8. OkIsDurable'
    BY <1>5 DEF TypeOK, EntryGiven, OkIsDurable, CheckFunds, Unlocked, Entries
  <2> QED
    BY <2>1, <2>2, <2>3, <2>4, <2>5, <2>6, <2>7, <2>8
<1>6. ASSUME NEW t \in Txs, InsertEntry(t) PROVE LedgerInv'
  <2>1. TypeOK'
    BY <1>6 DEF TypeOK, InsertEntry, Unlocked, KeyIsPending, PC, EntryGiven, Funded, Entries, NewBalance
  <2>2. EntryGiven'
    BY <1>6 DEF TypeOK, EntryGiven, InsertEntry, Unlocked, KeyIsPending
  <2>3. LockedBalance'
    BY <1>6 DEF TypeOK, EntryGiven, LockedBalance, LockHolder, InsertEntry, Unlocked, KeyIsPending, Holding, Entries
  <2>4. LockHolder'
    BY <1>6 DEF TypeOK, EntryGiven, LockedBalance, LockHolder, InsertEntry, Unlocked, KeyIsPending, Holding, Entries
  <2>5. Funded'
    BY <1>6 DEF TypeOK, EntryGiven, LockedBalance, Funded, NewBalance, InsertEntry, Unlocked, KeyIsPending, Holding, Entries
  <2>6. KeyTaken'
    BY <1>6 DEF TypeOK, EntryGiven, KeyTaken, InsertEntry, Unlocked, KeyIsPending, Entries
  <2>7. NoAccountNoMoney'
    BY <1>6 DEF TypeOK, EntryGiven, LockedBalance, NoAccountNoMoney, NewBalance, InsertEntry, Unlocked, KeyIsPending, Holding, Entries
  <2>8. OkIsDurable'
    BY <1>6 DEF TypeOK, EntryGiven, OkIsDurable, InsertEntry, Unlocked, KeyIsPending, Entries
  <2> QED
    BY <2>1, <2>2, <2>3, <2>4, <2>5, <2>6, <2>7, <2>8
<1>7. ASSUME NEW t \in Txs, UpdateAndCommit(t) PROVE LedgerInv'
  <2>1. TypeOK'
    BY <1>7 DEF TypeOK, UpdateAndCommit, Unlocked, PC, EntryGiven, Funded, Entries, NewBalance
  <2>2. EntryGiven'
    BY <1>7 DEF TypeOK, EntryGiven, UpdateAndCommit, Unlocked
  <2>3. LockedBalance'
    BY <1>7 DEF TypeOK, EntryGiven, LockedBalance, LockHolder, UpdateAndCommit, Unlocked, Holding, Entries
  <2>4. LockHolder'
    BY <1>7 DEF TypeOK, EntryGiven, LockedBalance, LockHolder, UpdateAndCommit, Unlocked, Holding, Entries
  <2>5. Funded'
    BY <1>7 DEF TypeOK, EntryGiven, LockedBalance, Funded, NewBalance, UpdateAndCommit, Unlocked, Holding, Entries
  <2>6. KeyTaken'
    BY <1>7 DEF TypeOK, EntryGiven, KeyTaken, UpdateAndCommit, Unlocked, Entries
  <2>7. NoAccountNoMoney'
    BY <1>7 DEF TypeOK, EntryGiven, LockedBalance, NoAccountNoMoney, NewBalance, UpdateAndCommit, Unlocked, Holding, Entries
  <2>8. OkIsDurable'
    BY <1>7 DEF TypeOK, EntryGiven, OkIsDurable, UpdateAndCommit, Unlocked, Entries
  <2> QED
    BY <2>1, <2>2, <2>3, <2>4, <2>5, <2>6, <2>7, <2>8
<1>8. ASSUME NEW t \in Txs, Rollback(t) PROVE LedgerInv'
  <2>1. TypeOK'
    BY <1>8 DEF TypeOK, Rollback, Unlocked, PC, EntryGiven, Funded, Entries, NewBalance
  <2>2. EntryGiven'
    BY <1>8 DEF TypeOK, EntryGiven, Rollback, Unlocked
  <2>3. LockedBalance'
    BY <1>8 DEF TypeOK, EntryGiven, LockedBalance, LockHolder, Rollback, Unlocked, Holding, Entries
  <2>4. LockHolder'
    BY <1>8 DEF TypeOK, EntryGiven, LockedBalance, LockHolder, Rollback, Unlocked, Holding, Entries
  <2>5. Funded'
    BY <1>8 DEF TypeOK, EntryGiven, LockedBalance, Funded, NewBalance, Rollback, Unlocked, Holding, Entries
  <2>6. KeyTaken'
    BY <1>8 DEF TypeOK, EntryGiven, KeyTaken, Rollback, Unlocked, Entries
  <2>7. NoAccountNoMoney'
    BY <1>8 DEF TypeOK, EntryGiven, LockedBalance, NoAccountNoMoney, NewBalance, Rollback, Unlocked, Holding, Entries
  <2>8. OkIsDurable'
    BY <1>8 DEF TypeOK, EntryGiven, OkIsDurable, Rollback, Unlocked, Entries
  <2> QED
    BY <2>1, <2>2, <2>3, <2>4, <2>5, <2>6, <2>7, <2>8
<1>9. ASSUME NEW t \in Txs, Return(t) PROVE LedgerInv'
  <2>1. TypeOK'
    BY <1>9 DEF TypeOK, Return, PC, EntryGiven, Funded, Entries, NewBalance
  <2>2. EntryGiven'
    BY <1>9 DEF TypeOK, EntryGiven, Return
  <2>3. LockedBalance'
    BY <1>9 DEF TypeOK, EntryGiven, LockedBalance, LockHolder, Return, Holding, Entries
  <2>4. LockHolder'
    BY <1>9 DEF TypeOK, EntryGiven, LockedBalance, LockHolder, Return, Holding, Entries
  <2>5. Funded'
    BY <1>9 DEF TypeOK, EntryGiven, LockedBalance, Funded, NewBalance, Return, Holding, Entries
  <2>6. KeyTaken'
    BY <1>9 DEF TypeOK, EntryGiven, KeyTaken, Return, Entries
  <2>7. NoAccountNoMoney'
    BY <1>9 DEF TypeOK, EntryGiven, LockedBalance, NoAccountNoMoney, NewBalance, Return, Holding, Entries
  <2>8. OkIsDurable'
    BY <1>9 DEF TypeOK, EntryGiven, OkIsDurable, Return, Entries
  <2> QED
    BY <2>1, <2>2, <2>3, <2>4, <2>5, <2>6, <2>7, <2>8
<1>10. CASE UNCHANGED vars
  BY <1>10 DEF vars, LedgerInv, TypeOK, EntryGiven, LockedBalance, LockHolder, Funded,
     KeyTaken, NoAccountNoMoney, OkIsDurable, Holding, At, User, Key, NewBalance
<1> QED
  BY <1>1, <1>2, <1>3, <1>4, <1>5, <1>6, <1>7, <1>8, <1>9, <1>10 DEF Next

(* The invariant holds of every behaviour. *)
THEOREM LedgerInvHolds == Spec => []LedgerInv
<1> QED BY LedgerInit, LedgerStep, PTL DEF Spec

(* No balance goes below zero and every row has its type, whatever         *)
(* transactions run beside each other.                                     *)
THEOREM LedgerTypeCorrect == Spec => []TypeOK
<1>1. LedgerInv => TypeOK
  BY DEF LedgerInv
<1> QED BY <1>1, LedgerInvHolds, PTL

(* A caller of ApplyLedgerEntry that is told "ok" may rely on the entry. *)
THEOREM OkIsDurableHolds == Spec => []OkIsDurable
<1>1. LedgerInv => OkIsDurable
  BY DEF LedgerInv
<1> QED BY <1>1, LedgerInvHolds, PTL

(* The wallet's transactions never wait for each other in a circle: who    *)
(* waits for a row waits for a transaction past FOR UPDATE, who waits for  *)
(* a key waits for one that only has to commit.                            *)
THEOREM NoDeadlockHolds == Spec => []NoDeadlock
<1>1. LedgerInv => NoDeadlock
  <2> SUFFICES ASSUME LedgerInv PROVE NoDeadlock
    OBVIOUS
  <2>1. ASSUME NEW t \in Txs, KeyIsPending(t)
        PROVE  \E o \in Txs : tx[o].pc \in {"funds", "insert", "update"} /\ ~Waits(o)
    BY <2>1 DEF KeyIsPending, Waits, At
  <2>2. ASSUME NEW t \in Txs, Waits(t)
        PROVE  \E o \in Txs : tx[o].pc \in {"funds", "insert", "update"} /\ ~Waits(o)
    <3>1. CASE At(t, "insert") /\ KeyIsPending(t)
      BY <2>1, <3>1
    <3>2. CASE At(t, "lock") /\ lock[User(t)] # Nobody
      <4> DEFINE holder == lock[User(t)]
      <4>1. holder \in Txs /\ tx[holder].pc \in Holding
        BY <3>2 DEF LedgerInv, TypeOK, EntryGiven, LockHolder, At, User, Entries
      <4>2. CASE ~Waits(holder)
        BY <4>1, <4>2 DEF Holding
      <4>3. CASE Waits(holder)
        BY <4>1, <4>3, <2>1 DEF Waits, At, Holding
      <4> QED BY <4>2, <4>3
    <3> QED BY <2>2, <3>1, <3>2 DEF Waits
  <2> QED
    BY <2>2 DEF NoDeadlock, LedgerInv, LockHolder, Holding
<1> QED BY <1>1, LedgerInvHolds, PTL

(* Every step of the transactions is a step of the atomic ledger or        *)
(* changes nothing that a caller can see: UpdateAndCommit is the           *)
(* application of the entry, the first ProvisionUser of a user opens the   *)
(* account.                                                                *)
LEMMA StepIsAtomic == LedgerInv /\ [Next]_vars => [Atomic!Next]_(Atomic!ledger)
<1> SUFFICES ASSUME LedgerInv, [Next]_vars
             PROVE  [Atomic!Next]_(Atomic!ledger)
  OBVIOUS
<1> USE DEF Atomic!ledger
<1>1. ASSUME NEW u \in Users, ProvisionUser(u) PROVE [Atomic!Next]_(Atomic!ledger)
  <2>1. balance' = balance
    BY <1>1, ProvisionKeepsBalance
  <2>2. CASE u \in accounts
    BY <1>1, <2>1, <2>2 DEF ProvisionUser
  <2>3. CASE u \notin accounts
    BY <1>1, <2>1, <2>3 DEF ProvisionUser, Atomic!Next, Atomic!Open
  <2> QED BY <2>2, <2>3
<1>2. ASSUME NEW t \in Txs, UpdateAndCommit(t) PROVE [Atomic!Next]_(Atomic!ledger)
  <2> DEFINE e == tx[t].entry
  <2>1. e \in Entries /\ e \in Atomic!Entries
    BY <1>2 DEF LedgerInv, EntryGiven, UpdateAndCommit, At, Entries, Atomic!Entries
  <2>2. /\ e.user \in accounts
        /\ tx[t].balance = balance[e.user]
        /\ tx[t].balance + e.amount >= 0
        /\ \A f \in entries : f.key # e.key
    BY <1>2 DEF LedgerInv, LockedBalance, Funded, KeyTaken, UpdateAndCommit, At, Holding,
       User, Key, NewBalance
  <2>3. Atomic!Apply(e)
    BY <1>2, <2>1, <2>2 DEF UpdateAndCommit, Atomic!Apply, Atomic!Applied, User, NewBalance
  <2> QED BY <2>1, <2>3 DEF Atomic!Next
<1>3. ASSUME NEW t \in Txs, NEW e \in Entries, BeginTx(t, e)
      PROVE  UNCHANGED Atomic!ledger
  BY <1>3 DEF BeginTx
<1>4. ASSUME NEW t \in Txs,
             \/ FindExisting(t) \/ LockBalance(t) \/ CheckFunds(t)
             \/ InsertEntry(t) \/ Rollback(t) \/ Return(t)
      PROVE  UNCHANGED Atomic!ledger
  BY <1>4 DEF FindExisting, LockBalance, CheckFunds, InsertEntry, Rollback, Return
<1>5. CASE UNCHANGED vars
  BY <1>5 DEF vars
<1> QED
  BY <1>1, <1>2, <1>3, <1>4, <1>5 DEF Next

(* The atomic ledger keeps every balance at the sum of the user's entries: *)
(* it applies an entry that is not in the ledger yet, as no entry has its  *)
(* key, and adds its amount to the balance of its user only.               *)
Summed ==
    /\ IsFiniteSet(entries)
    /\ \A u \in Users : balance[u] = SumFunctionOnSet(AmountOf, EntriesOf(u))

LEMMA AtomicKeepsSums ==
    ASSUME TypeOK, Summed, [Atomic!Next]_(Atomic!ledger)
    PROVE  Summed'
<1>1. ASSUME NEW e \in Atomic!Entries, Atomic!Apply(e) PROVE Summed'
  <2>1. /\ e \in Entries /\ e \notin entries
        /\ entries' = entries \cup {e}
        /\ balance' = [balance EXCEPT ![e.user] = @ + e.amount]
    BY <1>1 DEF Atomic!Apply, Atomic!Applied, Atomic!Entries, Entries
  <2>2. IsFiniteSet(entries')
    BY <2>1, FS_AddElement DEF Summed
  <2>3. ASSUME NEW u \in Users
        PROVE  balance'[u] = SumFunctionOnSet(AmountOf, EntriesOf(u)')
    <3>1. \A s \in entries \cup {e} : AmountOf[s] \in Int
      BY <2>1, AmountsInt DEF TypeOK, AmountOf, Entries
    <3>2. IsFiniteSet(EntriesOf(u))
      <4>1. EntriesOf(u) \subseteq entries
        BY DEF EntriesOf
      <4> QED
        BY <4>1, FS_Subset DEF Summed
    <3>3. CASE e.user = u
      <4>1. EntriesOf(u)' = EntriesOf(u) \cup {e} /\ e \notin EntriesOf(u)
        BY <2>1, <3>3 DEF EntriesOf
      <4>2. \A s \in EntriesOf(u) \cup {e} : AmountOf[s] \in Int
        BY <3>1 DEF EntriesOf
      <4>3. SumFunctionOnSet(AmountOf, EntriesOf(u) \cup {e})
              = SumFunctionOnSet(AmountOf, EntriesOf(u)) + AmountOf[e]
        BY <3>2, <4>1, <4>2, SumOnAdd
      <4>4. AmountOf[e] = e.amount
        BY <2>1 DEF AmountOf
      <4>5. balance'[u] = balance[u] + e.amount
        BY <2>1, <3>3 DEF TypeOK
      <4> QED
        BY <4>1, <4>3, <4>4, <4>5 DEF Summed
    <3>4. CASE e.user # u
      <4>1. EntriesOf(u)' = EntriesOf(u)
        BY <2>1, <3>4 DEF EntriesOf
      <4>2. balance'[u] = balance[u]
        BY <2>1, <3>4 DEF TypeOK
      <4> QED
        BY <4>1, <4>2 DEF Summed
    <3> QED
      BY <3>3, <3>4
  <2>4. AmountOf' = AmountOf
    BY DEF AmountOf, Entries
  <2> QED
    BY <2>2, <2>3, <2>4 DEF Summed
<1>2. ASSUME UNCHANGED <<balance, entries>> PROVE Summed'
  BY <1>2 DEF Summed, EntriesOf, AmountOf, Entries
<1> QED
  BY <1>1, <1>2 DEF Atomic!Next, Atomic!Open, Atomic!ledger

(* The balance applyLedgerEntryTx writes without looking again is the sum  *)
(* of the user's entries, whatever transactions run beside it.             *)
THEOREM BalanceIsSumOfEntriesHolds == Spec => []BalanceIsSumOfEntries
<1>1. Init => Summed
  <2> SUFFICES ASSUME Init PROVE Summed
    OBVIOUS
  <2>1. IsFiniteSet(entries)
    BY FS_EmptySet DEF Init
  <2>2. ASSUME NEW u \in Users
        PROVE  EntriesOf(u) = {} /\ balance[u] = 0
    BY DEF Init, EntriesOf
  <2> QED
    BY <2>1, <2>2, SumOnEmpty DEF Summed
<1>2. LedgerInv /\ Summed /\ [Next]_vars => Summed'
  BY StepIsAtomic, AtomicKeepsSums DEF LedgerInv
<1>3. LedgerInv /\ Summed => BalanceIsSumOfEntries
  BY DEF LedgerInv, Summed, BalanceIsSumOfEntries
<1> QED
  BY <1>1, <1>2, <1>3, LedgerInvHolds, PTL DEF Spec

(* The transactions implement the ledger its callers are promised. *)
THEOREM LedgerRefinement == Spec => ImplementsAtomicLedger
<1>1. Init => Atomic!Init
  BY DEF Init, Atomic!Init
<1> QED
  BY <1>1, StepIsAtomic, LedgerInvHolds, PTL DEF Spec, ImplementsAtomicLedger, Atomic!Spec
-----------------------------------------------------------------------------
(* The wallet's linked addresses, which have no table in common with the   *)
(* ledger.                                                                 *)

LinkTypes ==
    /\ challenge \in [Challenges -> LinkChallenges \cup {Nobody}]
    /\ links \subseteq [id : Calls, user : Users, address : Addresses, by : Challenges]
    /\ call \in [Calls -> Challenges \cup {Nobody}]

(* A challenge that a call has checked stays, and with it the signature:   *)
(* only its consumption may come in between.                               *)
CheckedIsSigned ==
    \A k \in Calls : call[k] # Nobody =>
        /\ challenge[call[k]] # Nobody
        /\ <<challenge[call[k]].user, challenge[call[k]].address>> \in Owns

(* A link has a challenge that it has consumed, and an address of its own. *)
LinkIsBacked ==
    /\ \A l \in links :
          /\ <<l.user, l.address>> \in Owns
          /\ challenge[l.by] = [user |-> l.user, address |-> l.address, consumed |-> TRUE]
    /\ \A l, m \in links :
          l.by = m.by \/ (l.user = m.user /\ l.address = m.address) => l = m

ConsumedByLink ==
    \A c \in Challenges :
        challenge[c] # Nobody /\ challenge[c].consumed => \E l \in links : l.by = c

LinkInv == LinkTypes /\ CheckedIsSigned /\ LinkIsBacked /\ ConsumedByLink

(* ConfirmLinkChallenge: a challenge that is not consumed makes a link. *)
LEMMA ConfirmKeepsLinks ==
    ASSUME LinkInv, NEW k \in Calls,
           Links!ConfirmLinkChallenge(k)
    PROVE  LinkInv'
<1> USE ChallengesAssumption
<1> DEFINE c == call[k]
           l == Links!Link(k)
<1>1. /\ c # Nobody /\ call' = [call EXCEPT ![k] = Nobody]
      /\ \/ UNCHANGED <<challenge, links>>
         \/ /\ ~challenge[c].consumed /\ ~Links!IsLinked(c)
            /\ challenge' = [challenge EXCEPT ![c].consumed = TRUE]
            /\ links' = links \cup {l}
  BY DEF Links!ConfirmLinkChallenge
<1>2. /\ c \in Challenges /\ challenge[c] \in LinkChallenges
      /\ <<challenge[c].user, challenge[c].address>> \in Owns
      /\ call' \in [Calls -> Challenges \cup {Nobody}]
      /\ \A j \in Calls : call'[j] # Nobody => call'[j] = call[j]
  BY <1>1 DEF LinkInv, LinkTypes, CheckedIsSigned
<1>3. CASE UNCHANGED <<challenge, links>>
  BY <1>2, <1>3 DEF LinkInv, LinkTypes, CheckedIsSigned, LinkIsBacked, ConsumedByLink
<1>4. CASE /\ ~challenge[c].consumed /\ ~Links!IsLinked(c)
           /\ challenge' = [challenge EXCEPT ![c].consumed = TRUE]
           /\ links' = links \cup {l}
  <2> DEFINE ch == [user |-> challenge[c].user, address |-> challenge[c].address,
                    consumed |-> TRUE]
  <2>1. /\ challenge'[c] = ch /\ ch \in LinkChallenges
        /\ \A d \in Challenges : d # c => challenge'[d] = challenge[d]
        /\ challenge' \in [Challenges -> LinkChallenges \cup {Nobody}]
    BY <1>2, <1>4 DEF LinkInv, LinkTypes, LinkChallenges
  <2>2. /\ l \in [id : Calls, user : Users, address : Addresses, by : Challenges]
        /\ l.user = challenge[c].user /\ l.address = challenge[c].address /\ l.by = c
    BY <1>2 DEF Links!Link, LinkChallenges
  <2>3. ch.user = challenge[c].user /\ ch.address = challenge[c].address /\ ch.consumed
        /\ ch = [user |-> l.user, address |-> l.address, consumed |-> TRUE]
    BY <2>2
  <2> HIDE DEF c, l, ch
  <2>4. LinkTypes'
    BY <1>2, <1>4, <2>1, <2>2 DEF LinkInv, LinkTypes
  <2>5. CheckedIsSigned'
    <3> SUFFICES ASSUME NEW j \in Calls, call'[j] # Nobody
                 PROVE  /\ challenge'[call'[j]] # Nobody
                        /\ <<challenge'[call'[j]].user, challenge'[call'[j]].address>> \in Owns
      BY DEF CheckedIsSigned
    <3>1. /\ call'[j] \in Challenges
          /\ challenge[call'[j]] # Nobody
          /\ <<challenge[call'[j]].user, challenge[call'[j]].address>> \in Owns
      BY <1>2 DEF LinkInv, CheckedIsSigned
    <3> QED
      BY <1>2, <2>1, <2>3, <3>1
  <2>6. \A m \in links : /\ m.by # c
                         /\ ~(m.user = l.user /\ m.address = l.address)
                         /\ m.by \in Challenges
    <3>1. \A m \in links : ~(m.user = challenge[c].user /\ m.address = challenge[c].address)
      BY <1>4 DEF Links!IsLinked
    <3>2. ASSUME NEW m \in links PROVE m.by # c /\ m.by \in Challenges
      <4>1. challenge[m.by] = [user |-> m.user, address |-> m.address, consumed |-> TRUE]
        BY DEF LinkInv, LinkIsBacked
      <4>2. challenge[m.by].consumed
        BY <4>1
      <4> QED
        BY <1>4, <4>2 DEF LinkInv, LinkTypes
    <3> QED
      BY <2>2, <3>1, <3>2
  <2>7. LinkIsBacked'
    <3>1. ASSUME NEW m \in links'
          PROVE  /\ <<m.user, m.address>> \in Owns
                 /\ challenge'[m.by] = [user |-> m.user, address |-> m.address, consumed |-> TRUE]
      <4>1. CASE m = l
        BY <1>2, <2>1, <2>2, <2>3, <4>1
      <4>2. CASE m \in links
        BY <2>1, <2>6, <4>2 DEF LinkInv, LinkIsBacked
      <4> QED
        BY <1>4, <3>1, <4>1, <4>2
    <3>2. \A m, n \in links' : m.by = n.by \/ (m.user = n.user /\ m.address = n.address) => m = n
      BY <1>4, <2>2, <2>6 DEF LinkInv, LinkIsBacked
    <3> QED
      BY <3>1, <3>2 DEF LinkIsBacked
  <2>8. ConsumedByLink'
    BY <1>4, <2>1, <2>2 DEF LinkInv, ConsumedByLink
  <2> QED
    BY <2>4, <2>5, <2>7, <2>8 DEF LinkInv
<1> QED
  BY <1>1, <1>3, <1>4

LEMMA LinkInvHolds == Links!Spec => []LinkInv
<1> USE ChallengesAssumption
<1>1. Links!Init => LinkInv
  BY DEF Links!Init, LinkInv, LinkTypes, CheckedIsSigned, LinkIsBacked, ConsumedByLink
<1>2. LinkInv /\ [Links!Next]_(Links!vars) => LinkInv'
  <2> SUFFICES ASSUME LinkInv, [Links!Next]_(Links!vars) PROVE LinkInv'
    OBVIOUS
  <2> USE DEF LinkInv, LinkTypes, CheckedIsSigned, LinkIsBacked, ConsumedByLink
  <2>1. CASE UNCHANGED Links!vars
    BY <2>1 DEF Links!vars
  <2>2. ASSUME NEW c \in Challenges, Links!Expire(c) PROVE LinkInv'
    BY <2>2 DEF Links!Expire
  <2>3. ASSUME NEW c \in Challenges, NEW u \in Users, NEW a \in Addresses,
               Links!CreateLinkChallenge(c, u, a)
        PROVE  LinkInv'
    <3> DEFINE new == [user |-> u, address |-> a, consumed |-> FALSE]
    <3>1. /\ challenge[c] = Nobody /\ UNCHANGED <<links, call>>
          /\ challenge' = [challenge EXCEPT ![c] = new]
      BY <2>3 DEF Links!CreateLinkChallenge
    <3>2. new \in LinkChallenges /\ ~new.consumed
      BY DEF LinkChallenges
    <3> HIDE DEF new
    <3>3. /\ challenge' \in [Challenges -> LinkChallenges \cup {Nobody}]
          /\ challenge'[c] = new
          /\ \A d \in Challenges : d # c => challenge'[d] = challenge[d]
      BY <3>1, <3>2
    <3>4. \A l \in links : l.by # c /\ l.by \in Challenges
      <4> SUFFICES ASSUME NEW l \in links PROVE l.by # c /\ l.by \in Challenges
        OBVIOUS
      <4>1. [user |-> l.user, address |-> l.address, consumed |-> TRUE] \in LinkChallenges
        BY DEF LinkChallenges
      <4>2. [user |-> l.user, address |-> l.address, consumed |-> TRUE] # Nobody
        BY <4>1
      <4>3. challenge[l.by] = [user |-> l.user, address |-> l.address, consumed |-> TRUE]
        OBVIOUS
      <4>4. l.by \in Challenges
        OBVIOUS
      <4> QED
        BY <3>1, <4>2, <4>3, <4>4
    <3>5. \A k \in Calls : call[k] # Nobody => call[k] # c /\ call[k] \in Challenges
      BY <3>1
    <3>6. CheckedIsSigned'
      BY <3>1, <3>3, <3>5
    <3>7. LinkIsBacked'
      BY <3>1, <3>3, <3>4
    <3> QED
      BY <3>1, <3>2, <3>3, <3>6, <3>7
  <2>4. ASSUME NEW c \in Challenges, NEW u \in Users, NEW a \in Addresses, NEW k \in Calls,
               Links!CheckChallenge(k, c, u, a)
        PROVE  LinkInv'
    <3>1. /\ challenge[c] = [user |-> u, address |-> a, consumed |-> FALSE]
          /\ <<u, a>> \in Owns /\ UNCHANGED <<challenge, links>>
          /\ call' = [call EXCEPT ![k] = c]
      BY <2>4 DEF Links!CheckChallenge
    <3>2. challenge[c] # Nobody /\ challenge[c].user = u /\ challenge[c].address = a
      <4>1. [user |-> u, address |-> a, consumed |-> FALSE] \in LinkChallenges
        BY DEF LinkChallenges
      <4>2. challenge[c] # Nobody
        BY <3>1, <4>1
      <4> QED
        BY <3>1, <4>2
    <3>3. CheckedIsSigned'
      BY <3>1, <3>2
    <3> QED
      BY <3>1, <3>3
  <2>5. ASSUME NEW k \in Calls, Links!ConfirmLinkChallenge(k) PROVE LinkInv'
    BY <2>5, ConfirmKeepsLinks
  <2> QED
    BY <2>1, <2>2, <2>3, <2>4, <2>5 DEF Links!Next
<1> QED
  BY <1>1, <1>2, PTL DEF Links!Spec

(* Every link is backed by the user's own signature on a challenge of its  *)
(* own, for any number of challenges and of confirmations that run beside  *)
(* each other.                                                             *)
THEOREM LinksAreProvenHolds == Links!Spec => []LinksAreProven
<1>1. LinkInv => LinksAreProven
  BY DEF LinkInv, LinkIsBacked, ConsumedByLink, LinksAreProven, Links!LinksAreProven
<1> QED
  BY <1>1, LinkInvHolds, PTL
=============================================================================
