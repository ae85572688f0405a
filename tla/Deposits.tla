------------------------------ MODULE Deposits ------------------------------
(***************************************************************************)
(* Deposits: the wallet's chain runner scans the blocks for transfers to   *)
(* the users' deposit addresses, credits them once they have enough        *)
(* confirmations, and sweeps the addresses into the hot wallet.  The       *)
(* runner is one goroutine; users are provisioned and blocks are added     *)
(* between any two of its calls, and it may stop, or a call may fail,      *)
(* before any of them.  The rows survive, what the runner knows does not.  *)
(*                                                                         *)
(* The blockchain is external.  Blocks are final (no reorganisation), and  *)
(* a node that has a block has its receipts.  Amounts are left out: a      *)
(* deposit is credited or not, with the amount of its transfer.            *)
(***************************************************************************)
EXTENDS Integers, Sequences

CONSTANTS
    Users,          \* the users
    Transfers,      \* the transfers to deposit addresses, by transaction hash
    Confirmations,  \* RunnerConfig.Confirmations
    StartBlock,     \* RunnerConfig.StartBlock, zero when it is not set
    None,           \* "no such row", "no such transaction"
    MaxHeight,      \* bound: the height of the chain
    MaxSweeps,      \* bound: how many sweep transactions are sent
    MaxStops        \* bound: how often the runner stops

ASSUME ConfigAssumption == Confirmations \in Nat /\ StartBlock \in Nat
ASSUME BoundsAssumption == MaxHeight \in Nat /\ MaxSweeps \in Nat /\ MaxStops \in Nat

VARIABLES
    provisioned,  \* the users with a deposit address
    height,       \* external: the number of the latest block
    chain,        \* external: the transfers in blocks; height + 1 is the next
    sweeps,       \* external: the sweep transactions sent, in order
    cursor,       \* wallet_chain_state.block_number, or None
    firstCursor,  \* history: the first cursor
    rows,         \* wallet_deposits
    credited,     \* the transfers with a ledger entry "deposit:" + tx_hash
    runner,       \* the runner: where it is and what it has read
    stops         \* how often the runner has stopped

external == <<height, chain>>
vars == <<provisioned, height, chain, sweeps, cursor, firstCursor, rows,
          credited, runner, stops>>

Phases == {"idle", "addresses", "cursor", "observe", "confirm", "sweep",
           "sweepSent", "receipts"}
SweepIds == 1 .. MaxSweeps
Transactions == [to : Users, block : 1 .. MaxHeight + 1, ok : BOOLEAN]
SweepTransactions ==
    [user : Users, moves : SUBSET Transfers, block : 0 .. MaxHeight + 1, ok : BOOLEAN]
Deposit ==
    [user : Users, status : {"pending", "confirmed"}, block : 1 .. MaxHeight,
     sweep : {"", "submitted", "confirmed", "failed"},
     sweepTx : SweepIds \cup {None}]

ASSUME NoneAssumption == None \notin Nat \cup Transactions \cup Deposit

Idle == [at |-> "idle", block |-> 0, users |-> {}, todo |-> {}, sent |-> None]

Init ==
    /\ provisioned = {}
    /\ height = 0
    /\ chain = [t \in Transfers |-> None]
    /\ sweeps = <<>>
    /\ cursor = None
    /\ firstCursor = None
    /\ rows = [t \in Transfers |-> None]
    /\ credited = {}
    /\ runner = Idle
    /\ stops = 0
-----------------------------------------------------------------------------
(* The world around the runner. *)

ProvisionUser(u) ==
    /\ provisioned' = provisioned \cup {u}
    /\ UNCHANGED <<height, chain, sweeps, cursor, firstCursor, rows, credited,
                   runner, stops>>

(* A transfer gets into the next block.  Nobody knows an address before    *)
(* its user is provisioned.                                                *)
IncludeTransfer(t, u) ==
    /\ height < MaxHeight
    /\ chain[t] = None
    /\ u \in provisioned
    /\ \E ok \in BOOLEAN :
          chain' = [chain EXCEPT ![t] = [to |-> u, block |-> height + 1, ok |-> ok]]
    /\ UNCHANGED <<provisioned, height, sweeps, cursor, firstCursor, rows,
                   credited, runner, stops>>

Mined(x)     == x # None /\ x.block \in 1 .. height
Succeeded(x) == Mined(x) /\ x.ok

(* A sweep gets into the next block while the address has what it moves. *)
IncludeSweep(s) ==
    /\ height < MaxHeight
    /\ sweeps[s].block = 0
    /\ \A o \in DOMAIN sweeps :
          sweeps[o].block # 0 /\ sweeps[o].ok
              => sweeps[s].moves \cap sweeps[o].moves = {}
    /\ \E ok \in BOOLEAN :
          sweeps' = [sweeps EXCEPT ![s].block = height + 1, ![s].ok = ok]
    /\ UNCHANGED <<provisioned, height, chain, cursor, firstCursor, rows,
                   credited, runner, stops>>

NewBlock ==
    /\ height < MaxHeight
    /\ height' = height + 1
    /\ UNCHANGED <<provisioned, chain, sweeps, cursor, firstCursor, rows,
                   credited, runner, stops>>

Moved == UNION {sweeps[s].moves : s \in {o \in DOMAIN sweeps : Succeeded(sweeps[o])}}

(* What is on a user's deposit address. *)
Funds(u) ==
    {t \in Transfers : Succeeded(chain[t]) /\ chain[t].to = u} \ Moved
-----------------------------------------------------------------------------
(* scanDepositsAndSubmit. *)

At(phase) == runner.at = phase

CurrentBlock ==
    /\ At("idle")
    /\ runner' = [runner EXCEPT !.at = "addresses", !.block = height]
    /\ UNCHANGED <<provisioned, external, sweeps, cursor, firstCursor, rows,
                   credited, stops>>

ListDepositAddresses ==
    /\ At("addresses")
    /\ runner' = [runner EXCEPT !.at = "cursor", !.users = provisioned]
    /\ UNCHANGED <<provisioned, external, sweeps, cursor, firstCursor, rows,
                   credited, stops>>

initialBlock ==
    CASE StartBlock > 0 -> StartBlock - 1
      [] StartBlock = 0 /\ runner.block <= Confirmations -> 0
      [] StartBlock = 0 /\ runner.block > Confirmations ->
            runner.block - Confirmations

(* GetChainState finds no cursor: the first one is saved, and that is all. *)
SaveInitialChainState ==
    /\ At("cursor")
    /\ cursor = None
    /\ cursor' = initialBlock
    /\ firstCursor' = initialBlock
    /\ runner' = Idle
    /\ UNCHANGED <<provisioned, external, sweeps, rows, credited, stops>>

(* ScanDeposits: the successful transfers to known addresses. *)
Scanned ==
    {t \in Transfers :
        /\ Succeeded(chain[t])
        /\ chain[t].block \in (cursor + 1) .. runner.block
        /\ chain[t].to \in runner.users}

ScanDeposits ==
    /\ At("cursor")
    /\ cursor # None
    /\ runner' = [runner EXCEPT !.at = "observe", !.todo = Scanned]
    /\ UNCHANGED <<provisioned, external, sweeps, cursor, firstCursor, rows,
                   credited, stops>>

NewDeposit(t) ==
    [user |-> chain[t].to, status |-> "pending", block |-> chain[t].block,
     sweep |-> "", sweepTx |-> None]

(* ON CONFLICT (tx_hash) DO UPDATE leaves status and sweep alone. *)
UpsertObservedDeposit(t) ==
    /\ At("observe")
    /\ t \in runner.todo
    /\ rows' = [rows EXCEPT ![t] =
                   IF @ = None THEN NewDeposit(t)
                   ELSE [@ EXCEPT !.block = chain[t].block]]
    /\ runner' = [runner EXCEPT !.todo = @ \ {t}]
    /\ UNCHANGED <<provisioned, external, sweeps, cursor, firstCursor, credited,
                   stops>>

DepositsWith(status) == {t \in Transfers : rows[t] # None /\ rows[t].status = status}

ConfirmedEnoughMutant(t) == runner.block - rows[t].block + 1 >= Confirmations - 1

ConfirmedEnoughOnce(t) ==  \* a scan that comes too late passes it over
    runner.block - rows[t].block + 1 = Confirmations

ConfirmedEnough(t) == runner.block - rows[t].block + 1 >= Confirmations

SaveChainStateMutant ==  \* asks for the current block once more
    /\ At("observe")
    /\ runner.todo = {}
    /\ cursor' = height
    /\ runner' = [runner EXCEPT !.at = "confirm",
                     !.todo = {t \in DepositsWith("pending") : ConfirmedEnough(t)}]
    /\ UNCHANGED <<provisioned, external, sweeps, firstCursor, rows, credited,
                   stops>>

(* SaveChainState, then confirmPendingDeposits lists what to confirm. *)
SaveChainState ==
    /\ At("observe")
    /\ runner.todo = {}
    /\ cursor' = runner.block
    /\ runner' = [runner EXCEPT !.at = "confirm",
                     !.todo = {t \in DepositsWith("pending") : ConfirmedEnough(t)}]
    /\ UNCHANGED <<provisioned, external, sweeps, firstCursor, rows, credited,
                   stops>>

(* The status and the ledger entry change in one transaction. *)
ConfirmDeposit(t) ==
    /\ At("confirm")
    /\ t \in runner.todo
    /\ rows' = [rows EXCEPT ![t].status = "confirmed"]
    /\ credited' = IF rows[t].status = "confirmed" THEN credited
                                                   ELSE credited \cup {t}
    /\ runner' = [runner EXCEPT !.todo = @ \ {t}]
    /\ UNCHANGED <<provisioned, external, sweeps, cursor, firstCursor, stops>>

ListSweepCandidates ==
    /\ At("confirm")
    /\ runner.todo = {}
    /\ runner' = [runner EXCEPT !.at = "sweep",
                     !.todo = {t \in DepositsWith("confirmed") :
                                  rows[t].sweep \in {"", "failed"}}]
    /\ UNCHANGED <<provisioned, external, sweeps, cursor, firstCursor, rows,
                   credited, stops>>

Sent(u) == Append(sweeps, [user |-> u, moves |-> Funds(u), block |-> 0, ok |-> FALSE])

CanSend(u) == Funds(u) # {} /\ Len(sweeps) < MaxSweeps

(* SubmitSweep sends everything on the address and comes back with a hash. *)
SubmitSweep(t) ==
    /\ At("sweep")
    /\ t \in runner.todo
    /\ CanSend(rows[t].user)
    /\ sweeps' = Sent(rows[t].user)
    /\ runner' = [runner EXCEPT !.at = "sweepSent", !.todo = @ \ {t},
                     !.sent = [deposit |-> t, sweep |-> Len(sweeps) + 1]]
    /\ UNCHANGED <<provisioned, external, cursor, firstCursor, rows, credited, stops>>

(* SubmitSweep fails, or the node took the transaction and the answer was  *)
(* lost.  An error of MarkDepositSweepFailed is ignored.                   *)
SubmitSweepFails(t) ==
    /\ At("sweep")
    /\ t \in runner.todo
    /\ \/ UNCHANGED sweeps
       \/ CanSend(rows[t].user) /\ sweeps' = Sent(rows[t].user)
    /\ \/ rows' = [rows EXCEPT ![t].sweep = "failed"]
       \/ UNCHANGED rows
    /\ runner' = [runner EXCEPT !.todo = @ \ {t}]
    /\ UNCHANGED <<provisioned, external, cursor, firstCursor, credited, stops>>

MarkDepositSweepSubmitted ==
    /\ At("sweepSent")
    /\ rows' = [rows EXCEPT ![runner.sent.deposit].sweep = "submitted",
                            ![runner.sent.deposit].sweepTx = runner.sent.sweep]
    /\ runner' = [runner EXCEPT !.at = "sweep", !.sent = None]
    /\ UNCHANGED <<provisioned, external, sweeps, cursor, firstCursor, credited,
                   stops>>

(* The rest of the cycle, withdrawals and faucet transfers, is in Payouts. *)
EndScan ==
    /\ At("sweep")
    /\ runner.todo = {}
    /\ runner' = Idle
    /\ UNCHANGED <<provisioned, external, sweeps, cursor, firstCursor, rows,
                   credited, stops>>
-----------------------------------------------------------------------------
(* processReceipts: confirmSweepReceipts. *)

ListSubmittedSweeps ==
    /\ At("idle")
    /\ runner' = [runner EXCEPT !.at = "receipts",
                     !.todo = {t \in Transfers :
                                  rows[t] # None /\ rows[t].sweep = "submitted"}]
    /\ UNCHANGED <<provisioned, external, sweeps, cursor, firstCursor, rows,
                   credited, stops>>

ReceiptResultMutant(x) == "confirmed"  \* the receipt's status is not looked at

ReceiptResult(x) == IF x.ok THEN "confirmed" ELSE "failed"

ConfirmSweepReceipt(t) ==
    /\ At("receipts")
    /\ t \in runner.todo
    /\ rows' = LET x == sweeps[rows[t].sweepTx]
               IN  IF Mined(x) THEN [rows EXCEPT ![t].sweep = ReceiptResult(x)]
                               ELSE rows
    /\ runner' = [runner EXCEPT !.todo = @ \ {t}]
    /\ UNCHANGED <<provisioned, external, sweeps, cursor, firstCursor, credited,
                   stops>>

EndReceipts ==
    /\ At("receipts")
    /\ runner.todo = {}
    /\ runner' = Idle
    /\ UNCHANGED <<provisioned, external, sweeps, cursor, firstCursor, rows,
                   credited, stops>>

(* A call of the cycle fails (safeRun logs it), or the process restarts. *)
RunnerStops ==
    /\ ~At("idle")
    /\ stops < MaxStops
    /\ stops' = stops + 1
    /\ runner' = Idle
    /\ UNCHANGED <<provisioned, external, sweeps, cursor, firstCursor, rows, credited>>

RunnerStep ==
    \/ CurrentBlock
    \/ ListDepositAddresses
    \/ SaveInitialChainState
    \/ ScanDeposits
    \/ SaveChainState
    \/ ListSweepCandidates
    \/ MarkDepositSweepSubmitted
    \/ EndScan
    \/ ListSubmittedSweeps
    \/ EndReceipts
    \/ \E t \in Transfers :
          \/ UpsertObservedDeposit(t)
          \/ ConfirmDeposit(t)
          \/ SubmitSweep(t)
          \/ SubmitSweepFails(t)
          \/ ConfirmSweepReceipt(t)

Next ==
    \/ RunnerStep
    \/ RunnerStops
    \/ NewBlock
    \/ \E u \in Users : ProvisionUser(u)
    \/ \E t \in Transfers, u \in Users : IncludeTransfer(t, u)
    \/ \E s \in DOMAIN sweeps : IncludeSweep(s)

Spec == Init /\ [][Next]_vars

(* The chain grows, the runner goes on, and the scan ticker, one of two    *)
(* cases of a select, is not passed over for ever.                         *)
FairSpec ==
    /\ Spec
    /\ WF_vars(NewBlock)
    /\ WF_vars(RunnerStep)
    /\ SF_vars(CurrentBlock)
-----------------------------------------------------------------------------
(* Properties. *)

(* The rows, the chain and the runner have their types; in particular the  *)
(* unsigned block numbers do not wrap around.                              *)
TypeOK ==
    /\ provisioned \subseteq Users
    /\ height \in 0 .. MaxHeight
    /\ chain \in [Transfers -> Transactions \cup {None}]
    /\ sweeps \in Seq(SweepTransactions) /\ Len(sweeps) <= MaxSweeps
    /\ cursor \in Nat \cup {None}
    /\ firstCursor \in Nat \cup {None}
    /\ rows \in [Transfers -> Deposit \cup {None}]
    /\ credited \subseteq Transfers
    /\ runner \in [at : Phases, block : Nat, users : SUBSET Users,
                   todo : SUBSET Transfers,
                   sent : [deposit : Transfers, sweep : SweepIds] \cup {None}]
    /\ stops \in 0 .. MaxStops

(* The cursor never passes a deposit: every successful transfer in a block *)
(* after the first cursor and up to the cursor is in the table, although   *)
(* users are provisioned and blocks are added during a scan and the runner *)
(* may stop in the middle of it.  (And no block number wraps around, which *)
(* TypeOK says of the cursor.)                                             *)
NoDepositMissed ==
    /\ TypeOK
    /\ \A t \in Transfers :
          cursor # None /\ Succeeded(chain[t])
              /\ chain[t].block \in (firstCursor + 1) .. cursor => rows[t] # None

(* Money is credited only when it has arrived: the transfer succeeded, has *)
(* its confirmations, and went to the address of the user it is credited   *)
(* to.  The ledger entry and the status of the deposit go together.        *)
CreditedMoneyArrived ==
    /\ credited = DepositsWith("confirmed")
    /\ \A t \in credited :
          /\ Succeeded(chain[t])
          /\ height - chain[t].block + 1 >= Confirmations
          /\ rows[t].user = chain[t].to

(* A deposit whose sweep counts as confirmed has left its address for the  *)
(* hot wallet, however many sweeps were sent, lost or failed.              *)
SweptMoneyMoved ==
    \A t \in Transfers :
        rows[t] # None /\ rows[t].sweep = "confirmed" => t \in Moved

(* A deposit after the first cursor, deep enough in the chain some day. *)
Due(t) ==
    /\ firstCursor # None
    /\ Succeeded(chain[t])
    /\ chain[t].block \in (firstCursor + 1) .. (MaxHeight + 1 - Confirmations)

(* Every deposit is credited in the end, although the runner may stop, if  *)
(* the chain grows far enough.                                             *)
EveryDepositCredited ==
    \A t \in Transfers : Due(t) ~> t \in credited
=============================================================================
