------------------------------ MODULE Payouts ------------------------------
(***************************************************************************)
(* What leaves the hot wallet: withdrawals, which are debited when they    *)
(* are requested and credited back when they fail, and the faucet          *)
(* transfers of the administrators.  The chain runner sends what is        *)
(* pending and polls the receipts of what it has sent.  It is one          *)
(* goroutine; requests come and transactions are mined between any two of  *)
(* its calls, an answer of the node may be lost, and the runner may stop   *)
(* before any call.                                                        *)
(*                                                                         *)
(* The blockchain is external: a transaction that was sent is pending, and *)
(* later paid or failed.                                                   *)
(***************************************************************************)
EXTENDS Integers, Sequences, FiniteSets, Functions

CONSTANTS
    Users,        \* the users
    Addresses,    \* the addresses users withdraw to
    Withdrawals,  \* the withdrawals, by ID
    Faucets,      \* the faucet transfers, by ID
    Amounts,      \* the amounts of withdrawals
    Opening,      \* the balance every user starts with
    None,         \* "no such row", "nothing"
    MaxLosses     \* bound: how many calls are lost or cut off by a stop

ASSUME OpeningAssumption == Opening \in Nat /\ Amounts \subseteq Nat \ {0}
ASSUME BoundAssumption == MaxLosses \in Nat

(* Two tables: a withdrawal is not a faucet transfer. *)
ASSUME TablesAssumption == Withdrawals \cap Faucets = {}

VARIABLES
    linked,     \* wallet_linked_addresses
    available,  \* wallet_balances
    rows,       \* wallet_withdrawal_requests and wallet_faucet_transfers
    sent,       \* external: the transactions sent for every payout
    runner,     \* the runner: where it is and what it has read
    lost,       \* history: transactions sent for a payout, hash not recorded
    losses      \* how many calls were lost or cut off

vars == <<linked, available, rows, sent, runner, lost, losses>>

Payouts == Withdrawals \cup Faucets
Kinds == {"withdrawal", "faucet"}
OfKind(kind) == IF kind = "withdrawal" THEN Withdrawals ELSE Faucets

Status == {"pending", "submitted", "confirmed", "failed"}
Row == [user : Users, amount : Nat, status : Status, tx : Nat]
ASSUME NoneAssumption == None \notin Row

Idle == [at |-> "idle", kind |-> None, todo |-> {}, payout |-> None]

Init ==
    /\ linked = {}
    /\ available = [u \in Users |-> Opening]
    /\ rows = [p \in Payouts |-> None]
    /\ sent = [p \in Payouts |-> <<>>]
    /\ runner = Idle
    /\ lost = [p \in Payouts |-> 0]
    /\ losses = 0
-----------------------------------------------------------------------------
(* Requests. *)

(* What ConfirmLink does (LinkedAddresses has its steps). *)
ConfirmLink(u, a) ==
    /\ linked' = linked \cup {<<u, a>>}
    /\ UNCHANGED <<available, rows, sent, runner, lost, losses>>

NewRow(u, amount) == [user |-> u, amount |-> amount, status |-> "pending", tx |-> 0]

(* RequestWithdrawal: the debit and the row are one transaction. *)
RequestWithdrawal(w, u, a, amount) ==
    /\ rows[w] = None
    /\ <<u, a>> \in linked
    /\ available[u] >= amount
    /\ available' = [available EXCEPT ![u] = @ - amount]
    /\ rows' = [rows EXCEPT ![w] = NewRow(u, amount)]
    /\ UNCHANGED <<linked, sent, runner, lost, losses>>

(* CreateAdminFaucetTransfer: from the hot wallet, to a deposit address;   *)
(* no balance changes.                                                     *)
CreateFaucetTransfer(f, u, amount) ==
    /\ rows[f] = None
    /\ rows' = [rows EXCEPT ![f] = NewRow(u, amount)]
    /\ UNCHANGED <<linked, available, sent, runner, lost, losses>>

(* A transaction gets into a block. *)
Mine(p, i) ==
    /\ sent[p][i] = "pending"
    /\ \E result \in {"paid", "failed"} :
          sent' = [sent EXCEPT ![p][i] = result]
    /\ UNCHANGED <<linked, available, rows, runner, lost, losses>>
-----------------------------------------------------------------------------
(* scanDepositsAndSubmit: submitWithdrawals, then submitFaucetTransfers.   *)

At(phase) == runner.at = phase

With(kind, status) ==
    {p \in OfKind(kind) : rows[p] # None /\ rows[p].status = status}

ToSubmitWithdrawals(kind) ==  \* the faucet's turn lists the withdrawals
    With("withdrawal", "pending")

ToSubmit(kind) == With(kind, "pending")

(* ListPendingWithdrawals, and at the end of it the faucet transfers. *)
ListPending(kind) ==
    /\ \/ kind = "withdrawal" /\ At("idle")
       \/ kind = "faucet" /\ At("submit") /\ runner.kind = "withdrawal" /\ runner.todo = {}
    /\ runner' = [at |-> "submit", kind |-> kind, todo |-> ToSubmit(kind),
                  payout |-> None]
    /\ UNCHANGED <<linked, available, rows, sent, lost, losses>>

(* SubmitWithdrawal answers with the hash of the transaction it has sent. *)
Submit(p) ==
    /\ At("submit")
    /\ p \in runner.todo
    /\ sent' = [sent EXCEPT ![p] = Append(@, "pending")]
    /\ runner' = [runner EXCEPT !.at = "sent", !.todo = @ \ {p}, !.payout = p]
    /\ UNCHANGED <<linked, available, rows, lost, losses>>

(* SubmitWithdrawal fails: it is logged, and the next payout's turn. *)
SubmitFails(p) ==
    /\ At("submit")
    /\ p \in runner.todo
    /\ runner' = [runner EXCEPT !.todo = @ \ {p}]
    /\ UNCHANGED <<linked, available, rows, sent, lost, losses>>

(* The same for the runner, but the node had taken the transaction. *)
SubmitAnswerLost(p) ==
    /\ At("submit")
    /\ p \in runner.todo
    /\ losses < MaxLosses
    /\ losses' = losses + 1
    /\ sent' = [sent EXCEPT ![p] = Append(@, "pending")]
    /\ lost' = [lost EXCEPT ![p] = @ + 1]
    /\ runner' = [runner EXCEPT !.todo = @ \ {p}]
    /\ UNCHANGED <<linked, available, rows>>

MarkSubmittedMutant ==  \* the hash is saved, the status is not
    /\ At("sent")
    /\ rows' = [rows EXCEPT ![runner.payout].tx = Len(sent[runner.payout])]
    /\ runner' = [runner EXCEPT !.at = "submit", !.payout = None]
    /\ UNCHANGED <<linked, available, sent, lost, losses>>

(* MarkWithdrawalSubmitted, MarkFaucetTransferSubmitted. *)
MarkSubmitted ==
    /\ At("sent")
    /\ rows' = [rows EXCEPT ![runner.payout].status = "submitted",
                            ![runner.payout].tx = Len(sent[runner.payout])]
    /\ runner' = [runner EXCEPT !.at = "submit", !.payout = None]
    /\ UNCHANGED <<linked, available, sent, lost, losses>>
-----------------------------------------------------------------------------
(* processReceipts: confirmWithdrawalReceipts, then those of the faucet. *)

ListSubmitted(kind) ==
    /\ \/ kind = "withdrawal" /\ At("idle")
       \/ kind = "faucet" /\ At("receipts") /\ runner.kind = "withdrawal" /\ runner.todo = {}
    /\ runner' = [at |-> "receipts", kind |-> kind,
                  todo |-> With(kind, "submitted"), payout |-> None]
    /\ UNCHANGED <<linked, available, rows, sent, lost, losses>>

Receipt(p) == sent[p][rows[p].tx]

PollNothing(p) ==
    /\ At("receipts")
    /\ p \in runner.todo
    /\ Receipt(p) = "pending"
    /\ runner' = [runner EXCEPT !.todo = @ \ {p}]
    /\ UNCHANGED <<linked, available, rows, sent, lost, losses>>

MarkConfirmed(p) ==
    /\ At("receipts")
    /\ p \in runner.todo
    /\ Receipt(p) = "paid"
    /\ rows' = [rows EXCEPT ![p].status = "confirmed"]
    /\ runner' = [runner EXCEPT !.todo = @ \ {p}]
    /\ UNCHANGED <<linked, available, sent, lost, losses>>

MarkFailedMutant(p) ==  \* without the compensation entry
    /\ At("receipts")
    /\ p \in runner.todo
    /\ Receipt(p) = "failed"
    /\ rows' = [rows EXCEPT ![p].status = "failed"]
    /\ runner' = [runner EXCEPT !.todo = @ \ {p}]
    /\ UNCHANGED <<linked, available, sent, lost, losses>>

(* MarkWithdrawalFailed gives the money back in the same transaction;      *)
(* MarkFaucetTransferFailed has nothing to give back.                      *)
MarkFailed(p) ==
    /\ At("receipts")
    /\ p \in runner.todo
    /\ Receipt(p) = "failed"
    /\ rows' = [rows EXCEPT ![p].status = "failed"]
    /\ available' = IF p \in Withdrawals /\ rows[p].status # "failed"
                    THEN [available EXCEPT ![rows[p].user] = @ + rows[p].amount]
                    ELSE available
    /\ runner' = [runner EXCEPT !.todo = @ \ {p}]
    /\ UNCHANGED <<linked, sent, lost, losses>>

EndCycle ==
    /\ runner.at \in {"submit", "receipts"}
    /\ runner.kind = "faucet"
    /\ runner.todo = {}
    /\ runner' = Idle
    /\ UNCHANGED <<linked, available, rows, sent, lost, losses>>

(* A call of the cycle fails, or the process restarts. *)
RunnerStops ==
    /\ ~At("idle")
    /\ losses < MaxLosses
    /\ losses' = losses + 1
    /\ lost' = IF At("sent") THEN [lost EXCEPT ![runner.payout] = @ + 1] ELSE lost
    /\ runner' = Idle
    /\ UNCHANGED <<linked, available, rows, sent>>

RunnerStep ==
    \/ \E kind \in Kinds : ListPending(kind) \/ ListSubmitted(kind)
    \/ MarkSubmitted
    \/ EndCycle
    \/ \E p \in Payouts :
          \/ Submit(p)
          \/ SubmitFails(p)
          \/ PollNothing(p)
          \/ MarkConfirmed(p)
          \/ MarkFailed(p)

Next ==
    \/ RunnerStep
    \/ RunnerStops
    \/ \E p \in Payouts :
          \/ SubmitAnswerLost(p)
          \/ \E i \in DOMAIN sent[p] : Mine(p, i)
    \/ \E u \in Users :
          \/ \E a \in Addresses :
                \/ ConfirmLink(u, a)
                \/ \E w \in Withdrawals, amount \in Amounts :
                      RequestWithdrawal(w, u, a, amount)
          \/ \E f \in Faucets, amount \in Amounts :
                CreateFaucetTransfer(f, u, amount)

Spec == Init /\ [][Next]_vars

(* The runner goes on, and neither of its two tickers is passed over for   *)
(* ever; the node takes a transaction it is offered again and again, and   *)
(* mines it.                                                               *)
FairSpec ==
    /\ Spec
    /\ WF_vars(RunnerStep)
    /\ SF_vars(ListPending("withdrawal"))
    /\ SF_vars(ListSubmitted("withdrawal"))
    /\ \A p \in Payouts :
          /\ SF_vars(Submit(p))
          /\ \A i \in 1 .. MaxLosses + 1 : WF_vars(i \in DOMAIN sent[p] /\ Mine(p, i))
-----------------------------------------------------------------------------
(* Properties. *)

(* The rows and the runner have their types; no balance is negative. *)
TypeOK ==
    /\ linked \subseteq Users \X Addresses
    /\ available \in [Users -> Nat]
    /\ rows \in [Payouts -> Row \cup {None}]
    /\ sent \in [Payouts -> Seq({"pending", "paid", "failed"})]
    /\ runner \in [at : {"idle", "submit", "sent", "receipts"}, kind : Kinds \cup {None},
                   todo : SUBSET Payouts, payout : Payouts \cup {None}]
    /\ lost \in [Payouts -> Nat]
    /\ losses \in 0 .. MaxLosses

(* The withdrawals of a user that have not failed. *)
Standing(u) ==
    {w \in Withdrawals : rows[w] # None /\ rows[w].user = u /\ rows[w].status # "failed"}

(* A withdrawal costs its user its amount once, and nothing if it fails:   *)
(* debit and compensation match whatever the runner has been through, and  *)
(* no balance is ever negative.                                            *)
MoneyAccounted ==
    /\ TypeOK
    /\ \A u \in Users :
          available[u] = Opening - SumFunction([w \in Standing(u) |-> rows[w].amount])

Paid(p) == {i \in DOMAIN sent[p] : sent[p][i] = "paid"}

(* What the rows say is what the chain did.  Only a hash that was not      *)
(* recorded (a stop between SubmitWithdrawal and MarkWithdrawalSubmitted,  *)
(* or a lost answer) makes the runner send a payout again, once for each;  *)
(* without such a loss nothing is paid twice, and nothing that was given   *)
(* back is paid at all.                                                    *)
PaidAsRecorded ==
    \A p \in Payouts : rows[p] # None =>
        /\ rows[p].status = "confirmed" => Receipt(p) = "paid"
        /\ rows[p].status = "failed" =>
              Receipt(p) = "failed" /\ Cardinality(Paid(p)) <= lost[p]
        /\ Len(sent[p]) <= 1 + lost[p]
        /\ rows[p].status = "pending" /\ runner.payout # p => Len(sent[p]) = lost[p]

(* Every withdrawal and every faucet transfer comes to its end: submitted, *)
(* and confirmed or failed by its receipt.                                 *)
EveryPayoutSettles ==
    \A p \in Payouts :
        rows[p] # None ~> rows[p] # None /\ rows[p].status \in {"confirmed", "failed"}
=============================================================================
