--------------------------- MODULE PayoutsProofs ---------------------------
(***************************************************************************)
(* For any users, addresses, payouts, amounts and number of losses: debit  *)
(* and compensation of withdrawals match, and the rows say what the chain  *)
(* did.                                                                    *)
(***************************************************************************)
EXTENDS Payouts, ChipsProofs

Results == {"pending", "paid", "failed"}

(* The payout whose hash the runner has and has not saved yet. *)
InHand(p) == At("sent") /\ runner.payout = p

(* What the runner has read is still so: it is the only one to move a row  *)
(* on.                                                                     *)
RunnerKnows ==
    /\ ~At("idle") => runner.kind \in Kinds
    /\ runner.at \in {"submit", "sent"} =>
          \A p \in runner.todo : rows[p] # None /\ rows[p].status = "pending"
    /\ At("sent") => /\ runner.payout \in Payouts \ runner.todo
                     /\ rows[runner.payout] # None
                     /\ rows[runner.payout].status = "pending"
    /\ At("receipts") =>
          \A p \in runner.todo : rows[p] # None /\ rows[p].status = "submitted"

(* Every transaction sent is the one of the row or counted as lost, and a  *)
(* row that is settled has the receipt for it.                             *)
RowTold(p) ==
    /\ rows[p] = None => sent[p] = <<>> /\ lost[p] = 0
    /\ rows[p] # None /\ rows[p].status = "pending" =>
          Len(sent[p]) = lost[p] + IF InHand(p) THEN 1 ELSE 0
    /\ rows[p] # None /\ rows[p].status # "pending" =>
          Len(sent[p]) = lost[p] + 1 /\ rows[p].tx \in DOMAIN sent[p]
    /\ rows[p] # None /\ rows[p].status = "confirmed" => Receipt(p) = "paid"
    /\ rows[p] # None /\ rows[p].status = "failed" => Receipt(p) = "failed"

PayoutInv ==
    /\ TypeOK
    /\ RunnerKnows
    /\ \A p \in Payouts : RowTold(p)
-----------------------------------------------------------------------------
(* The first state. *)
LEMMA PayoutInit == Init => PayoutInv
<1> SUFFICES ASSUME Init PROVE PayoutInv
    OBVIOUS
<1>1. TypeOK
  <2>1. <<>> \in Seq(Results)
    OBVIOUS
  <2> QED
    BY <2>1, OpeningAssumption, BoundAssumption DEF Init, TypeOK, Idle, Results
<1>2. RunnerKnows
  BY DEF Init, RunnerKnows, At, Idle
<1>3. \A p \in Payouts : RowTold(p)
  BY DEF Init, RowTold
<1> QED
  BY <1>1, <1>2, <1>3 DEF PayoutInv

(* The requests. *)
LEMMA RequestsKeep ==
    ASSUME PayoutInv,
           \/ \E u \in Users, a \in Addresses : ConfirmLink(u, a)
           \/ \E u \in Users, a \in Addresses, w \in Withdrawals, amount \in Amounts :
                 RequestWithdrawal(w, u, a, amount)
           \/ \E u \in Users, f \in Faucets, amount \in Amounts :
                 CreateFaucetTransfer(f, u, amount)
    PROVE  PayoutInv'
<1> USE DEF PayoutInv
<1>1. ASSUME NEW u \in Users, NEW a \in Addresses, ConfirmLink(u, a) PROVE PayoutInv'
  BY <1>1 DEF ConfirmLink, TypeOK, RunnerKnows, RowTold, InHand, At, Receipt
<1>2. ASSUME NEW p \in Payouts, NEW u \in Users, NEW amount \in Amounts, rows[p] = None,
             rows' = [rows EXCEPT ![p] = NewRow(u, amount)],
             available' \in [Users -> Nat],
             UNCHANGED <<linked, sent, runner, lost, losses>>
      PROVE  PayoutInv'
  <2>1. NewRow(u, amount) \in Row /\ NewRow(u, amount) # None
        /\ NewRow(u, amount).status = "pending"
    BY OpeningAssumption, NoneAssumption DEF NewRow, Row, Status
  <2>2. TypeOK'
    BY <1>2, <2>1 DEF TypeOK
  <2>3. RunnerKnows'
    BY <1>2, <2>1 DEF RunnerKnows, TypeOK, At
  <2>4. ASSUME NEW q \in Payouts PROVE RowTold(q)'
    <3>1. CASE q = p
      <4>1. sent[p] = <<>> /\ lost[p] = 0 /\ rows'[p] = NewRow(u, amount)
        BY <1>2 DEF RowTold, TypeOK
      <4>2. ~InHand(p)
        BY <1>2 DEF RunnerKnows, InHand
      <4> QED
        BY <1>2, <2>1, <3>1, <4>1, <4>2 DEF RowTold, InHand, At
    <3>2. CASE q # p
      <4>1. rows'[q] = rows[q]
        BY <1>2, <3>2 DEF TypeOK
      <4> QED
        BY <1>2, <4>1 DEF RowTold, InHand, At, Receipt
    <3> QED
      BY <3>1, <3>2
  <2> QED
    BY <2>2, <2>3, <2>4
<1>3. ASSUME NEW u \in Users, NEW a \in Addresses, NEW w \in Withdrawals,
             NEW amount \in Amounts, RequestWithdrawal(w, u, a, amount)
      PROVE  PayoutInv'
  <2>1. available' \in [Users -> Nat]
    BY <1>3, OpeningAssumption DEF RequestWithdrawal, TypeOK
  <2> QED
    BY <1>2, <1>3, <2>1 DEF RequestWithdrawal, Payouts
<1>4. ASSUME NEW u \in Users, NEW f \in Faucets, NEW amount \in Amounts,
             CreateFaucetTransfer(f, u, amount)
      PROVE  PayoutInv'
  BY <1>2, <1>4 DEF CreateFaucetTransfer, Payouts, TypeOK
<1> QED
  BY <1>1, <1>3, <1>4

(* The external steps: a transaction is mined.  Only the receipt of a      *)
(* pending transaction changes, and no settled row has such a receipt.     *)
LEMMA MineKeeps ==
    ASSUME PayoutInv, NEW p \in Payouts, NEW i \in DOMAIN sent[p], Mine(p, i)
    PROVE  PayoutInv'
<1> USE DEF PayoutInv
<1>1. PICK result \in {"paid", "failed"} : sent' = [sent EXCEPT ![p][i] = result]
  BY DEF Mine
<1>2. /\ sent[p] \in Seq(Results)
      /\ sent'[p] = [sent[p] EXCEPT ![i] = result]
      /\ \A q \in Payouts \ {p} : sent'[q] = sent[q]
  BY <1>1 DEF TypeOK, Results
<1>3. sent'[p] \in Seq(Results) /\ Len(sent'[p]) = Len(sent[p])
      /\ DOMAIN sent'[p] = DOMAIN sent[p]
      /\ \A j \in DOMAIN sent[p] : sent[p][j] # "pending" => sent'[p][j] = sent[p][j]
  BY <1>2 DEF Results, Mine
<1>4. TypeOK'
  BY <1>1, <1>2, <1>3 DEF TypeOK, Mine, Results
<1>5. RunnerKnows'
  BY DEF RunnerKnows, Mine, At
<1>6. ASSUME NEW q \in Payouts PROVE RowTold(q)'
  <2>1. CASE q # p
    BY <1>2, <2>1 DEF RowTold, Mine, InHand, At, Receipt
  <2>2. CASE q = p
    <3>1. sent[p] # <<>>
      OBVIOUS
    <3>2. rows[p] # None
      BY <3>1 DEF RowTold
    <3>3. Len(sent'[p]) = Len(sent[p]) /\ UNCHANGED <<rows, runner, lost>>
      BY <1>3 DEF Mine
    <3>4. rows[p].status # "pending" /\ Receipt(p) # "pending" => Receipt(p)' = Receipt(p)
      BY <1>3, <3>2, <3>3 DEF RowTold, Receipt
    <3> QED
      BY <1>3, <2>2, <3>2, <3>3, <3>4 DEF RowTold, InHand, At
  <2> QED
    BY <2>1, <2>2
<1> QED
  BY <1>4, <1>5, <1>6

(* Listing, passing over and ending a cycle change nothing but the runner. *)
LEMMA ListingKeeps ==
    ASSUME PayoutInv, UNCHANGED <<linked, available, rows, sent, lost, losses>>,
           \/ \E kind \in Kinds : ListPending(kind) \/ ListSubmitted(kind)
           \/ EndCycle
           \/ \E p \in Payouts : SubmitFails(p) \/ PollNothing(p)
    PROVE  PayoutInv'
<1> USE DEF PayoutInv
<1>1. TypeOK' /\ RunnerKnows' /\ ~At("sent") /\ ~At("sent")'
  <2>1. ASSUME NEW kind \in Kinds, ListPending(kind)
        PROVE  TypeOK' /\ RunnerKnows' /\ ~At("sent") /\ ~At("sent")'
    <3>1. ToSubmit(kind) \subseteq Payouts
          /\ \A p \in ToSubmit(kind) : rows[p] # None /\ rows[p].status = "pending"
      BY DEF ToSubmit, With, OfKind, Payouts
    <3> QED
      BY <2>1, <3>1 DEF ListPending, TypeOK, RunnerKnows, At
  <2>2. ASSUME NEW kind \in Kinds, ListSubmitted(kind)
        PROVE  TypeOK' /\ RunnerKnows' /\ ~At("sent") /\ ~At("sent")'
    <3>1. With(kind, "submitted") \subseteq Payouts
          /\ \A p \in With(kind, "submitted") : rows[p] # None /\ rows[p].status = "submitted"
      BY DEF With, OfKind, Payouts
    <3> QED
      BY <2>2, <3>1 DEF ListSubmitted, TypeOK, RunnerKnows, At
  <2>3. ASSUME NEW p \in Payouts, SubmitFails(p) \/ PollNothing(p)
        PROVE  TypeOK' /\ RunnerKnows' /\ ~At("sent") /\ ~At("sent")'
    <3>1. runner' = [runner EXCEPT !.todo = @ \ {p}]
          /\ runner.at \in {"submit", "receipts"}
      BY <2>3 DEF SubmitFails, PollNothing, At
    <3>2. /\ runner'.at = runner.at /\ runner'.kind = runner.kind
          /\ runner'.todo = runner.todo \ {p}
          /\ TypeOK'
      BY <3>1 DEF TypeOK
    <3> QED
      BY <3>1, <3>2 DEF RunnerKnows, At
  <2>4. ASSUME EndCycle
        PROVE  TypeOK' /\ RunnerKnows' /\ ~At("sent") /\ ~At("sent")'
    BY <2>4 DEF EndCycle, Idle, TypeOK, RunnerKnows, At
  <2> QED
    BY <2>1, <2>2, <2>3, <2>4
<1>2. \A p \in Payouts : RowTold(p)'
  BY <1>1 DEF RowTold, InHand, Receipt
<1> QED
  BY <1>1, <1>2

(* A transaction is sent: the runner has its hash in hand, or it is lost.  *)
LEMMA SubmitKeeps ==
    ASSUME PayoutInv, NEW p \in Payouts, Submit(p) \/ SubmitAnswerLost(p)
    PROVE  PayoutInv'
<1> USE DEF PayoutInv
<1>1. /\ sent' = [sent EXCEPT ![p] = Append(sent[p], "pending")]
      /\ p \in runner.todo /\ At("submit") /\ UNCHANGED <<linked, available, rows>>
  BY DEF Submit, SubmitAnswerLost
<1>2. rows[p] # None /\ rows[p].status = "pending"
  BY <1>1 DEF RunnerKnows, At
<1>3. /\ sent[p] \in Seq(Results) /\ sent'[p] = Append(sent[p], "pending")
      /\ sent'[p] \in Seq(Results) /\ Len(sent'[p]) = Len(sent[p]) + 1
      /\ \A q \in Payouts \ {p} : sent'[q] = sent[q]
  BY <1>1 DEF TypeOK, Results
<1>4. sent' \in [Payouts -> Seq(Results)]
  BY <1>1, <1>3 DEF TypeOK, Results
<1>5. CASE Submit(p)
  <2>1. TypeOK'
    BY <1>4, <1>5 DEF Submit, TypeOK, Results
  <2>2. RunnerKnows'
    BY <1>2, <1>5 DEF Submit, TypeOK, RunnerKnows, At
  <2>3. \A q \in Payouts : InHand(q)' <=> q = p
    BY <1>5 DEF Submit, InHand, At, TypeOK
  <2>4. ASSUME NEW q \in Payouts \ {p} PROVE RowTold(q)'
    BY <1>1, <1>3, <1>5, <2>3, <2>4 DEF RowTold, Submit, InHand, At, Receipt
  <2>5. RowTold(p)'
    BY <1>1, <1>2, <1>3, <1>5, <2>3 DEF RowTold, Submit, InHand, At, TypeOK
  <2> QED
    BY <2>1, <2>2, <2>4, <2>5
<1>6. CASE SubmitAnswerLost(p)
  <2>1. TypeOK'
    <3>1. losses' \in 0 .. MaxLosses /\ lost' \in [Payouts -> Nat]
      BY <1>6, BoundAssumption DEF SubmitAnswerLost, TypeOK
    <3>2. runner' = [runner EXCEPT !.todo = @ \ {p}]
      BY <1>6 DEF SubmitAnswerLost
    <3> QED
      BY <1>1, <1>4, <3>1, <3>2 DEF SubmitAnswerLost, TypeOK, Results
  <2>2. RunnerKnows'
    BY <1>6 DEF SubmitAnswerLost, TypeOK, RunnerKnows, At
  <2>3. \A q \in Payouts : ~InHand(q)' /\ ~InHand(q)
    BY <1>6 DEF SubmitAnswerLost, InHand, At, TypeOK
  <2>4. ASSUME NEW q \in Payouts \ {p} PROVE RowTold(q)'
    BY <1>1, <1>3, <1>6, <2>3, <2>4 DEF RowTold, SubmitAnswerLost, TypeOK, Receipt
  <2>5. RowTold(p)'
    BY <1>1, <1>2, <1>3, <1>6, <2>3 DEF RowTold, SubmitAnswerLost, TypeOK
  <2> QED
    BY <2>1, <2>2, <2>4, <2>5
<1> QED
  BY <1>5, <1>6

(* MarkSubmitted: the row has the hash of the transaction that was sent    *)
(* last.                                                                   *)
LEMMA MarkSubmittedKeeps == ASSUME PayoutInv, MarkSubmitted PROVE PayoutInv'
<1> USE DEF PayoutInv
<1>1. PICK p \in Payouts \ runner.todo :
          p = runner.payout /\ rows[p] # None /\ rows[p].status = "pending" /\ InHand(p)
  BY DEF MarkSubmitted, RunnerKnows, InHand
<1> DEFINE row == [rows[p] EXCEPT !.status = "submitted", !.tx = Len(sent[p])]
<1>2. /\ sent[p] \in Seq(Results) /\ Len(sent[p]) = lost[p] + 1 /\ lost[p] \in Nat
      /\ rows[p] \in Row
  BY <1>1 DEF TypeOK, Results, RowTold
<1>3. /\ row \in Row /\ row.status = "submitted" /\ row.tx = Len(sent[p])
      /\ row # None /\ Len(sent[p]) \in DOMAIN sent[p]
  <2>1. Len(sent[p]) \in Nat /\ DOMAIN sent[p] = 1 .. Len(sent[p]) /\ Len(sent[p]) > 0
    BY <1>2
  <2>2. row \in Row /\ row.status = "submitted" /\ row.tx = Len(sent[p])
    BY <1>2, <2>1 DEF Row, Status
  <2> QED
    BY <2>1, <2>2, NoneAssumption
<1>4. /\ rows' = [rows EXCEPT ![p] = row]
      /\ runner' = [runner EXCEPT !.at = "submit", !.payout = None]
      /\ UNCHANGED <<linked, available, sent, lost, losses>>
  BY <1>1, <1>2 DEF MarkSubmitted, TypeOK
<1> HIDE DEF row
<1>5. TypeOK'
  BY <1>1, <1>3, <1>4 DEF TypeOK
<1>6. rows'[p] = row /\ \A q \in Payouts \ {p} : rows'[q] = rows[q]
  BY <1>1, <1>4 DEF TypeOK
<1>7. RunnerKnows'
  BY <1>1, <1>4, <1>6 DEF RunnerKnows, TypeOK, At, InHand
<1>8. \A q \in Payouts : ~InHand(q)' /\ (InHand(q) => q = p)
  BY <1>1, <1>4 DEF InHand, At, TypeOK
<1>9. ASSUME NEW q \in Payouts \ {p} PROVE RowTold(q)'
  BY <1>4, <1>6, <1>8, <1>9 DEF RowTold, Receipt
<1>10. RowTold(p)'
  BY <1>1, <1>2, <1>3, <1>4, <1>6, <1>8 DEF RowTold
<1> QED
  BY <1>5, <1>7, <1>9, <1>10

(* MarkConfirmed and MarkFailed: a row is settled by the receipt of its    *)
(* transaction.                                                            *)
LEMMA SettleKeeps ==
    ASSUME PayoutInv, NEW p \in Payouts, MarkConfirmed(p) \/ MarkFailed(p)
    PROVE  PayoutInv'
<1> USE DEF PayoutInv
<1>1. /\ p \in runner.todo /\ At("receipts") /\ rows[p] # None
      /\ rows[p].status = "submitted" /\ rows[p] \in Row
      /\ runner' = [runner EXCEPT !.todo = @ \ {p}]
      /\ UNCHANGED <<linked, sent, lost, losses>>
  BY DEF MarkConfirmed, MarkFailed, RunnerKnows, TypeOK
<1>2. PICK status \in {"confirmed", "failed"} :
          /\ rows' = [rows EXCEPT ![p].status = status]
          /\ status = "confirmed" => Receipt(p) = "paid"
          /\ status = "failed" => Receipt(p) = "failed"
  BY DEF MarkConfirmed, MarkFailed
<1> DEFINE row == [rows[p] EXCEPT !.status = status]
<1>3. row \in Row /\ row.status = status /\ row.tx = rows[p].tx /\ row # None
  BY <1>1, NoneAssumption DEF Row, Status
<1>4. rows' = [rows EXCEPT ![p] = row] /\ rows'[p] = row
      /\ \A q \in Payouts \ {p} : rows'[q] = rows[q]
  BY <1>2 DEF TypeOK
<1> HIDE DEF row
<1>5. available' \in [Users -> Nat]
  <2>1. rows[p].user \in Users /\ rows[p].amount \in Nat
    BY <1>1 DEF Row
  <2>2. CASE UNCHANGED available
    BY <2>2 DEF TypeOK
  <2>3. CASE available' = [available EXCEPT ![rows[p].user] = @ + rows[p].amount]
    BY <2>1, <2>3 DEF TypeOK
  <2> QED
    BY <2>2, <2>3 DEF MarkConfirmed, MarkFailed
<1>6. TypeOK'
  BY <1>1, <1>3, <1>4, <1>5 DEF TypeOK
<1>7. RunnerKnows'
  BY <1>1, <1>4 DEF RunnerKnows, TypeOK, At
<1>8. \A q \in Payouts : ~InHand(q)' /\ ~InHand(q)
  BY <1>1 DEF InHand, At, TypeOK
<1>9. ASSUME NEW q \in Payouts \ {p} PROVE RowTold(q)'
  BY <1>1, <1>4, <1>8, <1>9 DEF RowTold, Receipt
<1>10. RowTold(p)'
  BY <1>1, <1>2, <1>3, <1>4, <1>8 DEF RowTold, Receipt
<1> QED
  BY <1>6, <1>7, <1>9, <1>10

(* A stop forgets what the runner has read; a hash in hand is lost. *)
LEMMA StopKeeps == ASSUME PayoutInv, RunnerStops PROVE PayoutInv'
<1> USE DEF PayoutInv
<1>1. UNCHANGED <<linked, available, rows, sent>> /\ runner' = Idle
      /\ losses' \in 0 .. MaxLosses
  BY BoundAssumption DEF RunnerStops, TypeOK
<1>2. RunnerKnows'
  BY <1>1 DEF RunnerKnows, Idle, At
<1>3. \A q \in Payouts : lost'[q] = (lost[q] + IF InHand(q) THEN 1 ELSE 0)
      /\ ~InHand(q)'
  BY <1>1 DEF RunnerStops, InHand, TypeOK, At, Idle
<1>4. lost' \in [Payouts -> Nat]
  BY DEF RunnerStops, TypeOK, RunnerKnows
<1>5. TypeOK'
  BY <1>1, <1>4 DEF TypeOK, Idle
<1>6. ASSUME NEW q \in Payouts PROVE RowTold(q)'
  <2>1. InHand(q) => rows[q] # None /\ rows[q].status = "pending"
    BY DEF InHand, RunnerKnows
  <2>2. lost[q] \in Nat /\ Len(sent[q]) \in Nat
    BY DEF TypeOK
  <2>3. CASE InHand(q)
    <3>1. lost'[q] = lost[q] + 1 /\ ~InHand(q)'
      BY <1>3, <2>3
    <3>2. Len(sent[q]) = lost[q] + 1
      BY <2>1, <2>3 DEF RowTold
    <3> QED
      BY <1>1, <2>1, <2>2, <2>3, <3>1, <3>2 DEF RowTold
  <2>4. CASE ~InHand(q)
    <3>1. lost'[q] = lost[q] /\ ~InHand(q)'
      BY <1>3, <2>2, <2>4
    <3> QED
      BY <1>1, <2>2, <2>4, <3>1 DEF RowTold, Receipt
  <2> QED
    BY <2>3, <2>4
<1> QED
  BY <1>2, <1>5, <1>6

(* Every step keeps the invariant. *)
LEMMA PayoutStep == PayoutInv /\ [Next]_vars => PayoutInv'
<1> SUFFICES ASSUME PayoutInv, [Next]_vars PROVE PayoutInv'
    OBVIOUS
<1>1. CASE RunnerStep
  <2>1. ASSUME \/ \E kind \in Kinds : ListPending(kind) \/ ListSubmitted(kind)
               \/ EndCycle
               \/ \E p \in Payouts : SubmitFails(p) \/ PollNothing(p)
        PROVE  PayoutInv'
    <3>1. UNCHANGED <<linked, available, rows, sent, lost, losses>>
      BY <2>1 DEF ListPending, ListSubmitted, EndCycle, SubmitFails, PollNothing
    <3> QED
      BY <2>1, <3>1, ListingKeeps
  <2> QED
    BY <1>1, <2>1, MarkSubmittedKeeps, SubmitKeeps, SettleKeeps DEF RunnerStep
<1>2. CASE RunnerStops
  BY <1>2, StopKeeps
<1>3. ASSUME NEW p \in Payouts, SubmitAnswerLost(p) \/ \E i \in DOMAIN sent[p] : Mine(p, i)
      PROVE  PayoutInv'
  BY <1>3, SubmitKeeps, MineKeeps
<1>4. ASSUME NEW u \in Users,
             \/ \E a \in Addresses :
                   \/ ConfirmLink(u, a)
                   \/ \E w \in Withdrawals, amount \in Amounts :
                         RequestWithdrawal(w, u, a, amount)
             \/ \E f \in Faucets, amount \in Amounts : CreateFaucetTransfer(f, u, amount)
      PROVE  PayoutInv'
  BY <1>4, RequestsKeep
<1>5. CASE UNCHANGED vars
  BY <1>5 DEF vars, PayoutInv, TypeOK, RunnerKnows, RowTold, InHand, At, Receipt
<1> QED
  BY <1>1, <1>2, <1>3, <1>4, <1>5 DEF Next

(* The invariant holds of every behaviour. *)
THEOREM PayoutInvHolds == Spec => []PayoutInv
<1> QED
  BY PayoutInit, PayoutStep, PTL DEF Spec

(* What the rows say is what the chain did: a payout is paid again only    *)
(* for a hash that the runner lost (a stop between SubmitWithdrawal and    *)
(* MarkWithdrawalSubmitted, or a lost answer), once for each.              *)
THEOREM PaidAsRecordedHolds == Spec => []PaidAsRecorded
<1>1. PayoutInv => PaidAsRecorded
  <2> SUFFICES ASSUME PayoutInv, NEW p \in Payouts, rows[p] # None
               PROVE  /\ rows[p].status = "confirmed" => Receipt(p) = "paid"
                      /\ rows[p].status = "failed" =>
                            Receipt(p) = "failed" /\ Cardinality(Paid(p)) <= lost[p]
                      /\ Len(sent[p]) <= 1 + lost[p]
                      /\ rows[p].status = "pending" /\ runner.payout # p =>
                            Len(sent[p]) = lost[p]
    BY DEF PaidAsRecorded
  <2>1. /\ RowTold(p) /\ sent[p] \in Seq(Results) /\ Len(sent[p]) \in Nat
        /\ DOMAIN sent[p] = 1 .. Len(sent[p]) /\ lost[p] \in Nat
    BY DEF PayoutInv, TypeOK, Results
  <2>2. Len(sent[p]) <= 1 + lost[p]
    BY <2>1 DEF RowTold
  <2>3. ASSUME rows[p].status = "failed" PROVE Cardinality(Paid(p)) <= lost[p]
    <3> DEFINE all == 1 .. Len(sent[p])
    <3>1. rows[p].tx \in all /\ Len(sent[p]) = lost[p] + 1 /\ Receipt(p) = "failed"
      BY <2>1, <2>3 DEF RowTold
    <3>2. Paid(p) \subseteq all \ {rows[p].tx}
      BY <2>1, <3>1 DEF Paid, Receipt
    <3>3. IsFiniteSet(all) /\ Cardinality(all) = lost[p] + 1
      BY <2>1, <3>1, FS_Interval
    <3> HIDE DEF all
    <3>4. IsFiniteSet(all \ {rows[p].tx})
          /\ Cardinality(all \ {rows[p].tx}) = Cardinality(all) - 1
      BY <3>1, <3>3, FS_RemoveElement
    <3>5. Cardinality(Paid(p)) <= Cardinality(all \ {rows[p].tx})
      BY <3>2, <3>4, FS_Subset
    <3> QED
      BY <2>1, <3>3, <3>4, <3>5
  <2> QED
    BY <2>1, <2>2, <2>3 DEF RowTold, InHand
<1> QED
  BY <1>1, PayoutInvHolds, PTL
-----------------------------------------------------------------------------
(* Balances.  Only withdrawals that were requested cost anything, and      *)
(* there are finitely many.                                                *)
Requested == {w \in Withdrawals : rows[w] # None}

Cost(u) == SumFunction([w \in Standing(u) |-> rows[w].amount])

Balanced ==
    /\ IsFiniteSet(Requested)
    /\ \A u \in Users : available[u] = Opening - Cost(u)

(* Steps that leave the withdrawals' users, amounts and failures alone     *)
(* leave every cost alone.                                                 *)
LEMMA CostStays ==
    ASSUME NEW u \in Users,
           \A w \in Withdrawals :
               /\ rows'[w] = None <=> rows[w] = None
               /\ rows[w] # None => /\ rows'[w].user = rows[w].user
                                    /\ rows'[w].amount = rows[w].amount
                                    /\ rows'[w].status = "failed" <=> rows[w].status = "failed"
    PROVE  Standing(u)' = Standing(u) /\ Cost(u)' = Cost(u)
<1>1. Standing(u)' = Standing(u)
  BY DEF Standing
<1>2. [w \in Standing(u)' |-> rows'[w].amount] = [w \in Standing(u) |-> rows[w].amount]
  BY <1>1 DEF Standing
<1> QED
  BY <1>1, <1>2 DEF Cost

LEMMA BalancedStep == PayoutInv /\ Balanced /\ [Next]_vars => Balanced'
<1> SUFFICES ASSUME PayoutInv, Balanced, [Next]_vars PROVE Balanced'
    OBVIOUS
<1> USE DEF PayoutInv, TypeOK
<1>0. \A w \in Withdrawals :
          /\ w \in Payouts
          /\ rows[w] # None => /\ rows[w] \in Row /\ rows[w].amount \in Nat
                               /\ rows[w].user \in Users
  BY DEF Payouts, Row
<1>1. ASSUME NEW u \in Users PROVE IsFiniteSet(Standing(u))
  <2>1. Standing(u) \subseteq Requested
    BY DEF Standing, Requested
  <2> QED
    BY <2>1, FS_Subset DEF Balanced
(* Every step but a request and the failure of a withdrawal. *)
<1>2. ASSUME UNCHANGED available,
             \A w \in Withdrawals :
                 /\ rows'[w] = None <=> rows[w] = None
                 /\ rows[w] # None => /\ rows'[w].user = rows[w].user
                                      /\ rows'[w].amount = rows[w].amount
                                      /\ rows'[w].status = "failed" <=> rows[w].status = "failed"
      PROVE  Balanced'
  <2>1. Requested' = Requested
    BY <1>2 DEF Requested
  <2>2. \A u \in Users : Cost(u)' = Cost(u)
    BY <1>2, CostStays
  <2> QED
    BY <1>2, <2>1, <2>2 DEF Balanced
<1>3. ASSUME NEW w \in Withdrawals, NEW u \in Users, NEW a \in Addresses,
             NEW amount \in Amounts, RequestWithdrawal(w, u, a, amount)
      PROVE  Balanced'
  <2>1. /\ rows[w] = None /\ rows'[w] = NewRow(u, amount) /\ rows'[w] # None
        /\ rows'[w].user = u /\ rows'[w].amount = amount /\ rows'[w].status = "pending"
        /\ \A v \in Withdrawals \ {w} : rows'[v] = rows[v]
        /\ amount \in Int
    <3>1. NewRow(u, amount) \in Row
      BY OpeningAssumption DEF NewRow, Row, Status
    <3> QED
      BY <1>0, <1>3, <3>1, NoneAssumption, OpeningAssumption DEF RequestWithdrawal, NewRow
  <2>2. Requested' = Requested \cup {w}
    BY <2>1 DEF Requested
  <2>3. IsFiniteSet(Requested')
    BY <2>2, FS_AddElement DEF Balanced
  <2>4. ASSUME NEW v \in Users PROVE available'[v] = Opening - Cost(v)'
    <3>1. CASE v = u
      <4>1. Standing(u)' = Standing(u) \cup {w} /\ w \notin Standing(u)
        BY <2>1 DEF Standing
      <4> DEFINE f == [x \in Standing(u) |-> rows[x].amount]
                 g == [x \in Standing(u) \cup {w} |-> rows'[x].amount]
      <4>2. /\ \A x \in Standing(u) : rows[x].amount \in Nat /\ rows'[x] = rows[x]
            /\ rows'[w].amount = amount
        BY <1>0, <2>1 DEF Standing
      <4>3. /\ DOMAIN f = Standing(u) /\ DOMAIN g = Standing(u) \cup {w}
            /\ \A x \in Standing(u) : f[x] = g[x] /\ f[x] \in Int
            /\ g[w] = amount
        BY <4>2
      <4>4. Cost(u)' = Cost(u) + amount
        <5>1. Cost(u) = SumFunction(f) /\ Cost(u)' = SumFunction(g)
          BY <4>1 DEF Cost
        <5> HIDE DEF f, g
        <5>2. SumFunction(g) = SumFunction(f) + g[w]
          <6>1. OneMore(f, g, Standing(u), w)
            BY <1>1, <2>1, <4>1, <4>3 DEF OneMore
          <6> QED
            BY <6>1, SumWithOneMore
        <5> QED
          BY <4>3, <5>1, <5>2
      <4>5. available'[u] = available[u] - amount
        BY <1>3 DEF RequestWithdrawal
      <4>6. Cost(u) \in Int
        <5>1. \A x \in Standing(u) : [y \in Standing(u) |-> rows[y].amount][x] \in Int
          BY <1>0 DEF Standing
        <5> QED
          BY <1>1, <5>1, SumOnInt DEF Cost, SumFunction
      <4> QED
        BY <2>1, <3>1, <4>4, <4>5, <4>6, OpeningAssumption DEF Balanced
    <3>2. CASE v # u
      <4>1. Standing(v)' = Standing(v)
        BY <2>1, <3>2 DEF Standing
      <4>2. [x \in Standing(v)' |-> rows'[x].amount] = [x \in Standing(v) |-> rows[x].amount]
        BY <2>1, <4>1 DEF Standing
      <4> QED
        BY <1>3, <3>2, <4>2 DEF Balanced, Cost, RequestWithdrawal
    <3> QED
      BY <3>1, <3>2
  <2> QED
    BY <2>3, <2>4 DEF Balanced
<1>4. ASSUME NEW w \in Withdrawals, MarkFailed(w) PROVE Balanced'
  <2>1. /\ rows[w] # None /\ rows[w].status = "submitted"
        /\ rows[w] \in Row /\ rows[w].amount \in Nat
    BY <1>0, <1>4 DEF MarkFailed, RunnerKnows
  <2>2. PICK owner \in Users : owner = rows[w].user
    BY <1>0, <2>1
  <2>3. /\ rows'[w] = [rows[w] EXCEPT !.status = "failed"]
        /\ \A v \in Withdrawals \ {w} : rows'[v] = rows[v]
        /\ available' = [available EXCEPT ![owner] = @ + rows[w].amount]
    BY <1>0, <1>4, <2>1, <2>2 DEF MarkFailed
  <2>4. rows'[w] # None /\ rows'[w].status = "failed"
    BY <2>1, <2>3, NoneAssumption DEF Row, Status
  <2>5. IsFiniteSet(Requested')
    <3>1. Requested' = Requested
      BY <2>1, <2>3, <2>4 DEF Requested
    <3> QED
      BY <3>1 DEF Balanced
  <2>6. ASSUME NEW v \in Users PROVE available'[v] = Opening - Cost(v)'
    <3>1. CASE v = owner
      <4> DEFINE S == Standing(owner)'
      <4>1. Standing(owner) = S \cup {w} /\ w \notin S
        <5>1. w \in Standing(owner) /\ w \notin S
          BY <2>1, <2>2, <2>4 DEF Standing
        <5>2. \A x \in Withdrawals \ {w} : x \in S <=> x \in Standing(owner)
          BY <2>3 DEF Standing
        <5>3. S \subseteq Withdrawals /\ Standing(owner) \subseteq Withdrawals
          BY DEF Standing
        <5> HIDE DEF S
        <5> QED
          BY <5>1, <5>2, <5>3
      <4> DEFINE f == [x \in S |-> rows'[x].amount]
                 g == [x \in S \cup {w} |-> rows[x].amount]
      <4>2. /\ DOMAIN f = S /\ DOMAIN g = S \cup {w}
            /\ \A x \in S : f[x] = g[x] /\ f[x] \in Int
            /\ g[w] = rows[w].amount
        <5>1. \A x \in S : rows'[x] = rows[x] /\ rows[x].amount \in Nat
          <6>1. \A x \in S : x \in Withdrawals \ {w} /\ x \in Standing(owner)
            BY <4>1 DEF Standing
          <6>2. \A x \in Standing(owner) : rows[x].amount \in Nat
            BY <1>0 DEF Standing
          <6> HIDE DEF S
          <6> QED
            BY <2>3, <6>1, <6>2
        <5> HIDE DEF S
        <5> QED
          BY <5>1
      <4>3. IsFiniteSet(S)
        BY <1>1, <4>1, FS_Subset
      <4>4. Cost(owner) = SumFunction(g) /\ Cost(owner)' = SumFunction(f)
        BY <4>1 DEF Cost
      <4> HIDE DEF S, f, g
      <4>5. Cost(owner) = Cost(owner)' + rows[w].amount
        <5>1. SumFunction(g) = SumFunction(f) + g[w]
          <6>1. OneMore(f, g, S, w)
            BY <2>1, <4>1, <4>2, <4>3 DEF OneMore
          <6> QED
            BY <6>1, SumWithOneMore
        <5> QED
          BY <4>2, <4>4, <5>1
      <4>6. Cost(owner)' \in Int
        BY <4>2, <4>3, <4>4, SumOnInt DEF SumFunction
      <4>7. available'[owner] = available[owner] + rows[w].amount
        BY <2>3
      <4> QED
        BY <2>1, <3>1, <4>5, <4>6, <4>7, OpeningAssumption DEF Balanced
    <3>2. CASE v # owner
      <4>1. Standing(v)' = Standing(v)
        BY <2>1, <2>2, <2>3, <2>4, <3>2 DEF Standing
      <4>2. [x \in Standing(v)' |-> rows'[x].amount] = [x \in Standing(v) |-> rows[x].amount]
        BY <2>2, <2>3, <3>2, <4>1 DEF Standing
      <4> QED
        BY <2>3, <3>2, <4>2 DEF Balanced, Cost
    <3> QED
      BY <3>1, <3>2
  <2> QED
    BY <2>5, <2>6 DEF Balanced
(* The other steps: no row, the row of a faucet transfer, or one that      *)
(* neither fails nor has failed.                                           *)
<1>5. ASSUME NEW p \in Faucets, UNCHANGED available, NEW row,
             rows' = [rows EXCEPT ![p] = row]
      PROVE  Balanced'
  BY <1>2, <1>5, TablesAssumption
<1>6. ASSUME NEW p \in Payouts, UNCHANGED available, rows[p] \in Row,
             rows[p].status # "failed", NEW status \in Status, NEW tx \in Nat,
             rows' = [rows EXCEPT ![p] = [@ EXCEPT !.status = status, !.tx = tx]],
             status # "failed" \/ p \in Faucets
      PROVE  Balanced'
  <2> DEFINE row == [rows[p] EXCEPT !.status = status, !.tx = tx]
  <2>1. /\ row \in Row /\ row # None /\ row.user = rows[p].user
        /\ row.amount = rows[p].amount /\ row.status = status
    BY <1>6, NoneAssumption DEF Row
  <2>2. rows[p] # None
    BY <1>6, NoneAssumption
  <2>3. rows' = [rows EXCEPT ![p] = row]
    BY <1>6
  <2> HIDE DEF row
  <2> QED
    BY <1>0, <1>2, <1>6, <2>1, <2>2, <2>3, TablesAssumption
<1>7. CASE UNCHANGED <<rows, available>>
  BY <1>2, <1>7
<1>8. CASE MarkSubmitted
  <2>1. /\ rows[runner.payout] \in Row /\ rows[runner.payout].status = "pending"
        /\ runner.payout \in Payouts /\ Len(sent[runner.payout]) \in Nat
    BY <1>8 DEF MarkSubmitted, RunnerKnows
  <2>2. /\ UNCHANGED available
        /\ rows' = [rows EXCEPT ![runner.payout] =
              [@ EXCEPT !.status = "submitted", !.tx = Len(sent[runner.payout])]]
    BY <1>8 DEF MarkSubmitted
  <2> QED
    BY <1>6, <2>1, <2>2 DEF Status
<1>9. ASSUME NEW p \in Payouts,
             MarkConfirmed(p) \/ (MarkFailed(p) /\ p \in Faucets)
      PROVE  Balanced'
  <2>1. /\ rows[p] \in Row /\ rows[p].status = "submitted" /\ rows[p].tx \in Nat
    BY <1>9 DEF MarkConfirmed, MarkFailed, RunnerKnows, Row
  <2>2. PICK status \in {"confirmed", "failed"} :
            /\ rows' = [rows EXCEPT ![p].status = status]
            /\ status # "failed" \/ p \in Faucets
    BY <1>9 DEF MarkConfirmed, MarkFailed
  <2>3. UNCHANGED available
    BY <1>9, TablesAssumption DEF MarkConfirmed, MarkFailed
  <2>4. [rows[p] EXCEPT !.status = status] =
            [rows[p] EXCEPT !.status = status, !.tx = rows[p].tx]
    BY <2>1 DEF Row
  <2>5. rows' = [rows EXCEPT ![p] = [@ EXCEPT !.status = status, !.tx = rows[p].tx]]
    BY <2>2, <2>4
  <2> QED
    BY <1>6, <2>1, <2>2, <2>3, <2>5 DEF Status
<1>10. ASSUME NEW u \in Users, NEW f \in Faucets, NEW amount \in Amounts,
              CreateFaucetTransfer(f, u, amount)
       PROVE  Balanced'
  BY <1>5, <1>10 DEF CreateFaucetTransfer, Payouts
<1>11. CASE RunnerStep
  <2>1. ASSUME \/ \E kind \in Kinds : ListPending(kind) \/ ListSubmitted(kind)
               \/ EndCycle
               \/ \E p \in Payouts : Submit(p) \/ SubmitFails(p) \/ PollNothing(p)
        PROVE  UNCHANGED <<rows, available>>
    BY <2>1 DEF ListPending, ListSubmitted, EndCycle, Submit, SubmitFails, PollNothing
  <2> QED
    BY <1>4, <1>7, <1>8, <1>9, <1>11, <2>1 DEF RunnerStep, Payouts
<1>12. CASE RunnerStops
  BY <1>7, <1>12 DEF RunnerStops
<1>13. ASSUME NEW p \in Payouts,
              SubmitAnswerLost(p) \/ \E i \in DOMAIN sent[p] : Mine(p, i)
       PROVE  Balanced'
  BY <1>7, <1>13 DEF SubmitAnswerLost, Mine
<1>14. ASSUME NEW u \in Users, NEW a \in Addresses, ConfirmLink(u, a)
       PROVE  Balanced'
  BY <1>7, <1>14 DEF ConfirmLink
<1>15. CASE UNCHANGED vars
  BY <1>7, <1>15 DEF vars
<1> QED
  BY <1>3, <1>10, <1>11, <1>12, <1>13, <1>14, <1>15 DEF Next

(* A withdrawal costs its user its amount once, and nothing if it fails:   *)
(* RequestWithdrawal's debit and MarkWithdrawalFailed's compensation match *)
(* whatever the runner has been through, and no balance is negative.       *)
THEOREM MoneyAccountedHolds == Spec => []MoneyAccounted
<1>1. Init => Balanced
  <2> SUFFICES ASSUME Init PROVE Balanced
    OBVIOUS
  <2>1. Requested = {}
    BY DEF Init, Requested, Payouts
  <2>2. ASSUME NEW u \in Users PROVE available[u] = Opening - Cost(u)
    <3>1. Standing(u) = {}
      BY DEF Init, Standing, Payouts
    <3>2. SumFunctionOnSet([w \in {} |-> rows[w].amount], {}) = 0
      BY SumOnEmpty
    <3>3. Cost(u) = 0
      BY <3>1, <3>2 DEF Cost, SumFunction
    <3> QED
      BY <3>3, OpeningAssumption DEF Init
  <2> QED
    BY <2>1, <2>2, FS_EmptySet DEF Balanced
<1>2. PayoutInv /\ Balanced => MoneyAccounted
  BY DEF PayoutInv, Balanced, MoneyAccounted, Cost
<1> QED
  BY <1>1, <1>2, BalancedStep, PayoutInvHolds, PTL DEF Spec
=============================================================================
