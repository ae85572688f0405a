--------------------------- MODULE DepositsProofs ---------------------------
(***************************************************************************)
(* For any users, transfers, confirmations and start block: the scan       *)
(* misses no deposit, only money that has arrived is credited, and what    *)
(* counts as swept has left its address.                                   *)
(***************************************************************************)
EXTENDS Deposits, TLAPS

(* Transfers get into the next block, to an address that is known. *)
ChainKnown ==
    \A t \in Transfers : chain[t] # None =>
        chain[t].block <= height + 1 /\ chain[t].to \in provisioned

(* The cursor is a block of the chain, except before the first scan when   *)
(* the configured start is still to come.                                  *)
CursorKnown ==
    /\ cursor = None <=> firstCursor = None
    /\ cursor # None => cursor <= height \/ cursor <= firstCursor

(* A sweep that was sent for a deposit moves it, unless an earlier one has *)
(* done so.                                                                *)
SweptBy(t, s) == s \in DOMAIN sweeps /\ (t \in sweeps[s].moves \/ t \in Moved)

(* A row is a transfer that arrived; its status, its ledger entry and its  *)
(* sweep go together.                                                      *)
RowTrue(t) ==
    /\ t \in credited => rows[t] # None
    /\ rows[t] # None =>
          /\ Succeeded(chain[t])
          /\ rows[t].user = chain[t].to
          /\ rows[t].block = chain[t].block
          /\ t \in credited <=> rows[t].status = "confirmed"
          /\ t \in credited => height - chain[t].block + 1 >= Confirmations
          /\ rows[t].sweep = "submitted" => SweptBy(t, rows[t].sweepTx)
          /\ rows[t].sweep = "confirmed" => t \in Moved

(* What the scan has read and not saved yet.  The addresses are listed     *)
(* after the block number is read, so that every transfer up to that block *)
(* goes to one of them.                                                    *)
ScanTrue ==
    /\ runner.block <= height
    /\ At("cursor") =>
          \A t \in Transfers :
              chain[t] # None /\ chain[t].block <= runner.block => chain[t].to \in runner.users
    /\ At("observe") =>
          /\ cursor # None
          /\ \A t \in runner.todo : Succeeded(chain[t])
          /\ \A t \in Transfers :
                Succeeded(chain[t]) /\ chain[t].block \in (cursor + 1) .. runner.block
                    => t \in runner.todo \/ rows[t] # None

(* What the rest of the cycle has listed. *)
ListsTrue ==
    /\ At("confirm") => \A t \in runner.todo : rows[t] # None /\ ConfirmedEnough(t)
    /\ runner.at \in {"sweep", "sweepSent"} => \A t \in runner.todo : rows[t] # None
    /\ At("sweepSent") => /\ runner.sent \in [deposit : Transfers, sweep : SweepIds]
                          /\ rows[runner.sent.deposit] # None
                          /\ SweptBy(runner.sent.deposit, runner.sent.sweep)
    /\ At("receipts") =>
          \A t \in runner.todo : rows[t] # None /\ rows[t].sweep = "submitted"

DepositInv ==
    /\ NoDepositMissed
    /\ ChainKnown
    /\ CursorKnown
    /\ \A t \in Transfers : RowTrue(t)
    /\ ScanTrue
    /\ ListsTrue
-----------------------------------------------------------------------------
(* The first state. *)
LEMMA DepositInit == Init => DepositInv
<1> SUFFICES ASSUME Init PROVE DepositInv
    OBVIOUS
<1>1. TypeOK
  <2>1. <<>> \in Seq(SweepTransactions) /\ Len(<<>>) = 0
    OBVIOUS
  <2> QED
    BY <2>1, BoundsAssumption DEF Init, TypeOK, Idle, Phases
<1>2. NoDepositMissed /\ ChainKnown /\ CursorKnown
  BY <1>1 DEF Init, NoDepositMissed, ChainKnown, CursorKnown
<1>3. (\A t \in Transfers : RowTrue(t)) /\ ScanTrue /\ ListsTrue
  BY DEF Init, RowTrue, ScanTrue, ListsTrue, Idle, At
<1> QED
  BY <1>2, <1>3 DEF DepositInv

(* A sweep that has succeeded has done so for good. *)
LEMMA MovedGrows ==
    ASSUME \A s \in DOMAIN sweeps :
               /\ s \in DOMAIN sweeps'
               /\ sweeps'[s].moves = sweeps[s].moves
               /\ Succeeded(sweeps[s]) => Succeeded(sweeps[s])'
    PROVE  /\ Moved \subseteq Moved'
           /\ \A t \in Transfers : \A s : SweptBy(t, s) => SweptBy(t, s)'
<1>1. ASSUME NEW t \in Moved PROVE t \in Moved'
  <2>1. PICK s \in DOMAIN sweeps : Succeeded(sweeps[s]) /\ t \in sweeps[s].moves
    BY <1>1 DEF Moved
  <2>2. s \in DOMAIN sweeps' /\ Succeeded(sweeps[s])' /\ t \in sweeps'[s].moves
    BY <2>1
  <2> QED
    BY <2>2 DEF Moved
<1> QED
  BY <1>1 DEF SweptBy

(* What the rest of the world may do: the past of the chain stays, new     *)
(* transfers get into the next block.                                      *)
WorldMoves ==
    /\ UNCHANGED <<cursor, firstCursor, rows, credited, runner, stops>>
    /\ TypeOK' /\ height <= height' /\ ChainKnown'
    /\ \A t \in Transfers :
          /\ Succeeded(chain[t]) => chain'[t] = chain[t] /\ Succeeded(chain[t])'
          /\ chain'[t] # None /\ chain'[t].block <= height => chain'[t] = chain[t]
    /\ \A s \in DOMAIN sweeps :
          /\ s \in DOMAIN sweeps'
          /\ sweeps'[s].moves = sweeps[s].moves
          /\ Succeeded(sweeps[s]) => Succeeded(sweeps[s])'

LEMMA WorldKeeps == ASSUME DepositInv, WorldMoves PROVE DepositInv'
<1> USE DEF DepositInv
<1>1. TypeOK /\ TypeOK' /\ height <= height' /\ height \in Nat /\ height' \in Nat
  BY BoundsAssumption DEF NoDepositMissed, WorldMoves, TypeOK
<1>2. UNCHANGED <<cursor, firstCursor, rows, credited, runner>>
  BY DEF WorldMoves
<1>3. /\ Moved \subseteq Moved'
      /\ \A t \in Transfers : \A s : SweptBy(t, s) => SweptBy(t, s)'
  BY MovedGrows DEF WorldMoves
<1>4. ASSUME NEW t \in Transfers
      PROVE  /\ chain[t] \in Transactions \cup {None}
             /\ chain'[t] \in Transactions \cup {None}
             /\ chain'[t] # None => chain'[t].block \in Nat
             /\ Succeeded(chain[t]) => chain'[t] = chain[t] /\ Succeeded(chain[t])'
             /\ chain'[t] # None /\ chain'[t].block <= height => chain'[t] = chain[t]
             /\ Succeeded(chain[t])' /\ chain'[t].block <= height => Succeeded(chain[t])
  <2>1. chain[t] \in Transactions \cup {None} /\ chain'[t] \in Transactions \cup {None}
    BY <1>1 DEF TypeOK
  <2>2. chain'[t] # None => chain'[t].block \in Nat
    BY <2>1 DEF Transactions
  <2> QED
    BY <1>1, <2>1, <2>2 DEF WorldMoves, Succeeded, Mined
<1>5. NoDepositMissed'
  <2> SUFFICES ASSUME NEW t \in Transfers, cursor # None, Succeeded(chain[t])',
                      chain'[t].block \in (firstCursor + 1) .. cursor
               PROVE  rows[t] # None
    BY <1>1, <1>2 DEF NoDepositMissed
  <2>1. cursor \in Nat /\ firstCursor \in Nat /\ chain'[t].block \in Nat
    BY <1>1, <1>4 DEF TypeOK, CursorKnown, Succeeded, Mined
  <2>2. chain'[t].block <= height
    BY <1>1, <2>1 DEF CursorKnown
  <2> QED
    BY <1>4, <2>2 DEF NoDepositMissed, Succeeded, Mined
<1>6. ChainKnown' /\ CursorKnown'
  BY <1>1, <1>2 DEF WorldMoves, CursorKnown, TypeOK
<1>7. ASSUME NEW t \in Transfers PROVE RowTrue(t)'
  <2>1. CASE rows[t] = None
    BY <1>2, <2>1 DEF RowTrue
  <2>2. CASE rows[t] # None
    <3>1. Succeeded(chain[t]) /\ Succeeded(chain[t])' /\ chain'[t] = chain[t]
          /\ chain[t].block \in Nat
      BY <1>4, <2>2 DEF RowTrue, Succeeded, Mined
    <3>2. t \in credited => height' - chain[t].block + 1 >= Confirmations
      BY <1>1, <2>2, <3>1, ConfigAssumption DEF RowTrue
    <3> QED
      BY <1>2, <1>3, <2>2, <3>1, <3>2 DEF RowTrue
  <2> QED
    BY <2>1, <2>2
<1>8. ScanTrue'
  <2>1. runner.block \in Nat /\ runner.block <= height /\ runner.block <= height'
        /\ runner.todo \subseteq Transfers
    BY <1>1 DEF ScanTrue, TypeOK
  <2>2. ASSUME At("cursor"), NEW t \in Transfers, chain'[t] # None,
               chain'[t].block <= runner.block
        PROVE  chain'[t].to \in runner.users
    <3>1. chain'[t] = chain[t]
      BY <1>1, <1>4, <2>1, <2>2
    <3> QED
      BY <2>2, <3>1 DEF ScanTrue
  <2>3. ASSUME At("observe"), NEW t \in Transfers, Succeeded(chain[t])',
               chain'[t].block \in (cursor + 1) .. runner.block
        PROVE  t \in runner.todo \/ rows[t] # None
    <3>1. chain'[t].block \in Nat /\ chain'[t].block <= height
          /\ chain'[t].block <= runner.block
      BY <1>1, <1>4, <2>1, <2>3 DEF ScanTrue, TypeOK, Succeeded, Mined
    <3>2. chain'[t] = chain[t] /\ Succeeded(chain[t])
      BY <1>4, <2>3, <3>1 DEF Succeeded, Mined
    <3> QED
      BY <2>3, <3>2 DEF ScanTrue
  <2>4. ASSUME At("observe"), NEW t \in runner.todo PROVE Succeeded(chain[t])'
    BY <1>4, <2>1, <2>4 DEF ScanTrue
  <2> QED
    BY <1>2, <2>1, <2>2, <2>3, <2>4 DEF ScanTrue, At
<1>9. ListsTrue'
  <2>1. At("sweepSent") => runner.sent.deposit \in Transfers
    BY <1>1 DEF ListsTrue, TypeOK
  <2>2. \A t : ConfirmedEnough(t)' <=> ConfirmedEnough(t)
    BY <1>2 DEF ConfirmedEnough
  <2> QED
    BY <1>2, <1>3, <2>1, <2>2 DEF ListsTrue, At
<1> QED
  BY <1>5, <1>6, <1>7, <1>8, <1>9

LEMMA WorldStep ==
    ASSUME DepositInv,
           \/ NewBlock
           \/ \E u \in Users : ProvisionUser(u)
           \/ \E t \in Transfers, u \in Users : IncludeTransfer(t, u)
           \/ \E s \in DOMAIN sweeps : IncludeSweep(s)
           \/ UNCHANGED vars
    PROVE  DepositInv'
<1> USE DEF DepositInv, NoDepositMissed
<1>0. height \in Nat /\ TypeOK
  BY BoundsAssumption DEF TypeOK
<1>1. CASE NewBlock
  <2>1. height' = height + 1 /\ TypeOK'
    BY <1>0, <1>1, BoundsAssumption DEF NewBlock, TypeOK
  <2>2. ASSUME NEW x, Succeeded(x) PROVE Succeeded(x)'
    BY <1>0, <2>1, <2>2 DEF Succeeded, Mined
  <2>3. ChainKnown'
    <3>1. \A t \in Transfers : chain[t] # None => chain[t].block \in Nat
      BY <1>0 DEF TypeOK, Transactions
    <3> QED
      BY <1>0, <1>1, <2>1, <3>1 DEF ChainKnown, NewBlock
  <2>4. WorldMoves
    <3>1. UNCHANGED <<chain, sweeps, cursor, firstCursor, rows, credited, runner, stops>>
      BY <1>1 DEF NewBlock
    <3>2. \A x : Succeeded(x) => Succeeded(x)'
      BY <2>2
    <3>3. \A t \in Transfers : Succeeded(chain[t]) => Succeeded(chain[t])'
      BY <3>1, <3>2 DEF Succeeded, Mined
    <3>4. \A s \in DOMAIN sweeps : Succeeded(sweeps[s]) => Succeeded(sweeps[s])'
      BY <3>1, <3>2 DEF Succeeded, Mined
    <3> QED
      BY <1>0, <2>1, <2>3, <3>1, <3>3, <3>4 DEF WorldMoves
  <2> QED
    BY <2>4, WorldKeeps
<1>2. ASSUME NEW u \in Users, ProvisionUser(u) PROVE DepositInv'
  <2>1. WorldMoves
    BY <1>0, <1>2 DEF ProvisionUser, WorldMoves, TypeOK, ChainKnown, Succeeded, Mined
  <2> QED
    BY <2>1, WorldKeeps
<1>3. ASSUME NEW t \in Transfers, NEW u \in Users, IncludeTransfer(t, u) PROVE DepositInv'
  <2>1. PICK ok \in BOOLEAN :
            chain' = [chain EXCEPT ![t] = [to |-> u, block |-> height + 1, ok |-> ok]]
    BY <1>3 DEF IncludeTransfer
  <2> DEFINE x == [to |-> u, block |-> height + 1, ok |-> ok]
  <2>2. /\ x \in Transactions /\ x.block = height + 1 /\ x.to = u
        /\ chain[t] = None /\ u \in provisioned
        /\ UNCHANGED <<provisioned, height, sweeps, cursor, firstCursor, rows, credited,
                       runner, stops>>
    BY <1>0, <1>3, BoundsAssumption DEF IncludeTransfer, Transactions
  <2>3. /\ chain'[t] = x /\ chain' = [chain EXCEPT ![t] = x]
        /\ \A o \in Transfers \ {t} : chain'[o] = chain[o]
    BY <1>0, <2>1 DEF TypeOK
  <2> HIDE DEF x
  <2>4. TypeOK'
    BY <1>0, <2>2, <2>3 DEF TypeOK
  <2>5. ChainKnown'
    BY <1>0, <2>2, <2>3 DEF ChainKnown
  <2>6. ASSUME NEW o \in Transfers
        PROVE  /\ Succeeded(chain[o]) => chain'[o] = chain[o] /\ Succeeded(chain[o])'
               /\ chain'[o] # None /\ chain'[o].block <= height => chain'[o] = chain[o]
    BY <1>0, <2>2, <2>3 DEF Succeeded, Mined
  <2>7. WorldMoves
    BY <1>0, <2>2, <2>4, <2>5, <2>6 DEF WorldMoves, Succeeded, Mined
  <2> QED
    BY <2>7, WorldKeeps
<1>4. ASSUME NEW s \in DOMAIN sweeps, IncludeSweep(s) PROVE DepositInv'
  <2>1. PICK ok \in BOOLEAN :
            sweeps' = [sweeps EXCEPT ![s].block = height + 1, ![s].ok = ok]
    BY <1>4 DEF IncludeSweep
  <2> DEFINE x == [sweeps[s] EXCEPT !.block = height + 1, !.ok = ok]
  <2>2. /\ sweeps[s].block = 0 /\ height < MaxHeight
        /\ UNCHANGED <<provisioned, height, chain, cursor, firstCursor, rows, credited,
                       runner, stops>>
    BY <1>4 DEF IncludeSweep
  <2>3. sweeps \in Seq(SweepTransactions) /\ sweeps[s] \in SweepTransactions
    BY <1>0 DEF TypeOK
  <2>4. x \in SweepTransactions /\ x.moves = sweeps[s].moves
    <3>1. height + 1 \in 0 .. MaxHeight + 1
      BY <1>0, <2>2, BoundsAssumption
    <3> QED
      BY <2>3, <3>1 DEF SweepTransactions
  <2>5. sweeps' = [sweeps EXCEPT ![s] = x]
    BY <2>1
  <2> HIDE DEF x
  <2>6. /\ sweeps' \in Seq(SweepTransactions) /\ Len(sweeps') = Len(sweeps)
        /\ DOMAIN sweeps' = DOMAIN sweeps /\ sweeps'[s] = x
        /\ \A o \in DOMAIN sweeps \ {s} : sweeps'[o] = sweeps[o]
    BY <2>3, <2>4, <2>5
  <2>7. TypeOK'
    BY <1>0, <2>2, <2>6 DEF TypeOK
  <2>8. ASSUME NEW o \in DOMAIN sweeps
        PROVE  /\ sweeps'[o].moves = sweeps[o].moves
               /\ Succeeded(sweeps[o]) => Succeeded(sweeps[o])'
    BY <1>0, <2>2, <2>4, <2>6 DEF Succeeded, Mined
  <2>9. WorldMoves
    BY <1>0, <2>2, <2>6, <2>7, <2>8 DEF WorldMoves, ChainKnown, Succeeded, Mined
  <2> QED
    BY <2>9, WorldKeeps
<1>5. CASE UNCHANGED vars
  <2>1. WorldMoves
    BY <1>0, <1>5 DEF vars, WorldMoves, TypeOK, ChainKnown, Succeeded, Mined
  <2> QED
    BY <2>1, WorldKeeps
<1> QED
  BY <1>1, <1>2, <1>3, <1>4, <1>5

(* The runner's steps leave the chain alone. *)
LEMMA RunnerOnly ==
    ASSUME DepositInv, TypeOK', ScanTrue', ListsTrue',
           UNCHANGED <<provisioned, external, sweeps, cursor, firstCursor, rows, credited>>
    PROVE  DepositInv'
<1> USE DEF DepositInv, external
<1>1. Moved' = Moved
  BY DEF Moved, Succeeded, Mined
<1>2. \A t \in Transfers : RowTrue(t)'
  BY <1>1 DEF RowTrue, SweptBy, Succeeded, Mined
<1>3. NoDepositMissed' /\ ChainKnown' /\ CursorKnown'
  BY DEF NoDepositMissed, ChainKnown, CursorKnown, Succeeded, Mined
<1> QED
  BY <1>2, <1>3

LEMMA ReadingKeeps ==
    ASSUME DepositInv,
           \/ CurrentBlock \/ ListDepositAddresses \/ ScanDeposits \/ ListSweepCandidates
           \/ EndScan \/ ListSubmittedSweeps \/ EndReceipts \/ RunnerStops
    PROVE  DepositInv'
<1> USE DEF DepositInv, NoDepositMissed
<1>0. TypeOK /\ height \in Nat /\ runner.block \in Nat /\ runner.block <= height
  BY BoundsAssumption DEF TypeOK, ScanTrue
<1>1. UNCHANGED <<provisioned, external, sweeps, cursor, firstCursor, rows, credited>>
      /\ UNCHANGED <<height, chain>>
  BY DEF CurrentBlock, ListDepositAddresses, ScanDeposits, ListSweepCandidates, EndScan,
     ListSubmittedSweeps, EndReceipts, RunnerStops, external
<1>2. CASE CurrentBlock
  <2>1. runner' = [runner EXCEPT !.at = "addresses", !.block = height] /\ UNCHANGED stops
    BY <1>2 DEF CurrentBlock
  <2>2. TypeOK'
    BY <1>0, <1>1, <2>1 DEF TypeOK, Phases
  <2>3. ScanTrue' /\ ListsTrue'
    BY <1>0, <1>1, <2>1 DEF ScanTrue, ListsTrue, At, TypeOK
  <2> QED
    BY <1>1, <2>2, <2>3, RunnerOnly
<1>3. CASE ListDepositAddresses
  <2>1. runner' = [runner EXCEPT !.at = "cursor", !.users = provisioned] /\ UNCHANGED stops
    BY <1>3 DEF ListDepositAddresses
  <2>2. TypeOK'
    BY <1>0, <1>1, <2>1 DEF TypeOK, Phases
  <2>3. ScanTrue' /\ ListsTrue'
    BY <1>0, <1>1, <2>1 DEF ScanTrue, ListsTrue, At, TypeOK, ChainKnown
  <2> QED
    BY <1>1, <2>2, <2>3, RunnerOnly
<1>4. CASE ScanDeposits
  <2>1. runner' = [runner EXCEPT !.at = "observe", !.todo = Scanned] /\ UNCHANGED stops
        /\ At("cursor") /\ cursor # None
    BY <1>4 DEF ScanDeposits
  <2>2. TypeOK'
    BY <1>0, <1>1, <2>1 DEF TypeOK, Phases, Scanned
  <2>3. \A t \in Scanned : Succeeded(chain[t])
    BY DEF Scanned
  <2>4. ASSUME NEW t \in Transfers, Succeeded(chain[t]),
               chain[t].block \in (cursor + 1) .. runner.block
        PROVE  t \in Scanned
    <3>1. chain[t] # None /\ chain[t].block <= runner.block
      BY <1>0, <2>1, <2>4 DEF Succeeded, Mined, TypeOK
    <3> QED
      BY <2>1, <2>4, <3>1 DEF ScanTrue, Scanned
  <2>5. /\ runner'.at = "observe" /\ runner'.todo = Scanned
        /\ runner'.block = runner.block
    BY <1>0, <2>1 DEF TypeOK
  <2>6. ScanTrue' /\ ListsTrue'
    BY <1>0, <1>1, <2>1, <2>3, <2>4, <2>5 DEF ScanTrue, ListsTrue, At, Succeeded, Mined
  <2> QED
    BY <1>1, <2>2, <2>6, RunnerOnly
<1>5. CASE ListSweepCandidates
  <2> DEFINE found == {t \in DepositsWith("confirmed") : rows[t].sweep \in {"", "failed"}}
  <2>1. runner' = [runner EXCEPT !.at = "sweep", !.todo = found] /\ UNCHANGED stops
    BY <1>5 DEF ListSweepCandidates
  <2>2. found \subseteq Transfers /\ \A t \in found : rows[t] # None
    BY DEF DepositsWith
  <2> HIDE DEF found
  <2>3. TypeOK' /\ ScanTrue' /\ ListsTrue'
    BY <1>0, <1>1, <2>1, <2>2 DEF TypeOK, Phases, ScanTrue, ListsTrue, At
  <2> QED
    BY <1>1, <2>3, RunnerOnly
<1>6. CASE ListSubmittedSweeps
  <2> DEFINE found == {t \in Transfers : rows[t] # None /\ rows[t].sweep = "submitted"}
  <2>1. runner' = [runner EXCEPT !.at = "receipts", !.todo = found] /\ UNCHANGED stops
    BY <1>6 DEF ListSubmittedSweeps
  <2>2. found \subseteq Transfers
        /\ \A t \in found : rows[t] # None /\ rows[t].sweep = "submitted"
    OBVIOUS
  <2> HIDE DEF found
  <2>3. TypeOK' /\ ScanTrue' /\ ListsTrue'
    BY <1>0, <1>1, <2>1, <2>2 DEF TypeOK, Phases, ScanTrue, ListsTrue, At
  <2> QED
    BY <1>1, <2>3, RunnerOnly
<1>7. CASE EndScan \/ EndReceipts \/ RunnerStops
  <2>1. runner' = Idle /\ stops' \in 0 .. MaxStops
    BY <1>0, <1>7, BoundsAssumption DEF EndScan, EndReceipts, RunnerStops, TypeOK
  <2>2. TypeOK' /\ ScanTrue' /\ ListsTrue'
    BY <1>0, <1>1, <2>1 DEF TypeOK, Phases, ScanTrue, ListsTrue, At, Idle
  <2> QED
    BY <1>1, <2>2, RunnerOnly
<1> QED
  BY <1>2, <1>3, <1>4, <1>5, <1>6, <1>7

(* Saving the cursor: the first one, or the block of a scan whose deposits *)
(* are all in the table.                                                   *)
LEMMA CursorSavedKeeps ==
    ASSUME DepositInv, SaveInitialChainState \/ SaveChainState
    PROVE  DepositInv'
<1> USE DEF DepositInv
<1>0. TypeOK /\ height \in Nat /\ runner.block \in Nat /\ runner.block <= height
  BY BoundsAssumption DEF TypeOK, ScanTrue, NoDepositMissed
<1>1. UNCHANGED <<provisioned, height, chain, sweeps, rows, credited, stops>>
  BY DEF SaveInitialChainState, SaveChainState, external
<1>2. /\ ChainKnown' /\ Moved' = Moved
      /\ \A x : Succeeded(x)' <=> Succeeded(x)
  BY <1>1 DEF ChainKnown, Moved, Succeeded, Mined
<1>3. \A t \in Transfers : RowTrue(t)'
  BY <1>1, <1>2 DEF RowTrue, SweptBy, Succeeded, Mined
<1>4. CASE SaveInitialChainState
  <2>1. initialBlock \in Nat
    BY <1>0, ConfigAssumption DEF initialBlock
  <2>2. cursor' = initialBlock /\ firstCursor' = initialBlock /\ runner' = Idle
    BY <1>4 DEF SaveInitialChainState
  <2> HIDE DEF initialBlock
  <2>3. TypeOK'
    BY <1>0, <1>1, <2>1, <2>2 DEF TypeOK, Idle, Phases
  <2>4. NoDepositMissed' /\ CursorKnown'
    BY <2>1, <2>2, <2>3, NoneAssumption DEF NoDepositMissed, CursorKnown
  <2>5. ScanTrue' /\ ListsTrue'
    BY <1>0, <1>1, <2>2 DEF ScanTrue, ListsTrue, Idle, At
  <2> QED
    BY <1>2, <1>3, <2>4, <2>5
<1>5. CASE SaveChainState
  <2> DEFINE due == {t \in DepositsWith("pending") : ConfirmedEnough(t)}
  <2>1. /\ At("observe") /\ runner.todo = {} /\ cursor' = runner.block
        /\ runner' = [runner EXCEPT !.at = "confirm", !.todo = due]
        /\ UNCHANGED firstCursor
    BY <1>5 DEF SaveChainState
  <2>2. due \subseteq Transfers /\ \A t \in due : rows[t] # None /\ ConfirmedEnough(t)
    BY DEF DepositsWith
  <2> HIDE DEF due
  <2>3. TypeOK'
    BY <1>0, <1>1, <2>1, <2>2 DEF TypeOK, Phases
  <2>4. cursor # None /\ firstCursor # None /\ cursor \in Nat /\ firstCursor \in Nat
    BY <1>0, <2>1 DEF ScanTrue, CursorKnown, TypeOK
  <2>5. CursorKnown'
    BY <1>0, <1>1, <2>1, <2>4, NoneAssumption DEF CursorKnown
  <2>6. NoDepositMissed'
    <3> SUFFICES ASSUME NEW t \in Transfers, Succeeded(chain[t]),
                        chain[t].block \in (firstCursor + 1) .. runner.block
                 PROVE  rows[t] # None
      BY <1>1, <2>1, <2>3 DEF NoDepositMissed, Succeeded, Mined
    <3>1. chain[t].block \in Nat
      BY <1>0 DEF TypeOK, Transactions, Succeeded, Mined
    <3>2. CASE chain[t].block <= cursor
      BY <2>4, <3>1, <3>2 DEF NoDepositMissed
    <3>3. CASE chain[t].block > cursor
      BY <1>0, <2>1, <2>4, <3>1, <3>3 DEF ScanTrue
    <3> QED
      BY <2>4, <3>1, <3>2, <3>3
  <2>7. ScanTrue'
    BY <1>0, <1>1, <2>1 DEF ScanTrue, At, TypeOK
  <2>8. ListsTrue'
    <3>1. runner'.at = "confirm" /\ runner'.todo = due /\ runner'.block = runner.block
      BY <1>0, <2>1 DEF TypeOK
    <3> QED
      BY <1>1, <2>2, <3>1 DEF ListsTrue, At, ConfirmedEnough
  <2> QED
    BY <1>2, <1>3, <2>5, <2>6, <2>7, <2>8
<1> QED
  BY <1>4, <1>5

(* The steps that write one row: it stays a row, its transfer and block    *)
(* are those of the chain, and no other row changes.                       *)
RowWritten(t, row) ==
    /\ row \in Deposit /\ rows' = [rows EXCEPT ![t] = row]
    /\ UNCHANGED <<provisioned, height, chain, cursor, firstCursor, stops>>
    /\ TypeOK'
    /\ Moved \subseteq Moved'
    /\ \A o \in Transfers : \A s : SweptBy(o, s) => SweptBy(o, s)'
    /\ \A o \in Transfers \ {t} : o \in credited' <=> o \in credited
    /\ runner'.block = runner.block

LEMMA RowWrittenKeeps ==
    ASSUME DepositInv, NEW t \in Transfers, NEW row, RowWritten(t, row),
           RowTrue(t)', ScanTrue', ListsTrue'
    PROVE  DepositInv'
<1> USE DEF DepositInv
<1>0. TypeOK /\ row # None
  BY NoneAssumption DEF NoDepositMissed, RowWritten
<1>1. rows'[t] = row /\ \A o \in Transfers \ {t} : rows'[o] = rows[o]
  BY <1>0 DEF RowWritten, TypeOK
<1>2. UNCHANGED <<provisioned, height, chain, cursor, firstCursor>>
      /\ \A x : Succeeded(x)' <=> Succeeded(x)
  BY DEF RowWritten, Succeeded, Mined
<1>3. NoDepositMissed' /\ ChainKnown' /\ CursorKnown'
  BY <1>0, <1>1, <1>2 DEF NoDepositMissed, ChainKnown, CursorKnown, RowWritten, Succeeded, Mined
<1>4. ASSUME NEW o \in Transfers \ {t} PROVE RowTrue(o)'
  <2>1. /\ o \in credited' <=> o \in credited
        /\ \A s : SweptBy(o, s) => SweptBy(o, s)'
        /\ o \in Moved => o \in Moved'
    BY DEF RowWritten
  <2>2. RowTrue(o) /\ rows'[o] = rows[o]
    BY <1>1
  <2> QED
    BY <1>2, <2>1, <2>2 DEF RowTrue, Succeeded, Mined
<1> QED
  BY <1>3, <1>4

(* UpsertObservedDeposit: a transfer that the scan has found. *)
LEMMA UpsertKeeps ==
    ASSUME DepositInv, NEW t \in Transfers, UpsertObservedDeposit(t)
    PROVE  DepositInv'
<1> USE DEF DepositInv
<1>0. TypeOK /\ RowTrue(t)
  BY DEF NoDepositMissed
<1>1. /\ At("observe") /\ t \in runner.todo
      /\ runner' = [runner EXCEPT !.todo = @ \ {t}]
      /\ UNCHANGED <<provisioned, height, chain, sweeps, cursor, firstCursor, credited, stops>>
  BY DEF UpsertObservedDeposit, external
<1>2. /\ Succeeded(chain[t]) /\ chain[t] \in Transactions /\ chain[t].to \in Users
      /\ chain[t].block \in 1 .. MaxHeight
  <2>1. Succeeded(chain[t]) /\ chain[t] \in Transactions
    BY <1>0, <1>1 DEF ScanTrue, TypeOK, Succeeded, Mined
  <2>2. chain[t].to \in Users /\ chain[t].block \in Nat /\ chain[t].block \in 1 .. height
        /\ height \in 0 .. MaxHeight
    BY <1>0, <2>1 DEF Transactions, TypeOK, Succeeded, Mined
  <2> QED
    BY <2>1, <2>2, BoundsAssumption
<1>3. PICK row : /\ rows' = [rows EXCEPT ![t] = row]
                 /\ rows[t] = None => row = NewDeposit(t)
                 /\ rows[t] # None => row = [rows[t] EXCEPT !.block = chain[t].block]
  BY <1>0 DEF UpsertObservedDeposit, TypeOK
<1>4. /\ row \in Deposit /\ row # None
      /\ row.user = chain[t].to /\ row.block = chain[t].block
      /\ rows[t] = None => row.status = "pending" /\ row.sweep = ""
      /\ rows[t] # None => row = rows[t]
  <2>1. CASE rows[t] = None
    <3>1. row = NewDeposit(t)
      BY <1>3, <2>1
    <3>2. /\ row.user = chain[t].to /\ row.block = chain[t].block
          /\ row.status = "pending" /\ row.sweep = ""
      BY <3>1 DEF NewDeposit
    <3>3. NewDeposit(t) \in Deposit
      BY <1>2 DEF NewDeposit, Deposit
    <3>4. row \in Deposit
      BY <3>1, <3>3
    <3>5. row # None
      BY <3>4, NoneAssumption
    <3> QED
      BY <2>1, <3>2, <3>4, <3>5
  <2>2. CASE rows[t] # None
    <3>1. rows[t] \in Deposit /\ rows[t].block = chain[t].block /\ rows[t].user = chain[t].to
      BY <1>0, <2>2 DEF TypeOK, RowTrue
    <3>2. row = rows[t]
      BY <1>3, <2>2, <3>1 DEF Deposit
    <3> QED
      BY <2>2, <3>1, <3>2
  <2> QED
    BY <2>1, <2>2
<1>5. rows'[t] = row /\ \A o \in Transfers \ {t} : rows'[o] = rows[o]
  BY <1>0, <1>3 DEF TypeOK
<1>6. TypeOK'
  BY <1>0, <1>1, <1>3, <1>4 DEF TypeOK
<1>7. Moved' = Moved /\ (\A x : Succeeded(x)' <=> Succeeded(x))
  BY <1>1 DEF Moved, Succeeded, Mined
<1>8. RowWritten(t, row)
  BY <1>0, <1>1, <1>3, <1>4, <1>6, <1>7 DEF RowWritten, SweptBy, TypeOK
<1>9. RowTrue(t)'
  <2>1. CASE rows[t] = None
    BY <1>0, <1>1, <1>2, <1>4, <1>5, <1>7, <2>1 DEF RowTrue, Succeeded, Mined
  <2>2. CASE rows[t] # None
    BY <1>0, <1>1, <1>4, <1>5, <1>7, <2>2 DEF RowTrue, SweptBy, Succeeded, Mined
  <2> QED
    BY <2>1, <2>2
<1>10. ScanTrue'
  <2>1. runner'.at = "observe" /\ runner'.todo = runner.todo \ {t}
        /\ runner'.block = runner.block
    BY <1>0, <1>1 DEF TypeOK, At
  <2>2. \A o \in Transfers : rows[o] # None => rows'[o] # None
    BY <1>4, <1>5
  <2>3. rows'[t] # None
    BY <1>4, <1>5
  <2>4. /\ runner.at = "observe" /\ runner.todo \subseteq Transfers
        /\ UNCHANGED <<height, chain, cursor>>
    BY <1>0, <1>1 DEF At, TypeOK
  <2>5. \A o \in Transfers :
           Succeeded(chain[o]) /\ chain[o].block \in (cursor + 1) .. runner.block
               => o \in runner'.todo \/ rows'[o] # None
    BY <1>0, <2>1, <2>2, <2>3, <2>4 DEF ScanTrue, At
  <2>6. cursor # None /\ runner.block <= height /\ \A o \in runner'.todo : Succeeded(chain[o])
    BY <1>0, <2>1, <2>4 DEF ScanTrue, At
  <2> QED
    BY <1>7, <2>1, <2>4, <2>5, <2>6 DEF ScanTrue, At
<1>11. ListsTrue'
  BY <1>0, <1>1 DEF ListsTrue, At, TypeOK
<1> QED
  BY <1>8, <1>9, <1>10, <1>11, RowWrittenKeeps

(* Updating a row's sweep leaves its other columns alone. *)
LEMMA SweepStatus ==
    ASSUME NEW r \in Deposit, NEW status \in {"", "submitted", "confirmed", "failed"}
    PROVE  LET new == [r EXCEPT !.sweep = status]
           IN  /\ new \in Deposit /\ new # None
               /\ new.user = r.user /\ new.block = r.block
               /\ new.status = r.status /\ new.sweep = status
<1> DEFINE new == [r EXCEPT !.sweep = status]
<1>1. new \in Deposit
  BY DEF Deposit
<1>2. new.user = r.user /\ new.block = r.block /\ new.status = r.status /\ new.sweep = status
  BY DEF Deposit
<1> QED
  BY <1>1, <1>2, NoneAssumption

(* ConfirmDeposit: the status and the ledger entry together, once the      *)
(* block is deep enough.                                                   *)
LEMMA ConfirmKeeps ==
    ASSUME DepositInv, NEW t \in Transfers, ConfirmDeposit(t)
    PROVE  DepositInv'
<1> USE DEF DepositInv
<1>0. TypeOK /\ RowTrue(t) /\ height \in Nat /\ runner.block \in Nat /\ runner.block <= height
  BY BoundsAssumption DEF NoDepositMissed, TypeOK, ScanTrue
<1>1. /\ At("confirm") /\ t \in runner.todo
      /\ runner' = [runner EXCEPT !.todo = @ \ {t}]
      /\ rows' = [rows EXCEPT ![t].status = "confirmed"]
      /\ UNCHANGED <<provisioned, height, chain, sweeps, cursor, firstCursor, stops>>
  BY DEF ConfirmDeposit, external
<1>2. /\ rows[t] # None /\ ConfirmedEnough(t) /\ rows[t] \in Deposit
      /\ credited' = credited \cup {t}
  BY <1>0, <1>1 DEF ListsTrue, TypeOK, ConfirmDeposit, RowTrue
<1> DEFINE row == [rows[t] EXCEPT !.status = "confirmed"]
<1>3. /\ row \in Deposit /\ row # None /\ row.status = "confirmed"
      /\ row.user = rows[t].user /\ row.block = rows[t].block
      /\ row.sweep = rows[t].sweep /\ row.sweepTx = rows[t].sweepTx
  BY <1>2, NoneAssumption DEF Deposit
<1>4. rows' = [rows EXCEPT ![t] = row]
  BY <1>1
<1> HIDE DEF row
<1>5. rows'[t] = row /\ \A o \in Transfers \ {t} : rows'[o] = rows[o]
  BY <1>0, <1>4 DEF TypeOK
<1>6. TypeOK'
  <2>1. rows' \in [Transfers -> Deposit \cup {None}]
    BY <1>0, <1>3, <1>4 DEF TypeOK
  <2>2. runner' \in [at : Phases, block : Nat, users : SUBSET Users, todo : SUBSET Transfers,
                     sent : [deposit : Transfers, sweep : SweepIds] \cup {None}]
    BY <1>0, <1>1 DEF TypeOK
  <2> QED
    BY <1>0, <1>1, <1>2, <2>1, <2>2 DEF TypeOK
<1>7. Moved' = Moved /\ (\A x : Succeeded(x)' <=> Succeeded(x))
  BY <1>1 DEF Moved, Succeeded, Mined
<1>8. RowWritten(t, row)
  BY <1>0, <1>1, <1>2, <1>3, <1>4, <1>6, <1>7 DEF RowWritten, SweptBy, TypeOK
<1>9. height - chain[t].block + 1 >= Confirmations
  <2>1. rows[t].block \in Nat /\ rows[t].block = chain[t].block
        /\ runner.block - rows[t].block + 1 >= Confirmations
    <3>1. rows[t].block \in 1 .. MaxHeight
      BY <1>2 DEF Deposit
    <3> QED
      BY <1>0, <1>2, <3>1, BoundsAssumption DEF RowTrue, ConfirmedEnough
  <2> QED
    BY <1>0, <2>1, ConfigAssumption
<1>10. RowTrue(t)'
  BY <1>0, <1>1, <1>2, <1>3, <1>5, <1>7, <1>9 DEF RowTrue, SweptBy, Succeeded, Mined
<1>11. runner'.at = "confirm" /\ runner'.todo = runner.todo \ {t}
       /\ runner'.block = runner.block
  BY <1>0, <1>1 DEF TypeOK, At
<1>12. ScanTrue' /\ ListsTrue'
  BY <1>0, <1>1, <1>5, <1>11 DEF ScanTrue, ListsTrue, At, TypeOK, ConfirmedEnough
<1> QED
  BY <1>8, <1>10, <1>12, RowWrittenKeeps

(* A sweep that is sent for a deposit takes everything that is on the      *)
(* address, the deposit included unless an earlier sweep has moved it.     *)
LEMMA SentSweeps ==
    ASSUME DepositInv, NEW t \in Transfers, rows[t] # None, CanSend(rows[t].user),
           NEW n, n = Len(sweeps) + 1, UNCHANGED <<height, chain>>, sweeps' = Sent(rows[t].user)
    PROVE  /\ sweeps' \in Seq(SweepTransactions) /\ Len(sweeps') = Len(sweeps) + 1
           /\ Len(sweeps') <= MaxSweeps
           /\ Moved \subseteq Moved'
           /\ \A o \in Transfers : \A s : SweptBy(o, s) => SweptBy(o, s)'
           /\ SweptBy(t, n)' /\ n \in SweepIds
<1> USE DEF DepositInv
<1>0. /\ sweeps \in Seq(SweepTransactions) /\ Len(sweeps) <= MaxSweeps
      /\ rows[t].user \in Users /\ rows[t].user = chain[t].to /\ Succeeded(chain[t])
  BY DEF NoDepositMissed, TypeOK, Deposit, RowTrue
<1>1. PICK u \in Users : u = rows[t].user
  BY <1>0
<1> DEFINE new == [user |-> u, moves |-> Funds(u), block |-> 0, ok |-> FALSE]
<1>2. new \in SweepTransactions /\ new.moves = Funds(u)
  <2>1. Funds(u) \in SUBSET Transfers
    BY DEF Funds
  <2>2. 0 \in 0 .. MaxHeight + 1
    BY BoundsAssumption
  <2> HIDE DEF new
  <2>3. new = [user |-> u, moves |-> Funds(u), block |-> 0, ok |-> FALSE]
    BY DEF new
  <2> QED
    BY <2>1, <2>2, <2>3 DEF SweepTransactions
<1>3. sweeps' = Append(sweeps, new) /\ Len(sweeps) < MaxSweeps
  BY <1>1 DEF Sent, CanSend
<1> HIDE DEF new
<1>4. /\ sweeps' \in Seq(SweepTransactions) /\ Len(sweeps') = Len(sweeps) + 1
      /\ Len(sweeps) \in Nat /\ sweeps'[Len(sweeps) + 1] = new
      /\ \A s \in DOMAIN sweeps : s \in DOMAIN sweeps' /\ sweeps'[s] = sweeps[s]
      /\ Len(sweeps) + 1 \in DOMAIN sweeps'
  BY <1>0, <1>2, <1>3
<1>5. Len(sweeps') <= MaxSweeps /\ n \in SweepIds
  BY <1>3, <1>4, BoundsAssumption DEF SweepIds
<1>6. /\ Moved \subseteq Moved'
      /\ \A o \in Transfers : \A s : SweptBy(o, s) => SweptBy(o, s)'
  BY <1>4, MovedGrows DEF Succeeded, Mined
<1>7. t \in Funds(u) \/ t \in Moved
  BY <1>0, <1>1 DEF Funds
<1>8. SweptBy(t, n)'
  <2>1. t \in sweeps'[Len(sweeps) + 1].moves \/ t \in Moved'
    BY <1>2, <1>4, <1>6, <1>7
  <2> QED
    BY <1>4, <2>1 DEF SweptBy
<1> QED
  BY <1>4, <1>5, <1>6, <1>8

LEMMA SubmitSweepKeeps ==
    ASSUME DepositInv, NEW t \in Transfers, SubmitSweep(t)
    PROVE  DepositInv'
<1> USE DEF DepositInv
<1>0. TypeOK
  BY DEF NoDepositMissed
<1>1. /\ At("sweep") /\ t \in runner.todo /\ CanSend(rows[t].user)
      /\ sweeps' = Sent(rows[t].user)
      /\ runner' = [runner EXCEPT !.at = "sweepSent", !.todo = @ \ {t},
                       !.sent = [deposit |-> t, sweep |-> Len(sweeps) + 1]]
      /\ UNCHANGED <<provisioned, height, chain, cursor, firstCursor, rows, credited, stops>>
  BY DEF SubmitSweep, external
<1>2. rows[t] # None
  BY <1>1 DEF ListsTrue, At
<1>3. PICK n : n = Len(sweeps) + 1
  OBVIOUS
<1>4. /\ sweeps' \in Seq(SweepTransactions) /\ Len(sweeps') <= MaxSweeps
      /\ Moved \subseteq Moved'
      /\ \A o \in Transfers : \A s : SweptBy(o, s) => SweptBy(o, s)'
      /\ SweptBy(t, n)' /\ n \in SweepIds
  BY <1>1, <1>2, <1>3, SentSweeps
<1>5. /\ runner'.at = "sweepSent" /\ runner'.todo = runner.todo \ {t}
      /\ runner'.sent = [deposit |-> t, sweep |-> n] /\ runner'.block = runner.block
      /\ runner' \in [at : Phases, block : Nat, users : SUBSET Users,
                      todo : SUBSET Transfers,
                      sent : [deposit : Transfers, sweep : SweepIds] \cup {None}]
  BY <1>0, <1>1, <1>3, <1>4 DEF TypeOK, Phases
<1>6. TypeOK'
  BY <1>0, <1>1, <1>4, <1>5 DEF TypeOK
<1>7. \A x : Succeeded(x)' <=> Succeeded(x)
  BY <1>1 DEF Succeeded, Mined
<1>8. NoDepositMissed' /\ ChainKnown' /\ CursorKnown'
  BY <1>1, <1>6, <1>7 DEF NoDepositMissed, ChainKnown, CursorKnown, Succeeded, Mined
<1>9. \A o \in Transfers : RowTrue(o)'
  BY <1>1, <1>4, <1>7 DEF RowTrue, Succeeded, Mined
<1>10. ScanTrue'
  BY <1>1, <1>5 DEF ScanTrue, At
<1>11. ListsTrue'
  <2>1. SweptBy(runner.sent.deposit, runner.sent.sweep)'
    BY <1>4, <1>5 DEF SweptBy
  <2>2. runner'.sent.deposit = t /\ runner'.sent \in [deposit : Transfers, sweep : SweepIds]
    BY <1>4, <1>5
  <2> QED
    BY <1>1, <1>2, <1>5, <2>1, <2>2 DEF ListsTrue, At
<1> QED
  BY <1>8, <1>9, <1>10, <1>11

LEMMA SubmitSweepFailsKeeps ==
    ASSUME DepositInv, NEW t \in Transfers, SubmitSweepFails(t)
    PROVE  DepositInv'
<1> USE DEF DepositInv
<1>0. TypeOK /\ RowTrue(t)
  BY DEF NoDepositMissed
<1>1. /\ At("sweep") /\ t \in runner.todo
      /\ runner' = [runner EXCEPT !.todo = @ \ {t}]
      /\ UNCHANGED <<provisioned, height, chain, cursor, firstCursor, credited, stops>>
  BY DEF SubmitSweepFails, external
<1>2. rows[t] # None /\ rows[t] \in Deposit
  BY <1>0, <1>1 DEF ListsTrue, At, TypeOK
<1>3. /\ sweeps' \in Seq(SweepTransactions) /\ Len(sweeps') <= MaxSweeps
      /\ Moved \subseteq Moved'
      /\ \A o \in Transfers : \A s : SweptBy(o, s) => SweptBy(o, s)'
  <2>1. CASE UNCHANGED sweeps
    BY <1>0, <1>1, <2>1 DEF TypeOK, SweptBy, Moved, Succeeded, Mined
  <2>2. CASE CanSend(rows[t].user) /\ sweeps' = Sent(rows[t].user)
    BY <1>1, <1>2, <2>2, SentSweeps
  <2> QED
    BY <2>1, <2>2 DEF SubmitSweepFails
<1>4. PICK row : /\ rows' = [rows EXCEPT ![t] = row]
                 /\ row = rows[t] \/ row = [rows[t] EXCEPT !.sweep = "failed"]
  <2>1. CASE rows' = [rows EXCEPT ![t].sweep = "failed"]
    BY <2>1
  <2>2. CASE UNCHANGED rows
    <3>1. rows' = [rows EXCEPT ![t] = rows[t]]
      BY <1>0, <2>2 DEF TypeOK
    <3> QED
      BY <3>1
  <2> QED
    BY <2>1, <2>2 DEF SubmitSweepFails
<1>5. /\ row \in Deposit /\ row # None /\ row.status = rows[t].status
      /\ row.user = rows[t].user /\ row.block = rows[t].block
      /\ row = rows[t] \/ row.sweep = "failed"
  <2>1. CASE row = rows[t]
    BY <1>2, <2>1
  <2>2. CASE row = [rows[t] EXCEPT !.sweep = "failed"]
    BY <1>2, <2>2, SweepStatus
  <2> QED
    BY <1>4, <2>1, <2>2
<1>6. rows'[t] = row /\ \A o \in Transfers \ {t} : rows'[o] = rows[o]
  BY <1>0, <1>4 DEF TypeOK
<1>7. TypeOK'
  BY <1>0, <1>1, <1>3, <1>4, <1>5 DEF TypeOK
<1>8. RowWritten(t, row)
  BY <1>0, <1>1, <1>3, <1>4, <1>5, <1>7 DEF RowWritten, TypeOK
<1>9. RowTrue(t)'
  BY <1>0, <1>1, <1>2, <1>3, <1>5, <1>6 DEF RowTrue, Succeeded, Mined
<1>10. runner'.at = "sweep" /\ runner'.todo = runner.todo \ {t}
       /\ runner'.block = runner.block
  BY <1>0, <1>1 DEF TypeOK, At
<1>11. ScanTrue' /\ ListsTrue'
  BY <1>0, <1>1, <1>6, <1>10 DEF ScanTrue, ListsTrue, At, TypeOK
<1> QED
  BY <1>8, <1>9, <1>11, RowWrittenKeeps

LEMMA SweepSubmittedKeeps ==
    ASSUME DepositInv, MarkDepositSweepSubmitted PROVE DepositInv'
<1> USE DEF DepositInv
<1>0. TypeOK
  BY DEF NoDepositMissed
<1>1. PICK t \in Transfers, s \in SweepIds :
          /\ t = runner.sent.deposit /\ s = runner.sent.sweep
          /\ rows[t] # None /\ SweptBy(t, s)
  BY DEF MarkDepositSweepSubmitted, ListsTrue
<1>2. /\ At("sweepSent")
      /\ runner' = [runner EXCEPT !.at = "sweep", !.sent = None]
      /\ rows' = [rows EXCEPT ![t].sweep = "submitted", ![t].sweepTx = s]
      /\ UNCHANGED <<provisioned, height, chain, sweeps, cursor, firstCursor, credited, stops>>
  BY <1>1 DEF MarkDepositSweepSubmitted, external
<1> DEFINE row == [rows[t] EXCEPT !.sweep = "submitted", !.sweepTx = s]
<1>3. rows[t] \in Deposit /\ RowTrue(t)
  BY <1>0, <1>1 DEF TypeOK
<1>4. /\ row \in Deposit /\ row # None /\ row.sweep = "submitted" /\ row.sweepTx = s
      /\ row.user = rows[t].user /\ row.block = rows[t].block
      /\ row.status = rows[t].status
  BY <1>3, NoneAssumption DEF Deposit
<1>5. rows' = [rows EXCEPT ![t] = row]
  BY <1>2
<1> HIDE DEF row
<1>6. rows'[t] = row /\ \A o \in Transfers \ {t} : rows'[o] = rows[o]
  BY <1>0, <1>5 DEF TypeOK
<1>7. TypeOK'
  <2>1. runner' \in [at : Phases, block : Nat, users : SUBSET Users,
                      todo : SUBSET Transfers,
                      sent : [deposit : Transfers, sweep : SweepIds] \cup {None}]
    BY <1>0, <1>2 DEF TypeOK, Phases
  <2>2. rows' \in [Transfers -> Deposit \cup {None}]
    BY <1>0, <1>4, <1>5 DEF TypeOK
  <2> QED
    BY <1>0, <1>2, <2>1, <2>2 DEF TypeOK
<1>8. Moved' = Moved /\ (\A o, x : SweptBy(o, x)' <=> SweptBy(o, x))
  BY <1>2 DEF Moved, SweptBy, Succeeded, Mined
<1>9. RowWritten(t, row)
  BY <1>0, <1>2, <1>4, <1>5, <1>7, <1>8 DEF RowWritten, TypeOK
<1>10. RowTrue(t)'
  BY <1>1, <1>2, <1>3, <1>4, <1>6, <1>8 DEF RowTrue, Succeeded, Mined
<1>11. runner'.at = "sweep" /\ runner'.todo = runner.todo /\ runner'.block = runner.block
       /\ runner.todo \subseteq Transfers
  BY <1>0, <1>2 DEF TypeOK
<1>12. ScanTrue' /\ ListsTrue'
  BY <1>2, <1>4, <1>6, <1>11 DEF ScanTrue, ListsTrue, At
<1> QED
  BY <1>9, <1>10, <1>12, RowWrittenKeeps

(* confirmSweepReceipts: a receipt that says "ok" belongs to a transaction *)
(* that has moved the deposit, or came after one that had.                 *)
LEMMA SweepReceiptKeeps ==
    ASSUME DepositInv, NEW t \in Transfers, ConfirmSweepReceipt(t)
    PROVE  DepositInv'
<1> USE DEF DepositInv
<1>0. TypeOK /\ RowTrue(t)
  BY DEF NoDepositMissed
<1>1. /\ At("receipts") /\ t \in runner.todo
      /\ runner' = [runner EXCEPT !.todo = @ \ {t}]
      /\ UNCHANGED <<provisioned, height, chain, sweeps, cursor, firstCursor, credited, stops>>
  BY DEF ConfirmSweepReceipt, external
<1>2. /\ rows[t] # None /\ rows[t] \in Deposit /\ rows[t].sweep = "submitted"
      /\ SweptBy(t, rows[t].sweepTx)
  BY <1>0, <1>1 DEF ListsTrue, At, TypeOK, RowTrue
<1>3. PICK x : x = sweeps[rows[t].sweepTx]
  OBVIOUS
<1>4. PICK row : /\ rows' = [rows EXCEPT ![t] = row]
                 /\ \/ row = rows[t]
                    \/ row = [rows[t] EXCEPT !.sweep = ReceiptResult(x)] /\ Mined(x)
  <2>1. CASE Mined(x)
    BY <1>3, <2>1 DEF ConfirmSweepReceipt
  <2>2. CASE ~Mined(x)
    <3>1. rows' = [rows EXCEPT ![t] = rows[t]]
      BY <1>0, <1>3, <2>2 DEF ConfirmSweepReceipt, TypeOK
    <3> QED
      BY <3>1
  <2> QED
    BY <2>1, <2>2
<1>5. /\ row \in Deposit /\ row # None /\ row.status = rows[t].status
      /\ row.user = rows[t].user /\ row.block = rows[t].block
      /\ row = rows[t] \/ (row.sweep = ReceiptResult(x) /\ Mined(x))
  <2>1. ReceiptResult(x) \in {"confirmed", "failed"}
    BY DEF ReceiptResult
  <2>2. CASE row = rows[t]
    BY <1>2, <2>2
  <2>3. CASE row = [rows[t] EXCEPT !.sweep = ReceiptResult(x)] /\ Mined(x)
    <3> HIDE DEF ReceiptResult
    <3>1. ReceiptResult(x) \in {"", "submitted", "confirmed", "failed"}
      BY <2>1
    <3>2. LET new == [rows[t] EXCEPT !.sweep = ReceiptResult(x)]
          IN  /\ new \in Deposit /\ new # None
              /\ new.user = rows[t].user /\ new.block = rows[t].block
              /\ new.status = rows[t].status /\ new.sweep = ReceiptResult(x)
      BY <1>2, <3>1, SweepStatus
    <3> QED
      BY <2>3, <3>2
  <2> QED
    BY <1>4, <2>2, <2>3
<1>6. rows'[t] = row /\ \A o \in Transfers \ {t} : rows'[o] = rows[o]
  BY <1>0, <1>4 DEF TypeOK
<1>7. TypeOK'
  BY <1>0, <1>1, <1>4, <1>5 DEF TypeOK
<1>8. Moved' = Moved /\ (\A o, s : SweptBy(o, s)' <=> SweptBy(o, s))
  BY <1>1 DEF Moved, SweptBy, Succeeded, Mined
<1>9. RowWritten(t, row)
  BY <1>0, <1>1, <1>4, <1>5, <1>7, <1>8 DEF RowWritten, TypeOK
<1>10. ASSUME Mined(x), x.ok PROVE t \in Moved
  BY <1>2, <1>3, <1>10 DEF SweptBy, Moved, Succeeded
<1>11. RowTrue(t)'
  <2>1. CASE row = rows[t]
    BY <1>0, <1>1, <1>6, <1>8, <2>1 DEF RowTrue, Succeeded, Mined
  <2>2. CASE row.sweep = ReceiptResult(x) /\ Mined(x)
    <3>1. row.sweep # "submitted" /\ (row.sweep = "confirmed" => t \in Moved)
      BY <1>10, <2>2 DEF ReceiptResult
    <3> QED
      BY <1>0, <1>1, <1>2, <1>5, <1>6, <1>8, <3>1 DEF RowTrue, Succeeded, Mined
  <2> QED
    BY <1>5, <2>1, <2>2
<1>12. runner'.at = "receipts" /\ runner'.todo = runner.todo \ {t}
       /\ runner'.block = runner.block /\ runner.todo \subseteq Transfers
  BY <1>0, <1>1 DEF TypeOK, At
<1>13. ScanTrue' /\ ListsTrue'
  BY <1>0, <1>1, <1>6, <1>12 DEF ScanTrue, ListsTrue, At
<1> QED
  BY <1>9, <1>11, <1>13, RowWrittenKeeps

(* Every step keeps the invariant. *)
LEMMA DepositStep == DepositInv /\ [Next]_vars => DepositInv'
<1> SUFFICES ASSUME DepositInv, [Next]_vars PROVE DepositInv'
    OBVIOUS
<1>1. CASE RunnerStep
  BY <1>1, ReadingKeeps, CursorSavedKeeps, UpsertKeeps, ConfirmKeeps, SubmitSweepKeeps,
     SubmitSweepFailsKeeps, SweepSubmittedKeeps, SweepReceiptKeeps DEF RunnerStep
<1>2. CASE RunnerStops
  BY <1>2, ReadingKeeps
<1>3. CASE \/ NewBlock
           \/ \E u \in Users : ProvisionUser(u)
           \/ \E t \in Transfers, u \in Users : IncludeTransfer(t, u)
           \/ \E s \in DOMAIN sweeps : IncludeSweep(s)
           \/ UNCHANGED vars
  BY <1>3, WorldStep
<1> QED
  BY <1>1, <1>2, <1>3 DEF Next

(* The invariant holds of every behaviour. *)
THEOREM DepositInvHolds == Spec => []DepositInv
<1> QED
  BY DepositInit, DepositStep, PTL DEF Spec

(* scanDepositsAndSubmit misses no deposit: the cursor never passes one,   *)
(* because the addresses are listed after the block number is read and the *)
(* cursor is saved after every deposit is in the table.                    *)
THEOREM NoDepositMissedHolds == Spec => []NoDepositMissed
<1>1. DepositInv => NoDepositMissed
  BY DEF DepositInv
<1> QED
  BY <1>1, DepositInvHolds, PTL

(* ConfirmDeposit credits only money that has arrived, with its            *)
(* confirmations, to the user whose address it went to, and the ledger     *)
(* entry and the status go together.                                       *)
THEOREM CreditedMoneyArrivedHolds == Spec => []CreditedMoneyArrived
<1>1. DepositInv => CreditedMoneyArrived
  <2> SUFFICES ASSUME DepositInv PROVE CreditedMoneyArrived
    OBVIOUS
  <2>1. credited \subseteq Transfers
    BY DEF DepositInv, NoDepositMissed, TypeOK
  <2>2. credited = DepositsWith("confirmed")
    BY <2>1 DEF DepositInv, RowTrue, DepositsWith
  <2> QED
    BY <2>1, <2>2 DEF DepositInv, RowTrue, CreditedMoneyArrived
<1> QED
  BY <1>1, DepositInvHolds, PTL

(* A deposit that confirmSweepReceipts counts as swept has left its        *)
(* address, however many sweeps were sent, lost or failed.                 *)
THEOREM SweptMoneyMovedHolds == Spec => []SweptMoneyMoved
<1>1. DepositInv => SweptMoneyMoved
  BY DEF DepositInv, RowTrue, SweptMoneyMoved
<1> QED
  BY <1>1, DepositInvHolds, PTL
=============================================================================
