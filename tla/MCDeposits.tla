----------------------------- MODULE MCDeposits -----------------------------
(* Two transfers, to one deposit address or to two. *)
EXTENDS Deposits

CONSTANTS u1, u2, t1, t2

TwoUsers == {u1, u2}
TwoTransfers == {t1, t2}
=============================================================================
