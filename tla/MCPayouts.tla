----------------------------- MODULE MCPayouts -----------------------------
(* Two withdrawals of one user that together exceed the balance, or that   *)
(* just use it up, and a faucet transfer.                                  *)
EXTENDS Payouts

CONSTANTS u1, a1, w1, w2, f1

OneUser == {u1}
OneAddress == {a1}
TwoWithdrawals == {w1, w2}
OneFaucet == {f1}
SomeAmounts == {1, 2}
=============================================================================
