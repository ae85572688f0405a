------------------------------- MODULE Chips -------------------------------
(***************************************************************************)
(* Arithmetic on chips: the loops of the engine that add up the stacks,    *)
(* the bets and the pots.  Sum is a recursive function rather than a fold  *)
(* of the community modules, so that TLAPS can reason about it: what it    *)
(* returns is established in ChipsProofs.                                  *)
(***************************************************************************)
EXTENDS Integers

(* f[lo] + f[lo + 1] + ... + f[hi]; zero when hi < lo. *)
Sum(f, lo, hi) ==
    LET s[i \in (lo - 1) .. hi] == IF i < lo THEN 0 ELSE s[i - 1] + f[i]
    IN  IF hi < lo THEN 0 ELSE s[hi]

(* The smaller of two amounts. *)
Lesser(a, b) == IF a <= b THEN a ELSE b
=============================================================================
