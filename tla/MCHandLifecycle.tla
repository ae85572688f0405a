--------------------------- MODULE MCHandLifecycle --------------------------
(***************************************************************************)
(* Small instances of HandLifecycle for TLC: the values the .cfg files     *)
(* give to its constants.                                                  *)
(***************************************************************************)
EXTENDS HandLifecycle

(* Small blind 1, bets of 2 and 4, cap of two raises.  1 and 2 are exactly *)
(* the blinds: a player who posts one has no chips left and is not all-in. *)
(* 7 is one chip more than the capped bet before the flop and may run out  *)
(* on any street.  A hand costs at most 6 + 4 + 8 + 8 chips, so 30 cannot  *)
(* be lost in one: such players bet on to the river.                       *)
Stacks == {1, 2, 7, 30}
=============================================================================
