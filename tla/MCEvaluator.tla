---------------------------- MODULE MCEvaluator ----------------------------
(* The showdowns of three players. *)
EXTENDS Evaluator, MCDeals, TLC

CONSTANTS p1, p2, p3

ThreePlayers == {p1, p2, p3}

(* A player's name decides nothing. *)
PlayerSymmetry == Permutations(ThreePlayers)
=============================================================================
