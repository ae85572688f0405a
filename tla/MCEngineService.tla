--------------------------- MODULE MCEngineService --------------------------
(***************************************************************************)
(* Small instances of EngineService, and of the Evaluator the engine calls *)
(* at a showdown, for TLC.  EngineService counts cards where the Evaluator *)
(* names them and they share no state: the run explores each while the     *)
(* other is at its beginning.                                              *)
(***************************************************************************)
EXTENDS EngineService, Evaluator, MCDeals, TLC

CONSTANTS r1, r2, p1, p2, p3

(* Requests differ only in their names, and so do players. *)
TwoRequests == {r1, r2}

ThreePlayers == {p1, p2, p3}

EngineSymmetry == Permutations(TwoRequests) \cup Permutations(ThreePlayers)

(* With blinds of 1 and 2: a stack of 2 is all-in with the big blind, one  *)
(* of 6 can pay two raises.                                                *)
Stacks == {2, 6}

EngineInit == ServiceInit /\ ShowdownInit

EngineNext ==
    \/ board = NotYet /\ ServiceNext /\ UNCHANGED showdownVars
    \/ ServiceInit /\ ShowdownNext /\ UNCHANGED serviceVars

EngineSpec == EngineInit /\ [][EngineNext]_<<serviceVars, showdownVars>>
=============================================================================
