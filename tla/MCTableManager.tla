--------------------------- MODULE MCTableManager ---------------------------
(* Tables of two and of three seats. *)
EXTENDS TableManager, TLC

CONSTANTS p1, p2, p3, r1, r2

TwoPlayers == {p1, p2}
ThreePlayers == {p1, p2, p3}
OneRequest == {r1}
TwoRequests == {r1, r2}
OneBuyIn == {2}

SymmetricThree == Permutations(ThreePlayers) \cup Permutations(TwoRequests)
=============================================================================
