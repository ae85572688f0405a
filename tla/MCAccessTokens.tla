--------------------------- MODULE MCAccessTokens ---------------------------
(* Two calls at once and two keys: the second key comes with a key ID of   *)
(* its own or keeps the first one's.                                       *)
EXTENDS AccessTokens, TLC

CONSTANTS c1, c2

TwoCalls == {c1, c2}
OwnOrSameID == {<<"a", "b">>, <<"a", "a">>}
Symmetric == Permutations(TwoCalls)
=============================================================================
