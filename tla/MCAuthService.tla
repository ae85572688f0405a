--------------------------- MODULE MCAuthService ---------------------------
(* One user and two requests at a time.  A token is good for the tick in   *)
(* which it is issued: it may expire between any two steps.  Nothing in    *)
(* the code relates two users but the order of their messages, which the   *)
(* message that is written twice stands for.                               *)
EXTENDS AuthService

CONSTANTS e1, r1, r2

OneEmail == {e1}
TwoRequests == {r1, r2}
=============================================================================
