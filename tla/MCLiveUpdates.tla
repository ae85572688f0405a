--------------------------- MODULE MCLiveUpdates ----------------------------
(* Two clients: a stream and a socket that both read what they are sent, a *)
(* stream that may stop reading beside a socket, and two sockets of which  *)
(* one may.                                                                *)
EXTENDS LiveUpdates

CONSTANTS a, b

TwoClients == {a, b}
ThreeSettings == {[streams |-> {a}, slow |-> {}],
                  [streams |-> {a}, slow |-> {a}],
                  [streams |-> {}, slow |-> {b}]}
=============================================================================
