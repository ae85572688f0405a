----------------------------- MODULE MCIngestor -----------------------------
(* Bounds for TLC are in the configuration. *)
EXTENDS Ingestor
=============================================================================
