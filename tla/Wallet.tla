------------------------------- MODULE Wallet -------------------------------
(***************************************************************************)
(* The wallet-service's tables that its users reach: the ledger, and the   *)
(* addresses linked to withdraw to.  They have no table in common.         *)
(***************************************************************************)
EXTENDS Ledger

CONSTANTS
    Addresses,   \* the addresses
    Owns,        \* external: who can sign for which address
    Challenges,  \* the challenges, by ID
    Calls        \* the calls of ConfirmLink that can run at once

LinkChallenges == [user : Users, address : Addresses, consumed : BOOLEAN]

ASSUME ChallengesAssumption == Nobody \notin LinkChallenges \cup Challenges

VARIABLES challenge, expired, links, call

Links == INSTANCE LinkedAddresses WITH None <- Nobody

(* Every link is backed by the user's own signature on a challenge of its  *)
(* own: LinksAreProven of LinkedAddresses, about ConfirmLink.              *)
LinksAreProven == Links!LinksAreProven
=============================================================================
