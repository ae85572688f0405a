-------------------------- MODULE LinkedAddresses --------------------------
(***************************************************************************)
(* Linking an address to withdraw to: the wallet hands out a challenge,    *)
(* the owner of the address signs it, and ConfirmLink looks the challenge  *)
(* up, checks it and then, in a transaction, consumes it and inserts the   *)
(* link.  Confirmations of one challenge may run beside each other.        *)
(* Signatures are a relation: who can sign for which address.              *)
(***************************************************************************)
CONSTANTS
    Users,       \* the users
    Addresses,   \* the addresses
    Owns,        \* external: who can sign for which address, a set of pairs
    Challenges,  \* the challenges, by ID
    Calls,       \* the calls of ConfirmLink that can run at once
    None         \* "no such challenge", "no call"

VARIABLES
    challenge,  \* wallet_link_challenges
    expired,    \* the challenges whose expires_at has passed
    links,      \* wallet_linked_addresses, with the challenge they come from
    call        \* the challenges the calls of ConfirmLink have checked

vars == <<challenge, expired, links, call>>

Init ==
    /\ challenge = [c \in Challenges |-> None]
    /\ expired = {}
    /\ links = {}
    /\ call = [k \in Calls |-> None]

CreateLinkChallenge(c, u, a) ==
    /\ challenge[c] = None
    /\ challenge' = [challenge EXCEPT ![c] = [user |-> u, address |-> a, consumed |-> FALSE]]
    /\ UNCHANGED <<expired, links, call>>

Expire(c) ==
    /\ challenge[c] # None
    /\ expired' = expired \cup {c}
    /\ UNCHANGED <<challenge, links, call>>

(* FindLinkChallenge, the expiry and the signature.  The signature is over *)
(* the challenge's text, which names its user and address.                 *)
CheckChallenge(k, c, u, a) ==
    /\ call[k] = None
    /\ challenge[c] = [user |-> u, address |-> a, consumed |-> FALSE]
    /\ c \notin expired
    /\ <<u, a>> \in Owns
    /\ call' = [call EXCEPT ![k] = c]
    /\ UNCHANGED <<challenge, expired, links>>

(* The row that a call inserts.  The call stands for the new row's ID.     *)
Link(k) ==
    [id |-> k, user |-> challenge[call[k]].user, address |-> challenge[call[k]].address,
     by |-> call[k]]

IsLinked(c) ==
    \E l \in links : l.user = challenge[c].user /\ l.address = challenge[c].address

ConfirmLinkChallengeMutant(k) ==  \* consumed although the insert fails
    /\ call[k] # None
    /\ challenge' = [challenge EXCEPT ![call[k]].consumed = TRUE]
    /\ links' = IF IsLinked(call[k]) THEN links ELSE links \cup {Link(k)}
    /\ call' = [call EXCEPT ![k] = None]
    /\ UNCHANGED expired

(* ConfirmLinkChallenge.  The challenge of an address that is linked       *)
(* already is not consumed: the insert fails and all is rolled back.       *)
ConfirmLinkChallenge(k) ==
    /\ call[k] # None
    /\ IF challenge[call[k]].consumed \/ IsLinked(call[k])
       THEN UNCHANGED <<challenge, links>>
       ELSE /\ challenge' = [challenge EXCEPT ![call[k]].consumed = TRUE]
            /\ links' = links \cup {Link(k)}
    /\ call' = [call EXCEPT ![k] = None]
    /\ UNCHANGED expired

Next ==
    \/ \E c \in Challenges :
          \/ Expire(c)
          \/ \E u \in Users, a \in Addresses :
                \/ CreateLinkChallenge(c, u, a)
                \/ \E k \in Calls : CheckChallenge(k, c, u, a)
    \/ \E k \in Calls : ConfirmLinkChallenge(k)

Spec == Init /\ [][Next]_vars
-----------------------------------------------------------------------------
(* Properties. *)

(* Every link is backed by the user's own signature on a challenge of its  *)
(* own, a challenge makes one link at most and is consumed only for one,   *)
(* and a user has an address linked once, however many confirmations run   *)
(* beside each other.                                                      *)
LinksAreProven ==
    /\ \A l \in links :
          /\ <<l.user, l.address>> \in Owns
          /\ challenge[l.by] = [user |-> l.user, address |-> l.address, consumed |-> TRUE]
    /\ \A l, m \in links :
          l.by = m.by \/ (l.user = m.user /\ l.address = m.address) => l = m
    /\ \A c \in Challenges :
          challenge[c] # None /\ challenge[c].consumed => \E l \in links : l.by = c
=============================================================================
