------------------------------ MODULE MCWallet ------------------------------
(* The wallet's ledger with two users, two keys and three connections, a   *)
(* debit, and a credit that is not a multiple of it; and the links to      *)
(* addresses, with two users who share one of two.  The ledger and the     *)
(* links have no table in common, so a step of one changes nothing for the *)
(* other: the run explores each while the other is at its beginning.       *)
EXTENDS Wallet, TLC

CONSTANTS u1, u2, k1, k2, t1, t2, t3, a1, a2, c1, c2, c3, q1, q2

TwoUsers  == {u1, u2}
TwoKeys   == {k1, k2}
ThreeTxs  == {t1, t2, t3}
SomeAmounts == {-2, 3}
TwoAddresses    == {a1, a2}
SharedAddress   == {<<u1, a1>>, <<u2, a1>>, <<u2, a2>>}
ThreeChallenges == {c1, c2, c3}
TwoCalls        == {q1, q2}

WalletInit == Init /\ Links!Init

WalletNext ==
    \/ /\ \A c \in DOMAIN challenge : challenge[c] = Nobody
       /\ Next
       /\ UNCHANGED <<challenge, expired, links, call>>
    \/ Init /\ Links!Next /\ UNCHANGED vars

WalletSpec == WalletInit /\ [][WalletNext]_<<vars, challenge, expired, links, call>>

Symmetric ==
    Permutations(TwoKeys) \cup Permutations(ThreeTxs)
        \cup Permutations(ThreeChallenges) \cup Permutations(TwoCalls)
=============================================================================
