CONSTANTS
    u1 = u1
    u2 = u2
    k1 = k1
    k2 = k2
    t1 = t1
    t2 = t2
    t3 = t3
    a1 = a1
    a2 = a2
    c1 = c1
    c2 = c2
    c3 = c3
    q1 = q1
    q2 = q2
    Users <- TwoUsers
    Keys <- TwoKeys
    Txs <- ThreeTxs
    Amounts <- SomeAmounts
    Addresses <- TwoAddresses
    Owns <- SharedAddress
    Challenges <- ThreeChallenges
    Calls <- TwoCalls
    Nobody = Nobody
    NoEntry = NoEntry
SPECIFICATION WalletSpec
INVARIANTS
    BalanceIsSumOfEntries
    OkIsDurable
    NoDeadlock
    LinksAreProven
PROPERTY ImplementsAtomicLedger
SYMMETRY Symmetric
