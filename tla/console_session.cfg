SPECIFICATION FairSpec
CONSTANTS
    k1 = k1
    k2 = k2
    bad = bad
    t1 = t1
    t2 = t2
    None = None
    Keys <- MCKeys
    Bogus <- MCBogus
    Tokens <- MCTokens
    Exp <- MCExp
    MaxDelay = 1
    MaxTime = 2
    MaxUpsets = 2
INVARIANTS
    KeptKeyWasAccepted
PROPERTIES
    SessionEndsForAReason
    NothingLoadsSignedOut
    ExpiryEndsSession
    OwnRevocationSignsOut
    TabSettles
CHECK_DEADLOCK FALSE
