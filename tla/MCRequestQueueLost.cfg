SPECIFICATION FairSpec
CONSTANTS
    c1 = c1
    c2 = c2
    c3 = c3
    k1 = k1
    k2 = k2
    NoKey = NoKey
    Nobody = Nobody
    Callers <- MCCallers
    Keys <- MCKeys
INVARIANTS
    ActiveHasRequest
