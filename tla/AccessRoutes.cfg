\* Two operators, a cache that holds one of them, three requests.
SPECIFICATION Spec
CONSTANTS
    o1 = o1
    o2 = o2
    r1 = r1
    r2 = r2
    r3 = r3
    n1 = n1
    n2 = n2
    n3 = n3
    Owner = Owner
    Operator = {o1, o2}
    Request <- MCRequest
    Nonce <- MCNonce
    Ask <- MCAsk
    Saved <- MCSaved
    Stores = {"memory", "redis"}
    ExecutionPath = TRUE
    ChallengeTtl = 1
    CacheTtl = 1
    MaxEntries = 1
    ReadDelay = 0
    MaxTime = 2
    MaxFaults = 1
INVARIANTS
    TypeOK
    CacheFollowsTable
PROPERTIES
    RefinesLedger
    DecisionIsRecent
SYMMETRY Symmetry
CHECK_DEADLOCK FALSE
