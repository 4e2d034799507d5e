\* A snapshot job of two pools, a viewer and an evaluation of two positions of one pool.
SPECIFICATION Spec
CONSTANTS
    s1 = s1
    s2 = s2
    s3 = s3
    p1 = p1
    p2 = p2
    Position = {s1, s2, s3}
    Pool = {p1, p2}
    PoolOf <- MCPoolOf
    Saver = {save}
    Viewer = {viewer}
    Evaluator = {eval}
    SnapshotTtl = 1
    StrategyTtl = 1
    MaxTime = 2
    Owned = {s1, s2}
    PolicyChoice <- MCPolicyChoice
    Range <- MCRange
    PoolFacts <- MCPoolFacts
    TickAt <- MCTickAt
    PoolPrice <- MCPoolPrice
    InversePrice <- MCInversePrice
    TokenOrder <- MCTokenOrder
    Sample <- MCSample
    Size <- MCSize
    AllowRebalance = TRUE
    AllowCompound = TRUE
    MinimumBenefit = 0
    MinimumFees = 100
INVARIANTS
    AnswersAreRecent
    BatchIsWhole
    FallbackNeverTraded
    CooldownHolds
    ProposalHoldsTick
CONSTRAINTS
    TwoAtATime
    FewPositions
CHECK_DEADLOCK FALSE
