\* The timer's tick, a forced tick, a trigger and a direct run, every failure allowed.
SPECIFICATION Spec
CONSTANTS
    alice = alice
    bob = bob
    platform = platform
    today = today
    yesterday = yesterday
    Owners <- MCOwners
    Beneficiaries <- MCBeneficiaries
    Day = {today, yesterday}
    Today = today
    Tick = {timer, tickNow}
    Trigger = {t1}
    k1 = k1
    k2 = k2
    Key = {k1, k2}
    Body <- MCBody
    RunDay = {today}
    MaxRetries = 2
    InferableIndex = TRUE
    ThrowAt = {"insert", "clash", "snapshot", "existing", "create", "audit", "log", "end", "auditEnd", "catch"}
    MayCrash = TRUE
INVARIANTS
    TypeOK
    OneDistributionPerDay
    RunningIsExact
    VerdictIsHonest
SYMMETRY TickSymmetry
CHECK_DEADLOCK FALSE
