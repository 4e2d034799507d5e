\* Two triggers that share a key or a day, every failure allowed.
SPECIFICATION FairSpec
CONSTANTS
    alice = alice
    bob = bob
    platform = platform
    today = today
    yesterday = yesterday
    Owners <- MCOwners
    Beneficiaries <- MCBeneficiaries
    Day = {today, yesterday}
    Today = today
    Tick = {}
    Trigger = {t1, t2}
    k1 = k1
    k2 = k2
    Key = {k1, k2}
    Body <- MCBody
    RunDay = {}
    MaxRetries = 2
    InferableIndex = TRUE
    ThrowAt = {"insert", "clash", "snapshot", "existing", "create", "audit", "log", "end", "auditEnd", "catch"}
    MayCrash = TRUE
PROPERTY TriggerSettles
CHECK_DEADLOCK FALSE
