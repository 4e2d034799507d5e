\* The unique index as the migration creates it: partial, and no target of ON CONFLICT.
SPECIFICATION Spec
CONSTANTS
    alice = alice
    bob = bob
    platform = platform
    today = today
    yesterday = yesterday
    Owners <- MCOwners
    Beneficiaries <- MCBeneficiaries
    Day = {today, yesterday}
    Today = today
    Tick = {timer}
    Trigger = {t1}
    k1 = k1
    k2 = k2
    Key = {k1, k2}
    Body <- MCBody
    RunDay = {}
    MaxRetries = 2
    InferableIndex = FALSE
    ThrowAt = {}
    MayCrash = FALSE
INVARIANT InsertSucceeds
CHECK_DEADLOCK FALSE
