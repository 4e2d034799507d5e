\* Two wallets, of which a tick takes one; two calls of runTick, one request.
SPECIFICATION FairSpec
CONSTANTS
    p = p
    t1 = t1
    t2 = t2
    r1 = r1
    Position = {p}
    Whole = Whole
    Saver = {s1}
    Body <- MCBody
    PolicyBody <- MCPolicyBody
    Checker <- MCChecker
    Wallet = {1, 2}
    Managed = 1
    JobTarget = p
    Tick <- MCTick
    Request <- MCRequest
    RequestKind = {"workerTick", "executeNow", "executeLater"}
    MaxWallets = 1
    RetryLimit = 1
    EvaluateEnabled = TRUE
    MaxThrows = 1
INVARIANT
    OneTickAtATime
PROPERTIES
    PausedJobsFail
    EveryWalletServed
CHECK_DEADLOCK FALSE
