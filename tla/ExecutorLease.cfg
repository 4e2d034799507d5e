\* Two concurrent callers of executeAutomationQueueOnce; every statement may fail.
SPECIFICATION Spec
CONSTANTS
    txJob = txJob
    plainJob = plainJob
    NoJob = NoJob
    Job <- MCJob
    TxJob <- MCTxJob
    MainnetAutoJob <- NoBlockedJob
    Priority <- MCPriority
    DirectWorker <- NoWorker
    LeaseWorker = {l1, l2}
    MaxAttempts = 3
    MaxJobs = 1
    RetryLimit = 2
    RelayerAvailable = FALSE
    WaitConfirmation = FALSE
    ThrowAt <- EveryAwait
    MaxExec = 2
INVARIANTS
    LeaseIsExclusive
    OnlyCrashStrandsAJob
SYMMETRY WorkerSymmetry
VIEW WithoutAudit
