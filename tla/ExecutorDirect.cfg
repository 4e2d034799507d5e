\* Two concurrent callers of the direct path, every failure allowed.
SPECIFICATION Spec
CONSTANTS
    txJob = txJob
    plainJob = plainJob
    NoJob = NoJob
    Job <- MCJob
    TxJob <- MCTxJob
    MainnetAutoJob <- PlainJobOnMainnet
    Priority <- MCPriority
    DirectWorker = {d1, d2}
    LeaseWorker <- NoWorker
    MaxAttempts = 2
    MaxJobs = 2
    RetryLimit = 1
    RelayerAvailable = TRUE
    WaitConfirmation = TRUE
    ThrowAt = {"audit"}
    MaxExec = 2
INVARIANTS
    TypeOK
    SucceededIsBacked
    ExecutionTellsTruth
    AuditMatchesExecution
PROPERTIES
    QuietSuccessIsFinal
SYMMETRY WorkerSymmetry
VIEW WithoutHistory
