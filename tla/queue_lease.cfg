\* Every heartbeat succeeds: the lease keeps other workers away.
SPECIFICATION Spec
CONSTANTS
    j1 = j1
    w1 = w1
    w2 = w2
    j2 = j2
    Jobs = {j1, j2}
    Workers = {w1, w2}
    OnceWorkers = {}
    NoJob = NoJob
    MaxAttempts = 2
    LeaseSeconds = 3
    MinBeat = 1
    BusyTimeout = 1
    BeatFaults = FALSE
    AppendFaults = FALSE
    MaxSignals = 1
    MaxCrashes = 1
SYMMETRY WorkerSymmetry
INVARIANTS
    TypeOK
    MutualExclusion
    LiveWorkerKeepsJob
    QueuedHasAttemptLeft
PROPERTIES
    OnlyOwnerEndsRun
    ImplementsContract
