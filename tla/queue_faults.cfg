\* Every failure at once: heartbeats and appends raise, workers are killed; one of
\* the two is a --once worker, which is started again and again.
SPECIFICATION FairSpec
CONSTANTS
    j1 = j1
    w1 = w1
    w2 = w2
    Jobs = {j1}
    Workers = {w1, w2}
    OnceWorkers = {w2}
    NoJob = NoJob
    MaxAttempts = 2
    LeaseSeconds = 3
    MinBeat = 1
    BusyTimeout = 1
    BeatFaults = TRUE
    AppendFaults = TRUE
    MaxSignals = 1
    MaxCrashes = 1
INVARIANT
    RowsRecoverable
PROPERTIES
    VerdictsRunOut
    EveryJobSettles
