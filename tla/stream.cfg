\* One browser, a job that may be retried after a crash, a connection that drops.
SPECIFICATION FairStreamSpec
CONSTANTS
    j1 = j1
    j2 = j2
    w1 = w1
    Jobs = {j1}
    Workers = {w1}
    OnceWorkers = {}
    NoJob = NoJob
    MaxAttempts = 2
    LeaseSeconds = 1
    MinBeat = 1
    BusyTimeout = 0
    BeatFaults = FALSE
    AppendFaults = FALSE
    MaxSignals = 0
    MaxCrashes = 1
    Watched = j1
    AgentEvents = 1
    MaxIdle = 2
    MaxDrops = 2
INVARIANTS
    SeenIsLogPrefix
    NothingSkipped
PROPERTIES
    ImplementsFeed
    WatcherIsAnswered
