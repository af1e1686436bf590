\* The SQLite bucket, as deployed.
SPECIFICATION Spec
CONSTANTS
    c1 = c1
    c2 = c2
    r1 = r1
    r2 = r2
    r3 = r3
    Requests = {r1, r2}
    Callers = {c1, c2}
    Global = Global
    Nobody = Nobody
    Backend = "bucket"
    Capacity <- TightCapacity
    Rate <- SmallRate
    MaxConcurrent <- SmallLimit
    Routes = {"stream", "chat"}
    PlanCost = 2
    ChatCost = 1
    SignalsFree = TRUE
    MaxClock = 1
    MaxFaults = 1
INVARIANTS
    NeverOversold
    SharedCoversCallers
    Settled
    SlotsExact
PROPERTIES
    ImplementsIdealBucket
    RequestAnswered
