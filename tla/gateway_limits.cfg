\* The default backend: `limits`, on memory.
SPECIFICATION Spec
CONSTANTS
    c1 = c1
    c2 = c2
    r1 = r1
    r2 = r2
    r3 = r3
    Requests = {r1, r2, r3}
    Callers = {c1, c2}
    Global = Global
    Nobody = Nobody
    Backend = "limits"
    Capacity <- SmallCapacity
    Rate <- SmallRate
    MaxConcurrent <- SmallLimit
    Routes = {"plan", "chat"}
    PlanCost = 2
    ChatCost = 1
    SignalsFree = FALSE
    MaxClock = 1
    MaxFaults = 0
SYMMETRY RequestSymmetry
INVARIANTS
    NeverOversold
