\* A trip planned again and again, one run after the other, with an abort.
SPECIFICATION Spec
CONSTANTS
    r1 = r1
    r2 = r2
    r3 = r3
    NoRun = NoRun
    Runs = {r1, r2, r3}
    Forgetful = {r3}
    MayFail = {"flight", "weather", "places", "itinerary", "budget"}
    MayFlag = {"flight"}
    Overlap = FALSE
    MaxAborts = 1
SYMMETRY RunSymmetry
INVARIANTS
    ReportsThisRun
    BudgetIsCurrent
    ItineraryGrounded
    FreshPlansAreWhole
PROPERTIES
    ImplementsTripMemory
    NeverPaidAgain
CHECK_DEADLOCK FALSE
