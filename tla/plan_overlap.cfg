\* Two runs of the same trip at the same time.
SPECIFICATION Spec
CONSTANTS
    r1 = r1
    r2 = r2
    NoRun = NoRun
    Runs = {r1, r2}
    Forgetful = {}
    MayFail = {"flight", "weather", "places", "itinerary", "budget"}
    MayFlag = {}
    Overlap = TRUE
    MaxAborts = 0
PROPERTY
    NoResultLost
CHECK_DEADLOCK FALSE
