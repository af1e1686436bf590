\* A trip planned in up to two runs, with every list of prices that is none,
\* empty, fits the budget or takes it all.
SPECIFICATION Spec
CONSTANTS
    None = None
    NotADate = NotADate
    Today = 5
    MaxDaysAhead = 2
    MinNights = 1
    MaxNights = 2
    MaxTravelers = 2
    DefaultTravelers = 2
    Meals <- MCMeals
    Apart <- MCApart
    Asks <- MCAsks
    FareLists <- MCFares
    RateLists <- MCRates
    Catalogues <- MCCatalogues
    Itineraries <- MCItineraries
    MaxRuns = 2
INVARIANTS
    AcceptedIsStable
    
    VerdictIsExplained
    DoorsJudgedRight
CHECK_DEADLOCK FALSE
