\* Two processes share the files; one key, of any tool that reports failures.
SPECIFICATION FairSpec
CONSTANTS
    a1 = a1
    a2 = a2
    w1 = w1
    api = api
    worker = worker
    places = places
    forecast = forecast
    normals = normals
    flights = flights
    Processes = {api, worker}
    Threads = {a1, a2, w1}
    NoThread = NoThread
    Home <- MCHome
    Keys = {places}
    ToolsOf <- MCToolsOf
    Then <- MCThen
    NoKey = NoKey
    Ttl <- MCTtl
    EmptyTtl = 1
    MaxAge = 2
    MaxCrashes = 1
INVARIANTS
    OneFetchPerKey
    OutageIsForgotten
PROPERTIES
    ImplementsContract
    CallReturns
