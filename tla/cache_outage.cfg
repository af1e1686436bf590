\* The two namespaces of get_weather, read by a thread of each process.
SPECIFICATION Spec
CONSTANTS
    a1 = a1
    a2 = a2
    w1 = w1
    api = api
    worker = worker
    places = places
    forecast = forecast
    normals = normals
    flights = flights
    Processes = {api, worker}
    Threads = {a1, w1}
    NoThread = NoThread
    Home <- MCHome
    Keys = {forecast, normals}
    ToolsOf <- MCToolsOf
    Then <- MCThen
    NoKey = NoKey
    Ttl <- MCTtl
    EmptyTtl = 1
    MaxAge = 3
    MaxCrashes = 1
INVARIANT
    OutageNotStored
