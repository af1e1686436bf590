------------------------- MODULE MCReadThroughCache -------------------------
(* Small instances of ReadThroughCache for TLC: the api with two threads and *)
(* the worker with one.                                                      *)
EXTENDS ReadThroughCache, TLC

CONSTANTS a1, a2, w1, api, worker, places, forecast, normals, flights

MCHome == [t \in Threads |-> IF t = w1 THEN worker ELSE api]

\* Any tool that reports its failures, and the two namespaces of get_weather.
MCTools ==
    places :> {"hotels", "places", "guide", "geocode", "nights"}
    @@ forecast :> {"forecast"} @@ normals :> {"normals"} @@ flights :> {"flights"}
MCThen == [k \in Keys |-> IF k = forecast THEN normals ELSE NoKey]
MCTtl == [k \in Keys |-> IF k = normals THEN 3 ELSE 2]
MCToolsOf == [k \in Keys |-> MCTools[k]]
=============================================================================
