----------------------------- MODULE PlanChecks -----------------------------
(***************************************************************************)
(* The data of one trip, from what the traveller asked to what both judges *)
(* say of the plan: scope.resolve_request, the results of the agents, the  *)
(* itinerary and budget agents' checks, and a resumption, which carries    *)
(* results over and starts with no warnings and no evidence.  PlanGraph    *)
(* has the order of the agents and the checkpoints; here the agents of a   *)
(* superstep answer in one step.                                           *)
(***************************************************************************)
EXTENDS Judges

CONSTANTS
    Asks,            \* bound: the requests travellers make
    FareLists,       \* bound: ascending prices per person
    RateLists,       \* bound: ascending rates per night
    Catalogues,      \* bound: candidates with their opening_hours
    Itineraries(_),  \* bound: what the model composes for a request
    MaxRuns          \* bound on the runs of the trip

Requests ==
    UNION {{Resolve(ask, advised) : advised \in MinNights .. MaxNights} :
             ask \in {a \in Asks : Accepted(a)}}

ASSUME ChecksAssumption ==
    /\ \A prices \in FareLists \cup RateLists :
          /\ prices \in Seq(Nat \ {0})
          /\ \A i, j \in DOMAIN prices : i < j => prices[i] <= prices[j]
    /\ \A a \in Asks : a.budget \in Nat \cup {None}
                         /\ a.start \in Int \cup {NotADate}
                         /\ a.nights \in Int \cup {None}
                         /\ a.end \in Int \cup {None, NotADate}
                         /\ a.travelers \in Int \cup {None}
    /\ \A req \in Requests : \A it \in Itineraries(req) :
          /\ it # None /\ it.perPerson \in Nat
          /\ \A i \in DOMAIN it.days : it.days[i].date \in Int \cup {NotADate}
    /\ \A catalogue \in Catalogues : \A name \in DOMAIN catalogue :
          \A i \in DOMAIN catalogue[name] :
             catalogue[name][i].spans \subseteq Weekdays \X Weekdays
    /\ None \notin FareLists \cup RateLists /\ None \notin Catalogues
    /\ MaxRuns \in Nat

VARIABLES
    stage,      \* "ask", "research", "compose", "reconcile", "done", "refused"
    runs,       \* runs of the trip so far
    ask,
    request,    \* what resolve_request made of it
    flight, hotels, places, itinerary,
    budget,     \* the last breakdown, and whether the model advised on it
    evidence,   \* names that this run's tools returned
    composed,   \* whether this run made the itinerary
    reconciled, \* whether this run checked the breakdown
    warnings    \* of this run

results == <<flight, hotels, places, itinerary, budget>>
vars == <<stage, runs, ask, request, results, evidence, composed, reconciled, warnings>>

Init ==
    /\ stage = "ask" /\ runs = 1
    /\ ask \in Asks
    /\ request = None
    /\ flight = None /\ hotels = None /\ places = None /\ itinerary = None
    /\ budget = [breakdown |-> None, advised |-> FALSE]
    /\ evidence = {} /\ warnings = {}
    /\ composed = FALSE /\ reconciled = FALSE

Refuse ==
    /\ stage = "ask" /\ ~Accepted(ask)
    /\ stage' = "refused"
    /\ UNCHANGED <<runs, ask, request, results, evidence, composed, reconciled, warnings>>

Accept ==
    /\ stage = "ask" /\ Accepted(ask)
    /\ \E advised \in MinNights .. MaxNights : request' = Resolve(ask, advised)
    /\ ask' = None            \* the job carries the request alone
    /\ stage' = "research"
    /\ UNCHANGED <<runs, results, evidence, composed, reconciled, warnings>>

\* What an agent that may fail leaves: a result of an earlier run is kept.
Answers(result, answers) == IF result # None THEN {result} ELSE answers \cup {None}

Research ==
    /\ stage = "research"
    /\ flight' \in Answers(flight, FareLists)
    /\ hotels' \in Answers(hotels, RateLists)
    /\ places' \in Answers(places, Catalogues)
    /\ evidence' = IF places = None /\ places' # None THEN DOMAIN places' ELSE {}
    /\ stage' = "compose"
    /\ UNCHANGED <<runs, ask, request, itinerary, budget, composed, reconciled, warnings>>

Blocked == None \in {flight, hotels} \/ places = None

\* Kept from an earlier run, or skipped because a required result is missing.
Skip ==
    /\ stage = "compose" /\ (itinerary # None \/ Blocked)
    /\ stage' = "reconcile"
    /\ UNCHANGED <<runs, ask, request, results, evidence, composed, reconciled, warnings>>

Compose ==
    /\ stage = "compose" /\ itinerary = None /\ ~Blocked
    /\ itinerary' \in Itineraries(request) \cup {None}
    /\ composed' = (itinerary' # None)
    /\ warnings' = IF itinerary' = None THEN {}
                   ELSE VerifyItinerary(itinerary', request, places)
    /\ stage' = "reconcile"
    /\ UNCHANGED <<runs, ask, request, flight, hotels, places, budget, evidence, reconciled>>

Current == Breakdown(request, flight, hotels, itinerary)

\* budget_agent: unchanged figures that were advised on are left alone.
Settled == budget.advised /\ budget.breakdown = Current

KeepBudget ==
    /\ stage = "reconcile" /\ Settled
    /\ stage' = "done"
    /\ UNCHANGED <<runs, ask, request, results, evidence, composed, reconciled, warnings>>

\* _advise checks the figures only when the model's advice arrived.
Reconcile ==
    /\ stage = "reconcile" /\ ~Settled
    /\ \E advised \in BOOLEAN :
          /\ budget' = [breakdown |-> Current, advised |-> advised]
          /\ reconciled' = advised
          /\ warnings' =
                IF ~advised THEN warnings
                ELSE warnings \cup VerifyArithmetic(Current)
                        \cup VerifyBudgetCap(Current, Allowance(request, flight, hotels))
    /\ stage' = "done"
    /\ UNCHANGED <<runs, ask, request, flight, hotels, places, itinerary, evidence, composed>>

\* The same trip is planned again.
Resume ==
    /\ stage = "done" /\ runs < MaxRuns
    /\ runs' = runs + 1
    /\ stage' = "research"
    /\ evidence' = {} /\ warnings' = {}
    /\ composed' = FALSE /\ reconciled' = FALSE
    /\ UNCHANGED <<ask, request, results>>

Next ==
    \/ Refuse \/ Accept \/ Research \/ Skip \/ Compose
    \/ KeepBudget \/ Reconcile \/ Resume

Spec == Init /\ [][Next]_vars

----------------------------------------------------------------------------
\* memory.thread_id: the requests that share a checkpoint.  A budget of 0 reads as
\* none.
ThreadId(req) ==
    <<req.start, req.end, req.travelers, IF req.budget = 0 THEN None ELSE req.budget>>

Restated(req) ==
    [origin |-> "place", destination |-> "place", start |-> req.start, end |-> req.end,
     nights |-> None, travelers |-> req.travelers, budget |-> req.budget]

\* A request that was accepted, stated again by the dates and the party it was
\* resolved to, is accepted and is the same trip: the one a traveller resumes
\* (memory.thread_id); and its nights are countable for the costs.
AcceptedIsStable ==
    request # None =>
        /\ Accepted(Restated(request))
        /\ \A advised \in MinNights .. MaxNights :
              ThreadId(Resolve(Restated(request), advised)) = ThreadId(request)
        /\ Nights(request) = request.end - request.start

Warned(problems) == warnings \cap problems # {}

\* Wherever both judges speak they agree, though they read different things: the
\* check the candidates of the trip and the dates it could parse, the scorer the
\* evidence of the run and the dates as text; and a plan whose names the scorer
\* condemns was made, and warned of, in the run that is scored.
JudgesAgree ==
    stage = "done" =>
        /\ composed =>
             /\ Warned({"empty", "unparseable", "duplicate", "outside", "missing", "unordered"})
                  <=> ~ScoreDayCoverage(itinerary, request)
             /\ Warned({"empty", "repeat"}) <=> ~ScoreNoDuplicates(itinerary)
        /\ itinerary # None /\ evidence # {} /\ ~ScoreGroundedness(itinerary, evidence) =>
             composed /\ (Warned({"empty", "unverified"}) \/ Visits(itinerary) = {})
        /\ reconciled =>
             (Warned({"cap"})
                <=> ~ScoreAllowance(budget.breakdown, Allowance(request, flight, hotels)))

\* A plan is over its budget either because its activities take more than is
\* left, or because the cheapest travel and lodging do already, and then it is
\* said to be infeasible unless one of the two is missing; its subtotal is
\* always the sum of its parts.
VerdictIsExplained ==
    stage = "done" /\ request.budget # None =>
        LET b == budget.breakdown
            left == Allowance(request, flight, hotels)
        IN  /\ b.overUnder > 0
                 <=> VerifyBudgetCap(b, left) # {} \/ (b.activities = 0 /\ left.remaining < 0)
            /\ b.feasible = "no" => b.overUnder > 0
            /\ b.overUnder > 0 /\ b.activities = 0
                 => b.feasible = "no" \/ b.missing \cap {"flights", "lodging"} # {}
            /\ VerifyArithmetic(b) = {}

\* hours.py:5-8: of the tags it covers a visit is said to meet a closed door
\* exactly when the tag says so.
DoorsJudgedRight ==
    composed /\ stage = "done" =>
        LET known == {v \in Visits(itinerary) :
                        /\ NameOf(itinerary, v) \in DOMAIN places
                        /\ DateOf(itinerary, v) # NotADate
                        /\ Read(places[NameOf(itinerary, v)]) # {}}
            shut == {v \in known :
                       ~OpenByTag(places[NameOf(itinerary, v)], DateOf(itinerary, v) % 7)}
            opens == {v \in known : OpenRules(places[NameOf(itinerary, v)]) # {}}
        IN  (\A v \in known : Covered(places[NameOf(itinerary, v)])) =>
              /\ Warned({"closed"}) => shut # {}
              /\ shut \cap opens # {} => Warned({"closed"})
=============================================================================
