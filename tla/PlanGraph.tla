----------------------------- MODULE PlanGraph -----------------------------
(***************************************************************************)
(* Planning one trip (orchestrator.plan_trip): the graph of agents, the    *)
(* channels its nodes update, and the checkpoint from which a later run of *)
(* the same trip resumes.  A run is one call of plan_trip; the runs of a   *)
(* trip share its checkpoint (providers/memory.thread_id) and nothing else.*)
(*                                                                         *)
(* A result is abstracted to what staleness and reporting depend on: the   *)
(* run that produced it, whether its verifier flagged it, and the results  *)
(* it was built from.                                                      *)
(***************************************************************************)
EXTENDS Naturals, FiniteSets

CONSTANTS
    Runs,          \* calls of plan_trip for this trip
    Forgetful,     \* those with remember=False
    NoRun,         \* the producer of a result that does not exist
    Overlap,       \* may two runs of the trip be in progress at once
    MayFail,       \* bound: the agents that fail
    MayFlag,       \* bound: the agents whose verifier finds something
    MaxAborts      \* bound on the runs that are killed or raise

ASSUME PlanAssumption ==
    /\ Forgetful \subseteq Runs
    /\ NoRun \notin Runs
    /\ Overlap \in BOOLEAN
    /\ MayFail \subseteq {"flight", "weather", "hotels", "places", "itinerary", "budget"}
    /\ MayFlag \subseteq {"flight", "weather", "hotels", "itinerary", "budget"}
    /\ MaxAborts \in Nat

VARIABLES
    pc,        \* the superstep each run is in
    prior,     \* what get_state() found, for the seed
    state,     \* the channels of the run's TripState
    out,       \* updates of the fan-out's nodes that are not merged yet
    status,    \* the verdict of synthesize
    saved,     \* the checkpoint of the trip
    owner,     \* the run that wrote it
    aborts

runVars == <<pc, prior, state, out, status>>
vars == <<runVars, saved, owner, aborts>>

----------------------------------------------------------------------------
Fan == {"flight", "weather", "hotels", "places"}
Agents == Fan \cup {"itinerary", "budget"}
Carried == Fan \cup {"itinerary"}

Required == {"flight", "hotels", "places", "itinerary"}
Optional == {"weather", "budget"}
UpstreamMutant == {"flight", "hotels"}
Upstream == {"flight", "hotels", "places"}   \* of the itinerary

NoResult == [by |-> NoRun, flagged |-> FALSE, from |-> <<>>, advice |-> FALSE]
Missing(s, a) == s.val[a].by = NoRun

Made(r, flag, sources, advised) ==
    [by |-> r, flagged |-> flag, from |-> sources, advice |-> advised]

Quiet == [a \in Agents |-> 0]     \* how many messages each agent has appended
Empty == [val |-> [a \in Agents |-> NoResult], errors |-> Quiet, warnings |-> Quiet]

\* The update {a: v, "errors": [...], "warnings": [...]} of a node, and the one
\* of a node that returns {}.
Update(v, error, warning) == [set |-> TRUE, v |-> v, error |-> error, warning |-> warning]
Skip == [set |-> FALSE, v |-> NoResult, error |-> 0, warning |-> 0]
Waiting == [set |-> FALSE, v |-> NoResult, error |-> 2, warning |-> 2]

FailedMutant == Update(NoResult, 0, 0)

\* The error-isolated failure.
Failed == Update(NoResult, 1, 0)
Done(v) == Update(v, 0, IF v.flagged THEN 1 ELSE 0)

\* A superstep's updates are merged when all of its nodes have returned:
\* results replace the channel, errors and warnings go through accumulate().
Merge(s, u) ==
    [val      |-> [a \in Agents |-> IF a \in DOMAIN u /\ u[a].set THEN u[a].v ELSE s.val[a]],
     errors   |-> [a \in Agents |-> s.errors[a] + (IF a \in DOMAIN u THEN u[a].error ELSE 0)],
     warnings |-> [a \in Agents |->
                      s.warnings[a] + (IF a \in DOMAIN u THEN u[a].warning ELSE 0)]]

Init ==
    /\ pc = [r \in Runs |-> "idle"]
    /\ prior = [r \in Runs |-> Empty.val]
    /\ state = [r \in Runs |-> Empty]
    /\ out = [r \in Runs |-> [a \in Fan |-> Waiting]]
    /\ status = [r \in Runs |-> "none"]
    /\ saved = Empty
    /\ owner = NoRun
    /\ aborts = 0

----------------------------------------------------------------------------
(* plan_trip() *)

InProgress(r) == pc[r] \notin {"idle", "done", "aborted"}

\* graph.get_state(): the results of earlier runs.  A run with remember=False
\* never looks.
ReadPrior(r) ==
    /\ pc[r] = "idle"
    /\ Overlap \/ \A q \in Runs : ~InProgress(q)
    /\ pc' = [pc EXCEPT ![r] = "seed"]
    /\ prior' = [prior EXCEPT ![r] = IF r \in Forgetful THEN Empty.val ELSE saved.val]
    /\ UNCHANGED <<state, out, status, saved, owner, aborts>>

Checkpoint(r, s) ==
    IF r \in Forgetful
    THEN UNCHANGED <<saved, owner>>
    ELSE saved' = s /\ owner' = r

\* accumulate(channel, None)
Reset(channel) == Quiet

SeededMutant(r) ==
    [val |-> saved.val, errors |-> Reset(saved.errors), warnings |-> Reset(saved.warnings)]

\* The input of the graph: the carried results are written over the channels
\* of the checkpoint, which may have moved since they were read.
Seeded(r) ==
    LET base == IF r \in Forgetful THEN Empty ELSE saved IN
    [val      |-> [a \in Agents |->
                      IF a \in Carried /\ prior[r][a].by # NoRun THEN prior[r][a]
                                                                ELSE base.val[a]],
     errors   |-> Reset(base.errors),
     warnings |-> Reset(base.warnings)]

Invoke(r) ==
    /\ pc[r] = "seed"
    /\ pc' = [pc EXCEPT ![r] = "fan"]
    /\ prior' = [prior EXCEPT ![r] = Empty.val]    \* not read again
    /\ state' = [state EXCEPT ![r] = Seeded(r)]
    /\ Checkpoint(r, Seeded(r))
    /\ UNCHANGED <<out, status, aborts>>

----------------------------------------------------------------------------
(* The agents *)

AlreadyDoneMutant(s, a) == ~Missing(s, a) /\ ~s.val[a].flagged

AlreadyDone(s, a) == ~Missing(s, a)

Flags(a) == {FALSE} \cup {a \in MayFlag}

\* run_agent(), run_tool_agent() and places_agent(): whatever goes wrong, a
\* timeout included, becomes one entry in errors and leaves the key None.
Research(r, a) ==
    IF AlreadyDone(state[r], a) THEN {Skip}
    ELSE {Failed : x \in {a} \cap MayFail}
           \cup {Done(Made(r, flag, <<>>, FALSE)) : flag \in Flags(a)}

\* One node of the fan-out returns.
Agent(r, a) ==
    /\ pc[r] = "fan"
    /\ out[r][a] = Waiting
    /\ \E u \in Research(r, a) : out' = [out EXCEPT ![r][a] = u]
    /\ UNCHANGED <<pc, prior, state, status, saved, owner, aborts>>

\* The barrier: the last of the four has returned.
Join(r) ==
    LET s == Merge(state[r], out[r]) IN
    /\ pc[r] = "fan"
    /\ \A a \in Fan : out[r][a] # Waiting
    /\ pc' = [pc EXCEPT ![r] = "itinerary"]
    /\ state' = [state EXCEPT ![r] = s]
    /\ out' = [out EXCEPT ![r] = [a \in Fan |-> Waiting]]
    /\ Checkpoint(r, s)
    /\ UNCHANGED <<prior, status, aborts>>

\* A superstep of one node.
Step(r, a, next, u) ==
    LET s == Merge(state[r], [x \in {a} |-> u]) IN
    /\ pc[r] = a
    /\ pc' = [pc EXCEPT ![r] = next]
    /\ state' = [state EXCEPT ![r] = s]
    /\ Checkpoint(r, s)
    /\ UNCHANGED <<prior, out, status, aborts>>

BlockedByFailure(s) == \E a \in Upstream : Missing(s, a)

\* The itinerary is built from the candidate places, and from the outlook if
\* there is one.
ItinerarySources(s) == <<s.val["places"].by, s.val["weather"].by>>

Itinerary(r) ==
    LET s == state[r] IN
    \/ /\ BlockedByFailure(s)
       /\ Step(r, "itinerary", "budget", Failed)
    \/ /\ ~BlockedByFailure(s)
       /\ AlreadyDone(s, "itinerary")
       /\ Step(r, "itinerary", "budget", Skip)
    \/ /\ ~BlockedByFailure(s)
       /\ ~AlreadyDone(s, "itinerary")
       /\ \/ "itinerary" \in MayFail /\ Step(r, "itinerary", "budget", Failed)
          \/ \E flag \in Flags("itinerary") :
                Step(r, "itinerary", "budget", Done(Made(r, flag, ItinerarySources(s), FALSE)))

\* compute_breakdown(): the arithmetic over these three results, named by who
\* produced them.  The code compares the numbers: where those of other producers
\* come out equal it keeps the advice, and the model has it made again.
Breakdown(s) == <<s.val["flight"].by, s.val["hotels"].by, s.val["itinerary"].by>>

BudgetUnchangedMutant(s) == ~Missing(s, "budget") /\ s.val["budget"].advice

BudgetUnchanged(s) ==
    /\ ~Missing(s, "budget")
    /\ s.val["budget"].advice
    /\ s.val["budget"].from = Breakdown(s)

\* The breakdown is recomputed by every run; advice that cannot be had leaves
\* the breakdown without it and is reported.
Budget(r) ==
    LET s == state[r] IN
    \/ /\ BudgetUnchanged(s)
       /\ Step(r, "budget", "synthesize", Skip)
    \/ /\ ~BudgetUnchanged(s)
       /\ \/ \E flag \in Flags("budget") :
                Step(r, "budget", "synthesize", Done(Made(r, flag, Breakdown(s), TRUE)))
          \/ /\ "budget" \in MayFail
             /\ Step(r, "budget", "synthesize",
                     Update(Made(r, FALSE, Breakdown(s), FALSE), 1, 0))

PlanStatus(s) ==
    IF \E a \in Required : Missing(s, a) THEN "failed"
    ELSE IF \E a \in Optional : Missing(s, a) THEN "degraded"
    ELSE "ok"

Synthesize(r) ==
    /\ pc[r] = "synthesize"
    /\ pc' = [pc EXCEPT ![r] = "done"]
    /\ status' = [status EXCEPT ![r] = PlanStatus(state[r])]
    /\ Checkpoint(r, state[r])
    /\ UNCHANGED <<prior, state, out, aborts>>

----------------------------------------------------------------------------
\* The process is killed, or a node raises (places_agent calls geocode() with
\* no try).  Nodes of the superstep that have returned may have their results
\* kept as pending writes of the run's last checkpoint.
Abort(r) ==
    LET returned == {a \in Fan : out[r][a].set /\ out[r][a].v.by # NoRun} IN
    /\ InProgress(r)
    /\ aborts < MaxAborts
    /\ aborts' = aborts + 1
    /\ pc' = [pc EXCEPT ![r] = "aborted"]
    /\ out' = [out EXCEPT ![r] = [a \in Fan |-> Waiting]]
    /\ \E kept \in SUBSET returned :
          /\ kept # {} => owner = r
          /\ saved' = [saved EXCEPT !.val =
                          [a \in Agents |-> IF a \in kept THEN out[r][a].v ELSE @[a]]]
    /\ UNCHANGED <<prior, state, status, owner>>

----------------------------------------------------------------------------
RunStep(r) ==
    \/ ReadPrior(r) \/ Invoke(r)
    \/ \E a \in Fan : Agent(r, a)
    \/ Join(r) \/ Itinerary(r) \/ Budget(r) \/ Synthesize(r)

Next == \E r \in Runs : RunStep(r) \/ Abort(r)

Spec == Init /\ [][Next]_vars

----------------------------------------------------------------------------
Producers == Runs \cup {NoRun}
Results ==
    [by : Producers, flagged : BOOLEAN, advice : BOOLEAN,
     from : {<<>>} \cup (Producers \X Producers) \cup (Producers \X Producers \X Producers)]
States ==
    [val : [Agents -> Results], errors : [Agents -> 0 .. 1], warnings : [Agents -> 0 .. 1]]

\* Every channel has its type; no message is ever reported twice, by this run
\* or by a later one that resumes from the checkpoint.
PlanTypeOK ==
    /\ pc \in [Runs -> {"idle", "seed", "fan", "itinerary", "budget", "synthesize",
                        "done", "aborted"}]
    /\ \A r \in Runs : prior[r] \in [Agents -> Results] /\ state[r] \in States
    /\ status \in [Runs -> {"none", "ok", "degraded", "failed"}]
    /\ saved \in States
    /\ owner \in Producers
    /\ aborts \in 0 .. MaxAborts

\* models.accumulate and plan_trip: what a finished plan reports is about this
\* run.  Every gap is explained by exactly one error, an agent that has since
\* succeeded by none, and a warning stands for a finding of this run.
ReportsThisRun ==
    \A r \in Runs : pc[r] = "done" =>
        LET s == state[r] IN
        /\ \A a \in Agents \ {"budget"} : s.errors[a] = IF Missing(s, a) THEN 1 ELSE 0
        /\ s.errors["budget"] = IF s.val["budget"].advice THEN 0 ELSE 1
        /\ \A a \in Agents :
              s.warnings[a] = IF s.val[a].by = r /\ s.val[a].flagged THEN 1 ELSE 0

\* budget_agent: the costs of a finished plan are those of the results it
\* shows, also when an agent that had failed has since succeeded.
BudgetIsCurrent ==
    \A r \in Runs : pc[r] = "done" =>
        /\ ~Missing(state[r], "budget")
        /\ state[r].val["budget"].from = Breakdown(state[r])

\* orchestrator.plan_trip, remember=False: an itinerary that a run has made saw
\* the places and the outlook that its plan shows, and a plan made without the
\* memory of the trip is all of this run, with every finding about it.
FreshPlansAreWhole ==
    \A r \in Runs : pc[r] = "done" =>
        LET s == state[r] IN
        /\ s.val["itinerary"].by = r => s.val["itinerary"].from = ItinerarySources(s)
        /\ r \in Forgetful =>
              \A a \in Agents :
                 /\ s.val[a].by \in {r, NoRun}
                 /\ s.val[a].flagged => s.warnings[a] = 1

\* An itinerary exists only with everything it needs, and was built from the
\* places that the plan and the checkpoint hold, whatever was resumed.
Grounded(s) ==
    ~Missing(s, "itinerary") =>
        /\ \A a \in {"flight", "hotels", "places"} : ~Missing(s, a)
        /\ s.val["itinerary"].from[1] = s.val["places"].by

ItineraryGrounded == Grounded(saved) /\ \A r \in Runs : Grounded(state[r])

\* plan_trip: a result that has reached the checkpoint is neither lost nor
\* replaced by a later run, whatever fails in it.
NoResultLost ==
    [][\A a \in Carried : ~Missing(saved, a) => saved'.val[a] = saved.val[a]]_vars

\* The checkpoint is the memory of TripMemory: what a later run finds there is
\* what some earlier run added before it was done, and what it shows.
By(s) == [a \in Carried |-> s.val[a].by]

Trip ==
    INSTANCE TripMemory WITH
        Entries <- Carried,
        memory <- By(saved),
        plans <- [r \in {q \in Runs : pc[q] = "done"} |-> By(state[r])]

ImplementsTripMemory == Trip!Spec

\* README: "Rerunning skips agents that already succeeded": no run that
\* remembers calls an agent of the fan-out whose result is in the checkpoint.
NeverPaidAgain ==
    [][\A a \in Fan, r \in Runs \ Forgetful :
          out'[r][a].set /\ ~out[r][a].set => Missing(saved, a)]_vars

\* README: the second run of a trip is "all skipped, identical plan".  A plan
\* that shows a result its verifier flagged says so.
FlaggedResultsAreReported ==
    \A r \in Runs : pc[r] = "done" =>
        \A a \in Agents :
            state[r].val[a].flagged => state[r].warnings[a] = 1

\* status.py: a plan that lacks an optional agent's data is degraded and "the
\* gap is stated plainly".  A plan that is ok has an itinerary that was built
\* with the outlook.
OkPlanSawWeather ==
    \A r \in Runs : status[r] = "ok" => state[r].val["itinerary"].from[2] # NoRun
=============================================================================
