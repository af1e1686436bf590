-------------------------- MODULE PlanGraphProofs --------------------------
(***************************************************************************)
(* Proofs about PlanGraph, for any number of runs of a trip.  What a plan  *)
(* reports, and that its budget is current, hold for overlapping runs too; *)
(* what the checkpoint keeps is proved for runs one after the other.       *)
(***************************************************************************)
EXTENDS PlanGraph, TLAPS

Froms == {<<>>} \cup (Producers \X Producers) \cup (Producers \X Producers \X Producers)

Updates == [set : BOOLEAN, v : Results, error : 0 .. 2, warning : 0 .. 2]

Types ==
    /\ PlanTypeOK
    /\ prior \in [Runs -> [Agents -> Results]]
    /\ state \in [Runs -> States]
    /\ out \in [Runs -> [Fan -> Updates]]

\* An update that node a of run r may return when its channels are s.
OwnUpdate(r, s, a, u) ==
    \/ u = Skip /\ ~Missing(s, a)
    \/ u = Failed
    \/ \E flag, advised \in BOOLEAN, from \in Froms : u = Done(Made(r, flag, from, advised))

\* A node of the fan-out replaces nothing.
FanUpdate(r, s, a, u) == OwnUpdate(r, s, a, u) /\ (u.set => Missing(s, a))

Planning == {"fan", "itinerary", "budget", "synthesize", "done"}

\* The agents that have returned when a run is at a superstep.
Heard(place) ==
    IF place = "itinerary" THEN Fan
    ELSE IF place = "budget" THEN Carried
    ELSE IF place \in {"synthesize", "done"} THEN Agents
    ELSE {}

Told(s, r, a) ==
    /\ s.warnings[a] = IF s.val[a].by = r /\ s.val[a].flagged THEN 1 ELSE 0
    /\ s.errors[a] = IF a = "budget" THEN IF s.val[a].advice THEN 0 ELSE 1
                     ELSE IF Missing(s, a) THEN 1 ELSE 0

Untold(s, r, a) == s.errors[a] = 0 /\ s.warnings[a] = 0 /\ s.val[a].by # r

\* Each channel's messages are about what it holds once its agent has returned,
\* and none before.
Reports ==
    \A r \in Runs : pc[r] \in Planning =>
        \A a \in Agents : IF a \in Heard(pc[r]) THEN Told(state[r], r, a)
                                                ELSE Untold(state[r], r, a)

Outs ==
    \A r \in Runs, a \in Fan :
        \/ out[r][a] = Waiting
        \/ pc[r] = "fan" /\ FanUpdate(r, state[r], a, out[r][a])

\* Nothing is by a run that has not started its graph.
Unborn ==
    \A r \in Runs : pc[r] \in {"idle", "seed"} =>
        \A a \in Agents :
            /\ saved.val[a].by # r
            /\ \A q \in Runs : prior[q][a].by # r /\ state[q].val[a].by # r

Costed(s) == ~Missing(s, "budget") /\ s.val["budget"].from = Breakdown(s)

Costs == \A r \in Runs : pc[r] \in {"synthesize", "done"} => Costed(state[r])

PlanOK == Types /\ Reports /\ Outs /\ Unborn /\ Costs

----------------------------------------------------------------------------
(* The values *)

LEMMA Quiets ==
    /\ NoResult \in Results /\ Empty \in States
    /\ Waiting \in Updates /\ Skip \in Updates /\ Failed \in Updates
    /\ ~Waiting.set /\ ~Skip.set /\ Failed.set
    /\ Waiting # Skip /\ Waiting # Failed
    /\ NoResult.by = NoRun
<1>1. NoResult \in Results
  BY DEF NoResult, Results, Producers
<1>2. Empty \in States
  BY <1>1 DEF Empty, Quiet, States
<1>3. Waiting \in Updates /\ Skip \in Updates /\ Failed \in Updates
  BY <1>1 DEF Waiting, Skip, Failed, Update, Updates
<1>4. /\ ~Waiting.set /\ ~Skip.set /\ Failed.set /\ NoResult.by = NoRun
      /\ Waiting.error = 2 /\ Skip.error = 0 /\ Failed.error = 1
  BY DEF Waiting, Skip, Failed, Update, NoResult
<1> QED BY <1>1, <1>2, <1>3, <1>4

LEMMA MadeIsResult ==
    ASSUME NEW r \in Runs, NEW flag \in BOOLEAN, NEW advised \in BOOLEAN, NEW from \in Froms
    PROVE  /\ Made(r, flag, from, advised) \in Results
           /\ Made(r, flag, from, advised).by = r
           /\ Made(r, flag, from, advised).flagged = flag
           /\ Made(r, flag, from, advised).from = from
           /\ Made(r, flag, from, advised).advice = advised
BY DEF Made, Results, Froms, Producers

LEMMA DoneIsUpdate ==
    ASSUME NEW v \in Results
    PROVE  /\ Done(v) \in Updates /\ Done(v).set /\ Done(v).v = v
           /\ Done(v).error = 0 /\ Done(v).warning = (IF v.flagged THEN 1 ELSE 0)
           /\ Done(v) # Waiting
BY DEF Done, Update, Updates, Waiting, Results

LEMMA OwnIsUpdate ==
    ASSUME NEW r \in Runs, NEW s, NEW a, NEW u, OwnUpdate(r, s, a, u)
    PROVE  u \in Updates /\ u # Waiting /\ (u.set => u.v.by \in {NoRun, r})
<1>1. CASE u = Skip
  BY <1>1, Quiets
<1>2. CASE u = Failed
  <2>1. Failed.v = NoResult
    BY DEF Failed, Update
  <2> QED BY <1>2, <2>1, Quiets
<1>3. CASE \E flag, advised \in BOOLEAN, from \in Froms : u = Done(Made(r, flag, from, advised))
  BY <1>3, MadeIsResult, DoneIsUpdate
<1> QED BY <1>1, <1>2, <1>3 DEF OwnUpdate

LEMMA SourcesAreFroms ==
    ASSUME NEW s \in States
    PROVE  ItinerarySources(s) \in Froms /\ Breakdown(s) \in Froms
<1>1. \A a \in Agents : s.val[a].by \in Producers
  BY DEF States, Results
<1> QED BY <1>1 DEF ItinerarySources, Breakdown, Froms, Agents, Fan

----------------------------------------------------------------------------
(* Merging the updates f of a superstep *)

LEMMA Merged ==
    ASSUME NEW s \in States, NEW f, NEW a \in Agents
    PROVE  /\ Merge(s, f).val[a] = IF a \in DOMAIN f /\ f[a].set THEN f[a].v ELSE s.val[a]
           /\ Merge(s, f).errors[a] = s.errors[a] + (IF a \in DOMAIN f THEN f[a].error ELSE 0)
           /\ Merge(s, f).warnings[a] =
                s.warnings[a] + (IF a \in DOMAIN f THEN f[a].warning ELSE 0)
BY DEF Merge

\* A channel no node of the superstep writes stays as it is.
LEMMA MergedRest ==
    ASSUME NEW s \in States, NEW f, NEW a \in Agents, a \notin DOMAIN f
    PROVE  /\ Merge(s, f).val[a] = s.val[a]
           /\ Merge(s, f).errors[a] = s.errors[a]
           /\ Merge(s, f).warnings[a] = s.warnings[a]
<1>1. s.errors[a] \in 0 .. 1 /\ s.warnings[a] \in 0 .. 1
  BY DEF States
<1> QED BY <1>1, Merged

\* One that is written by its agent tells what the agent did.
LEMMA MergedTold ==
    ASSUME NEW s \in States, NEW f, NEW r \in Runs, NEW a \in Agents, a # "budget",
           a \in DOMAIN f, OwnUpdate(r, s, a, f[a]), Untold(s, r, a)
    PROVE  /\ Told(Merge(s, f), r, a)
           /\ Merge(s, f).val[a] \in Results
           /\ Merge(s, f).errors[a] \in 0 .. 1 /\ Merge(s, f).warnings[a] \in 0 .. 1
           /\ Merge(s, f).val[a].by \in {s.val[a].by, NoRun, r}
<1> DEFINE m == Merge(s, f)
<1>1. /\ m.val[a] = IF f[a].set THEN f[a].v ELSE s.val[a]
      /\ m.errors[a] = f[a].error
      /\ m.warnings[a] = f[a].warning
  <2>1. f[a].error \in Nat /\ f[a].warning \in Nat
    BY OwnIsUpdate DEF Updates
  <2> QED BY <2>1, Merged DEF Untold
<1>2. s.val[a] \in Results
  BY DEF States
<1> HIDE DEF m
<1>3. CASE f[a] = Skip /\ ~Missing(s, a)
  <2>1. m.val[a] = s.val[a] /\ m.errors[a] = 0 /\ m.warnings[a] = 0
    BY <1>1, <1>3, Quiets DEF Skip
  <2> QED BY <1>2, <1>3, <2>1 DEF Told, Untold, Missing, m
<1>4. CASE f[a] = Failed
  <2>1. m.val[a] = NoResult /\ m.errors[a] = 1 /\ m.warnings[a] = 0
    BY <1>1, <1>4 DEF Failed, Update
  <2> QED BY <2>1, Quiets, PlanAssumption DEF Told, Missing, NoResult, m
<1>5. ASSUME NEW flag \in BOOLEAN, NEW advised \in BOOLEAN, NEW from \in Froms,
             f[a] = Done(Made(r, flag, from, advised))
      PROVE  /\ Told(m, r, a)
             /\ m.val[a] \in Results
             /\ m.errors[a] \in 0 .. 1 /\ m.warnings[a] \in 0 .. 1
             /\ m.val[a].by \in {s.val[a].by, NoRun, r}
  <2> DEFINE v == Made(r, flag, from, advised)
  <2>1. v \in Results /\ v.by = r /\ v.flagged = flag
    BY MadeIsResult
  <2> HIDE DEF v
  <2>2. m.val[a] = v /\ m.errors[a] = 0 /\ m.warnings[a] = IF flag THEN 1 ELSE 0
    BY <1>1, <1>5, <2>1, DoneIsUpdate DEF v
  <2> QED BY <2>1, <2>2, PlanAssumption DEF Told, Missing
<1> QED BY <1>3, <1>4, <1>5 DEF OwnUpdate, m

LEMMA MergedIsState ==
    ASSUME NEW s \in States, NEW f,
           \A a \in Agents : /\ Merge(s, f).val[a] \in Results
                             /\ Merge(s, f).errors[a] \in 0 .. 1
                             /\ Merge(s, f).warnings[a] \in 0 .. 1
    PROVE  Merge(s, f) \in States
BY DEF Merge, States
----------------------------------------------------------------------------
(* The actions *)

Steps == {"idle", "seed", "fan", "itinerary", "budget", "synthesize", "done", "aborted"}
Waits == [a \in Fan |-> Waiting]

\* A superstep of run r ends: its channels become s, which other runs see only
\* in the checkpoint.
LEMMA Superstep ==
    ASSUME PlanOK, NEW r \in Runs, NEW s \in States, NEW next \in Planning,
           pc' = [pc EXCEPT ![r] = next],
           state' = [state EXCEPT ![r] = s],
           prior' \in {prior, [prior EXCEPT ![r] = Empty.val]},
           out' = [out EXCEPT ![r] = Waits],
           status' \in [Runs -> {"none", "ok", "degraded", "failed"}],
           Checkpoint(r, s),
           aborts' = aborts,
           \A a \in Agents : IF a \in Heard(next) THEN Told(s, r, a) ELSE Untold(s, r, a),
           \A a \in Agents, q \in Runs \ {r} :
              pc[q] \in {"idle", "seed"} => s.val[a].by # q,
           next \in {"synthesize", "done"} => Costed(s)
    PROVE  PlanOK'
<1> USE DEF PlanOK, Types
<1>1. /\ pc'[r] = next /\ state'[r] = s
      /\ \A a \in Fan : out'[r][a] = Waiting
      /\ \A q \in Runs \ {r} : pc'[q] = pc[q] /\ state'[q] = state[q] /\ out'[q] = out[q]
  BY DEF PlanTypeOK, Waits
<1>2. Types'
  <2>1. saved' \in States /\ owner' \in Producers
    BY DEF Checkpoint, PlanTypeOK, Producers
  <2>2. state' \in [Runs -> States]
    OBVIOUS
  <2>3. prior' \in [Runs -> [Agents -> Results]]
    BY Quiets DEF States
  <2>4. out' \in [Runs -> [Fan -> Updates]]
    BY Quiets DEF Waits
  <2>5. pc' \in [Runs -> Steps]
    BY DEF PlanTypeOK, Planning, Steps
  <2> QED BY <2>1, <2>2, <2>3, <2>4, <2>5 DEF PlanTypeOK, Steps
<1>3. Reports'
  BY <1>1 DEF Reports
<1>4. Outs'
  BY <1>1 DEF Outs
<1>5. Unborn'
  <2> SUFFICES ASSUME NEW p \in Runs, pc'[p] \in {"idle", "seed"}, NEW a \in Agents
               PROVE  /\ saved'.val[a].by # p
                      /\ \A q \in Runs : prior'[q][a].by # p /\ state'[q].val[a].by # p
    BY DEF Unborn
  <2>1. p # r /\ pc[p] \in {"idle", "seed"}
    BY <1>1 DEF Planning
  <2>2. saved'.val[a].by # p
    BY <2>1 DEF Unborn, Checkpoint
  <2>3. Empty.val[a].by # p
    BY Quiets, PlanAssumption DEF Empty
  <2>4. \A q \in Runs : prior'[q][a].by # p
    BY <2>1, <2>3 DEF Unborn
  <2> QED BY <1>1, <2>1, <2>2, <2>4 DEF Unborn
<1>6. Costs'
  BY <1>1 DEF Costs
<1> QED BY <1>2, <1>3, <1>4, <1>5, <1>6

LEMMA ReadPriorKeeps == ASSUME PlanOK, NEW r \in Runs, ReadPrior(r) PROVE PlanOK'
<1> USE DEF PlanOK, Types, ReadPrior
<1>1. pc[r] = "idle" /\ pc'[r] = "seed" /\ \A q \in Runs \ {r} : pc'[q] = pc[q]
  BY DEF PlanTypeOK
<1>2. /\ prior'[r] = IF r \in Forgetful THEN Empty.val ELSE saved.val
      /\ \A q \in Runs \ {r} : prior'[q] = prior[q]
  OBVIOUS
<1>3. Types'
  <2>1. prior' \in [Runs -> [Agents -> Results]]
    BY Quiets DEF States, PlanTypeOK
  <2>2. pc' \in [Runs -> Steps]
    BY DEF PlanTypeOK, Steps
  <2> QED BY <2>1, <2>2 DEF PlanTypeOK, Steps
<1>4. Reports'
  BY <1>1 DEF Reports, Planning
<1>5. Outs'
  BY <1>1 DEF Outs
<1>6. Unborn'
  <2>1. \A p \in Runs, a \in Agents : Empty.val[a].by # p
    BY Quiets, PlanAssumption DEF Empty
  <2> QED BY <1>1, <1>2, <2>1 DEF Unborn
<1>7. Costs'
  BY <1>1 DEF Costs
<1> QED BY <1>3, <1>4, <1>5, <1>6, <1>7

\* What an agent of the fan-out may return.
LEMMA ResearchIsFan ==
    ASSUME NEW r \in Runs, NEW s \in States, NEW a \in Fan, NEW u \in Research(r, a),
           state[r] = s
    PROVE  FanUpdate(r, s, a, u)
<1>1. CASE AlreadyDone(s, a)
  BY <1>1, Quiets DEF AlreadyDone, Research, FanUpdate, OwnUpdate
<1>2. CASE ~AlreadyDone(s, a)
  <2>1. Flags(a) \subseteq BOOLEAN /\ <<>> \in Froms
    BY DEF Flags, Froms
  <2>2. u = Failed \/ \E flag \in BOOLEAN : u = Done(Made(r, flag, <<>>, FALSE))
    BY <1>2, <2>1 DEF Research
  <2> QED BY <1>2, <2>1, <2>2 DEF AlreadyDone, FanUpdate, OwnUpdate
<1> QED BY <1>1, <1>2

LEMMA AgentKeeps ==
    ASSUME PlanOK, NEW r \in Runs, NEW a \in Fan, Agent(r, a) PROVE PlanOK'
<1> USE DEF PlanOK, Types
<1>1. PICK u \in Research(r, a) : out' = [out EXCEPT ![r][a] = u]
  BY DEF Agent
<1>2. FanUpdate(r, state[r], a, u) /\ u \in Updates
  BY ResearchIsFan, OwnIsUpdate DEF FanUpdate
<1>3. Types'
  <2>1. out' \in [Runs -> [Fan -> Updates]]
    BY <1>1, <1>2
  <2> QED BY <2>1 DEF Agent, PlanTypeOK
<1>4. Reports' /\ Unborn' /\ Costs'
  BY DEF Agent, Reports, Unborn, Costs
<1>5. Outs'
  BY <1>1, <1>2 DEF Outs, Agent
<1> QED BY <1>3, <1>4, <1>5

LEMMA InvokeKeeps == ASSUME PlanOK, NEW r \in Runs, Invoke(r) PROVE PlanOK'
<1> USE DEF PlanOK, Types
<1> DEFINE s == Seeded(r)
<1>1. saved \in States /\ prior[r] \in [Agents -> Results] /\ pc[r] = "seed"
  BY DEF PlanTypeOK, Invoke
<1>2. \A a \in Agents : s.val[a] \in {prior[r][a], saved.val[a], NoResult}
  BY DEF Seeded, Empty
<1>3. s = [val |-> s.val, errors |-> Quiet, warnings |-> Quiet] /\ DOMAIN s.val = Agents
  BY DEF Seeded, Reset
<1>4. s \in States
  <2>1. \A a \in Agents : s.val[a] \in Results
    BY <1>1, <1>2, Quiets DEF States
  <2>2. s.val \in [Agents -> Results]
    BY <2>1 DEF Seeded
  <2> QED BY <1>3, <2>2 DEF States, Quiet
<1>5. \A a \in Agents : Untold(s, r, a)
  <2>1. \A a \in Agents : s.val[a].by # r
    BY <1>1, <1>2, Quiets, PlanAssumption DEF Unborn
  <2> QED BY <1>3, <2>1 DEF Untold, Quiet
<1>6. \A a \in Agents, q \in Runs \ {r} : pc[q] \in {"idle", "seed"} => s.val[a].by # q
  <2> SUFFICES ASSUME NEW a \in Agents, NEW q \in Runs, pc[q] \in {"idle", "seed"}
               PROVE  s.val[a].by # q
    OBVIOUS
  <2>1. saved.val[a].by # q /\ prior[r][a].by # q
    BY DEF Unborn
  <2> HIDE DEF s
  <2> QED BY <1>2, <2>1, Quiets, PlanAssumption
<1>7. \A a \in Fan : out[r][a] = Waiting
  BY <1>1 DEF Outs
<1>8. out' = [out EXCEPT ![r] = Waits]
  <2>1. out[r] = Waits
    BY <1>7 DEF Waits
  <2> QED BY <2>1 DEF Invoke
<1>9. Heard("fan") = {} /\ "fan" \in Planning
  BY DEF Heard, Planning
<1> HIDE DEF s, PlanOK, Types
<1>10. /\ pc' = [pc EXCEPT ![r] = "fan"] /\ state' = [state EXCEPT ![r] = s]
       /\ prior' = [prior EXCEPT ![r] = Empty.val] /\ Checkpoint(r, s)
       /\ status' = status /\ aborts' = aborts
  BY DEF Invoke, s
<1>11. status' \in [Runs -> {"none", "ok", "degraded", "failed"}]
  BY <1>10 DEF PlanOK, Types, PlanTypeOK
<1> QED BY <1>4, <1>5, <1>6, <1>8, <1>9, <1>10, <1>11, Superstep

LEMMA JoinKeeps == ASSUME PlanOK, NEW r \in Runs, Join(r) PROVE PlanOK'
<1> DEFINE s == Merge(state[r], out[r])
<1>1. /\ state[r] \in States /\ pc[r] = "fan" /\ DOMAIN out[r] = Fan
      /\ \A a \in Agents : Untold(state[r], r, a)
  <2>1. state[r] \in States /\ pc[r] = "fan" /\ DOMAIN out[r] = Fan
    BY DEF Join, PlanOK, Types
  <2> QED BY <2>1 DEF PlanOK, Reports, Heard, Planning
<1>2. \A a \in Fan : OwnUpdate(r, state[r], a, out[r][a])
  BY DEF Join, PlanOK, Outs, FanUpdate
<1>3. ASSUME NEW a \in Fan
      PROVE  /\ Told(s, r, a) /\ s.val[a] \in Results
             /\ s.errors[a] \in 0 .. 1 /\ s.warnings[a] \in 0 .. 1
             /\ s.val[a].by \in {state[r].val[a].by, NoRun, r}
  <2>1. a \in Agents /\ a # "budget"
    BY DEF Agents, Fan
  <2> QED BY <1>1, <1>2, <2>1, MergedTold
<1>4. ASSUME NEW a \in Agents \ Fan
      PROVE  /\ s.val[a] = state[r].val[a] /\ s.errors[a] = state[r].errors[a]
             /\ s.warnings[a] = state[r].warnings[a]
  BY <1>1, MergedRest
<1> HIDE DEF s
<1>5. s \in States
  <2>1. \A a \in Agents : /\ s.val[a] \in Results
                          /\ s.errors[a] \in 0 .. 1 /\ s.warnings[a] \in 0 .. 1
    BY <1>1, <1>3, <1>4 DEF States
  <2> QED BY <1>1, <2>1, MergedIsState DEF s
<1>6. Heard("itinerary") = Fan /\ "itinerary" \in Planning
  BY DEF Heard, Planning
<1>7. \A a \in Agents : IF a \in Fan THEN Told(s, r, a) ELSE Untold(s, r, a)
  BY <1>1, <1>3, <1>4 DEF Untold
<1>8. \A a \in Agents, q \in Runs \ {r} :
         pc[q] \in {"idle", "seed"} => s.val[a].by # q
  BY <1>3, <1>4, PlanAssumption DEF PlanOK, Unborn
<1>9. /\ pc' = [pc EXCEPT ![r] = "itinerary"] /\ state' = [state EXCEPT ![r] = s]
      /\ out' = [out EXCEPT ![r] = Waits] /\ Checkpoint(r, s)
      /\ prior' = prior /\ status' = status /\ aborts' = aborts
  BY DEF Join, Waits, s
<1>10. status' \in [Runs -> {"none", "ok", "degraded", "failed"}]
  BY <1>9 DEF PlanOK, Types, PlanTypeOK
<1> QED BY <1>5, <1>6, <1>7, <1>8, <1>9, <1>10, Superstep

\* A superstep of one node a, whose update leaves what it tells.
LEMMA StepKeeps ==
    ASSUME PlanOK, NEW r \in Runs, NEW a \in {"itinerary", "budget"}, NEW next, NEW u,
           Step(r, a, next, u),
           <<a, next>> \in {<<"itinerary", "budget">>, <<"budget", "synthesize">>},
           Told(Merge(state[r], [x \in {a} |-> u]), r, a),
           Merge(state[r], [x \in {a} |-> u]).val[a] \in Results,
           Merge(state[r], [x \in {a} |-> u]).errors[a] \in 0 .. 1,
           Merge(state[r], [x \in {a} |-> u]).warnings[a] \in 0 .. 1,
           Merge(state[r], [x \in {a} |-> u]).val[a].by \in {state[r].val[a].by, NoRun, r},
           a = "budget" => Costed(Merge(state[r], [x \in {a} |-> u]))
    PROVE  PlanOK'
<1> DEFINE f == [x \in {a} |-> u]
           s == Merge(state[r], f)
<1>1. state[r] \in States /\ pc[r] = a /\ DOMAIN f = {a} /\ a \in Agents
  BY DEF Step, PlanOK, Types, Agents
<1>2. /\ Told(s, r, a) /\ s.val[a] \in Results
      /\ s.errors[a] \in 0 .. 1 /\ s.warnings[a] \in 0 .. 1
      /\ s.val[a].by \in {state[r].val[a].by, NoRun, r}
      /\ a = "budget" => Costed(s)
  OBVIOUS
<1>3. /\ pc' = [pc EXCEPT ![r] = next] /\ state' = [state EXCEPT ![r] = s]
      /\ Checkpoint(r, s)
      /\ prior' = prior /\ out' = out /\ status' = status /\ aborts' = aborts
  BY DEF Step
<1> HIDE DEF f
<1>4. \A b \in Agents : IF b \in Heard(a) THEN Told(state[r], r, b)
                                         ELSE Untold(state[r], r, b)
  BY <1>1 DEF PlanOK, Reports, Planning
<1>5. ASSUME NEW b \in Agents \ {a}
      PROVE  /\ s.val[b] = state[r].val[b] /\ s.errors[b] = state[r].errors[b]
             /\ s.warnings[b] = state[r].warnings[b]
  <2>1. b \notin DOMAIN f /\ b \in Agents
    BY <1>1
  <2> QED BY ONLY <1>1, <2>1, MergedRest DEF s
<1> HIDE DEF s
<1>6. s \in States
  <2>1. \A b \in Agents : /\ s.val[b] \in Results
                          /\ s.errors[b] \in 0 .. 1 /\ s.warnings[b] \in 0 .. 1
    BY <1>2, <1>1, <1>5 DEF States
  <2> QED BY <1>1, <2>1, MergedIsState DEF s
<1>7. Heard(next) = Heard(a) \cup {a} /\ a \notin Heard(a) /\ next \in Planning
  BY DEF Heard, Planning, Agents, Carried, Fan
<1>8. \A b \in Agents : IF b \in Heard(next) THEN Told(s, r, b) ELSE Untold(s, r, b)
  <2>2. \A b \in Agents \ {a} : IF b \in Heard(a) THEN Told(s, r, b) ELSE Untold(s, r, b)
    BY <1>4, <1>5 DEF Told, Untold, Missing
  <2> QED BY <1>2, <1>7, <2>2
<1>9. \A b \in Agents, q \in Runs \ {r} :
         pc[q] \in {"idle", "seed"} => s.val[b].by # q
  <2> SUFFICES ASSUME NEW b \in Agents, NEW q \in Runs \ {r}, pc[q] \in {"idle", "seed"}
               PROVE  s.val[b].by # q
    OBVIOUS
  <2>1. state[r].val[b].by # q
    BY DEF PlanOK, Unborn
  <2> QED BY <1>2, <1>5, <2>1, PlanAssumption
<1>10. status' \in [Runs -> {"none", "ok", "degraded", "failed"}]
  BY <1>3 DEF PlanOK, Types, PlanTypeOK
<1>11. out' = [out EXCEPT ![r] = Waits]
  <2>1. \A b \in Fan : out[r][b] = Waiting
    BY <1>1 DEF PlanOK, Outs
  <2>2. out \in [Runs -> [Fan -> Updates]]
    BY DEF PlanOK, Types
  <2>3. out[r] = Waits
    BY <2>1, <2>2 DEF Waits
  <2> QED BY <1>3, <2>2, <2>3
<1>12. next \in {"synthesize", "done"} => Costed(s)
  BY <1>2
<1> QED BY <1>6, <1>7, <1>8, <1>9, <1>3, <1>10, <1>11, <1>12, Superstep

LEMMA ItineraryKeeps == ASSUME PlanOK, NEW r \in Runs, Itinerary(r) PROVE PlanOK'
<1> DEFINE s == state[r]
<1>1. PICK u : Step(r, "itinerary", "budget", u) /\ OwnUpdate(r, s, "itinerary", u)
  <2>1. CASE Step(r, "itinerary", "budget", Failed)
    BY <2>1 DEF OwnUpdate
  <2>2. CASE Step(r, "itinerary", "budget", Skip) /\ AlreadyDone(s, "itinerary")
    BY <2>2 DEF OwnUpdate, AlreadyDone
  <2>3. ASSUME NEW flag \in Flags("itinerary"),
               Step(r, "itinerary", "budget", Done(Made(r, flag, ItinerarySources(s), FALSE)))
        PROVE  \E u : Step(r, "itinerary", "budget", u) /\ OwnUpdate(r, s, "itinerary", u)
    <3>1. flag \in BOOLEAN /\ ItinerarySources(s) \in Froms
      BY SourcesAreFroms DEF Flags, PlanOK, Types
    <3> QED BY <2>3, <3>1 DEF OwnUpdate
  <2> QED BY <2>1, <2>2, <2>3 DEF Itinerary
<1>2. s \in States /\ pc[r] = "itinerary"
  BY <1>1 DEF PlanOK, Types, Step
<1>3. Untold(s, r, "itinerary")
  BY <1>2 DEF PlanOK, Reports, Heard, Planning, Agents, Fan
<1> DEFINE f == [x \in {"itinerary"} |-> u]
<1>4. DOMAIN f = {"itinerary"} /\ f["itinerary"] = u /\ "itinerary" \in Agents
  BY DEF Agents
<1>5. /\ Told(Merge(s, f), r, "itinerary")
      /\ Merge(s, f).val["itinerary"] \in Results
      /\ Merge(s, f).errors["itinerary"] \in 0 .. 1
      /\ Merge(s, f).warnings["itinerary"] \in 0 .. 1
      /\ Merge(s, f).val["itinerary"].by \in {s.val["itinerary"].by, NoRun, r}
  <2> HIDE DEF f, s
  <2> QED BY <1>1, <1>2, <1>3, <1>4, MergedTold
<1> QED BY <1>1, <1>5, StepKeeps

\* The updates of the budget agent: the breakdown is by this run, with the
\* advice or with an error for it, or nothing has changed.
LEMMA BudgetKeeps == ASSUME PlanOK, NEW r \in Runs, Budget(r) PROVE PlanOK'
<1> DEFINE s == state[r]
           bd == Breakdown(s)
           Fresh(u) == \E flag, advised \in BOOLEAN :
                          /\ u.set /\ u.v = Made(r, flag, bd, advised)
                          /\ u.error = IF advised THEN 0 ELSE 1
                          /\ u.warning = IF flag THEN 1 ELSE 0
<1>1. PICK u : /\ Step(r, "budget", "synthesize", u)
               /\ (u = Skip /\ BudgetUnchanged(s)) \/ Fresh(u)
  <2>1. Flags("budget") \subseteq BOOLEAN
    BY DEF Flags
  <2>2. ASSUME NEW flag \in BOOLEAN
        PROVE  LET u == Done(Made(r, flag, bd, TRUE)) IN
               /\ u.set /\ u.v = Made(r, flag, bd, TRUE) /\ u.error = 0
               /\ u.warning = IF flag THEN 1 ELSE 0
    BY DEF Done, Update, Made
  <2>3. LET u == Update(Made(r, FALSE, bd, FALSE), 1, 0) IN
        u.set /\ u.v = Made(r, FALSE, bd, FALSE) /\ u.error = 1 /\ u.warning = 0
    BY DEF Update
  <2>4. CASE BudgetUnchanged(s)
    BY <2>4 DEF Budget
  <2>5. ASSUME NEW flag \in BOOLEAN,
               Step(r, "budget", "synthesize", Done(Made(r, flag, bd, TRUE)))
        PROVE  Step(r, "budget", "synthesize", Done(Made(r, flag, bd, TRUE)))
               /\ Fresh(Done(Made(r, flag, bd, TRUE)))
    BY <2>2, <2>5
  <2>6. CASE Step(r, "budget", "synthesize", Update(Made(r, FALSE, bd, FALSE), 1, 0))
    BY <2>3, <2>6
  <2> QED BY <2>1, <2>4, <2>5, <2>6 DEF Budget
<1>2. s \in States /\ pc[r] = "budget" /\ bd \in Froms
  BY <1>1, SourcesAreFroms DEF PlanOK, Types, Step
<1>3. Untold(s, r, "budget") /\ s.val["budget"] \in Results
  BY <1>2 DEF PlanOK, Reports, Heard, Planning, Agents, Carried, Fan, States
<1> DEFINE f == [x \in {"budget"} |-> u]
           m == Merge(s, f)
<1>4. /\ m.val["budget"] = IF u.set THEN u.v ELSE s.val["budget"]
      /\ m.errors["budget"] = 0 + u.error
      /\ m.warnings["budget"] = 0 + u.warning
      /\ \A a \in Agents \ {"budget"} : m.val[a] = s.val[a]
  <2>1. DOMAIN f = {"budget"} /\ f["budget"] = u /\ "budget" \in Agents
    BY DEF Agents
  <2> HIDE DEF f, s
  <2> QED BY <1>2, <1>3, <2>1, Merged, MergedRest DEF Untold
<1>5. Breakdown(m) = bd
  <2>1. {"flight", "hotels", "itinerary"} \subseteq Agents \ {"budget"}
    BY DEF Agents, Fan
  <2> HIDE DEF m, s
  <2> QED BY <1>4, <2>1 DEF Breakdown, bd
<1> HIDE DEF m, s, bd, f
<1>6. ASSUME NEW flag \in BOOLEAN, NEW advised \in BOOLEAN,
             m.val["budget"] = Made(r, flag, bd, advised),
             m.errors["budget"] = IF advised THEN 0 ELSE 1,
             m.warnings["budget"] = IF flag THEN 1 ELSE 0
      PROVE  /\ Told(m, r, "budget") /\ Costed(m)
             /\ m.val["budget"] \in Results
             /\ m.errors["budget"] \in 0 .. 1 /\ m.warnings["budget"] \in 0 .. 1
             /\ m.val["budget"].by \in {s.val["budget"].by, NoRun, r}
  <2> DEFINE v == Made(r, flag, bd, advised)
  <2>1. v \in Results /\ v.by = r /\ v.flagged = flag /\ v.from = bd /\ v.advice = advised
    BY <1>2, MadeIsResult
  <2> HIDE DEF v
  <2>2. m.val["budget"] = v
    BY <1>6 DEF v
  <2> QED BY <1>5, <1>6, <2>1, <2>2, PlanAssumption DEF Told, Costed, Missing
<1>7. /\ Told(m, r, "budget") /\ Costed(m)
      /\ m.val["budget"] \in Results
      /\ m.errors["budget"] \in 0 .. 1 /\ m.warnings["budget"] \in 0 .. 1
      /\ m.val["budget"].by \in {s.val["budget"].by, NoRun, r}
  <2>1. CASE u = Skip /\ BudgetUnchanged(s)
    <3>1. m.val["budget"] = s.val["budget"] /\ m.errors["budget"] = 0 /\ m.warnings["budget"] = 0
      BY <1>4, <2>1 DEF Skip
    <3> QED BY <1>3, <1>5, <2>1, <3>1 DEF BudgetUnchanged, Told, Untold, Costed, Missing, bd
  <2>2. ASSUME NEW flag \in BOOLEAN, NEW advised \in BOOLEAN,
               u.set, u.v = Made(r, flag, bd, advised),
               u.error = IF advised THEN 0 ELSE 1, u.warning = IF flag THEN 1 ELSE 0
        PROVE  /\ Told(m, r, "budget") /\ Costed(m)
               /\ m.val["budget"] \in Results
               /\ m.errors["budget"] \in 0 .. 1 /\ m.warnings["budget"] \in 0 .. 1
               /\ m.val["budget"].by \in {s.val["budget"].by, NoRun, r}
    BY <1>4, <1>6, <2>2
  <2> QED BY <1>1, <2>1, <2>2
<1> QED BY <1>1, <1>7, StepKeeps DEF m, f, s

LEMMA SynthesizeKeeps == ASSUME PlanOK, NEW r \in Runs, Synthesize(r) PROVE PlanOK'
<1>1. state[r] \in States /\ pc[r] = "synthesize" /\ "done" \in Planning
  BY DEF PlanOK, Types, Synthesize, Planning
<1>2. /\ \A a \in Agents : IF a \in Heard("done") THEN Told(state[r], r, a)
                                                   ELSE Untold(state[r], r, a)
      /\ Costed(state[r])
  BY <1>1 DEF PlanOK, Reports, Heard, Planning, Costs
<1>3. \A a \in Agents, q \in Runs \ {r} :
         pc[q] \in {"idle", "seed"} => state[r].val[a].by # q
  BY DEF PlanOK, Unborn
<1>4. out' = [out EXCEPT ![r] = Waits] /\ state' = [state EXCEPT ![r] = state[r]]
  <2>1. \A b \in Fan : out[r][b] = Waiting
    BY <1>1 DEF PlanOK, Outs
  <2>2. out \in [Runs -> [Fan -> Updates]] /\ state \in [Runs -> States]
    BY DEF PlanOK, Types
  <2>3. out[r] = Waits
    BY <2>1, <2>2 DEF Waits
  <2> QED BY <2>2, <2>3 DEF Synthesize
<1>5. status' \in [Runs -> {"none", "ok", "degraded", "failed"}]
  BY DEF PlanOK, Types, PlanTypeOK, Synthesize, PlanStatus
<1>6. /\ pc' = [pc EXCEPT ![r] = "done"] /\ prior' = prior /\ aborts' = aborts
      /\ Checkpoint(r, state[r])
  BY DEF Synthesize
<1> QED BY <1>1, <1>2, <1>3, <1>4, <1>5, <1>6, Superstep

LEMMA AbortKeeps == ASSUME PlanOK, NEW r \in Runs, Abort(r) PROVE PlanOK'
<1> USE DEF PlanOK, Types
<1> DEFINE returned == {a \in Fan : out[r][a].set /\ out[r][a].v.by # NoRun}
<1>1. PICK kept \in SUBSET returned :
         saved' = [saved EXCEPT !.val =
                      [a \in Agents |-> IF a \in kept THEN out[r][a].v ELSE @[a]]]
  BY DEF Abort
<1>2. \A a \in returned : /\ a \in Fan /\ pc[r] = "fan"
                          /\ out[r][a].v \in Results /\ out[r][a].v.by = r
  BY Quiets, OwnIsUpdate DEF Outs, FanUpdate, Updates
<1>3. /\ saved' \in States
      /\ \A a \in Agents : saved'.val[a] = IF a \in kept THEN out[r][a].v ELSE saved.val[a]
  <2>1. saved \in States
    BY DEF PlanTypeOK
  <2> HIDE DEF PlanOK, Types
  <2>2. saved' = [val |-> [a \in Agents |-> IF a \in kept THEN out[r][a].v ELSE saved.val[a]],
                  errors |-> saved.errors, warnings |-> saved.warnings]
    BY <1>1, <2>1 DEF States
  <2>3. \A a \in Agents : (IF a \in kept THEN out[r][a].v ELSE saved.val[a]) \in Results
    BY <1>2, <2>1 DEF States
  <2> HIDE DEF returned
  <2> QED BY <2>1, <2>2, <2>3 DEF States
<1> HIDE DEF returned
<1>4. /\ pc' = [pc EXCEPT ![r] = "aborted"] /\ out' = [out EXCEPT ![r] = Waits]
      /\ aborts' = aborts + 1 /\ aborts < MaxAborts
      /\ UNCHANGED <<prior, state, status, owner>>
  BY DEF Abort, Waits
<1>5. Types'
  <2>1. pc' \in [Runs -> Steps] /\ aborts' \in 0 .. MaxAborts
    BY <1>4, PlanAssumption DEF PlanTypeOK, Steps
  <2>2. out' \in [Runs -> [Fan -> Updates]]
    BY <1>4, Quiets DEF Waits
  <2> QED BY <1>3, <1>4, <2>1, <2>2 DEF PlanTypeOK, Steps
<1>6. /\ pc'[r] = "aborted" /\ \A a \in Fan : out'[r][a] = Waiting
      /\ \A q \in Runs \ {r} : pc'[q] = pc[q] /\ out'[q] = out[q]
  BY <1>4 DEF PlanTypeOK, Waits
<1>7. Reports' /\ Costs'
  BY <1>4, <1>6 DEF Reports, Costs, Planning
<1>8. Outs'
  BY <1>4, <1>6 DEF Outs
<1>9. Unborn'
  <2> SUFFICES ASSUME NEW p \in Runs, pc'[p] \in {"idle", "seed"}, NEW a \in Agents
               PROVE  /\ saved'.val[a].by # p
                      /\ \A q \in Runs : prior'[q][a].by # p /\ state'[q].val[a].by # p
    BY DEF Unborn
  <2>1. p # r /\ pc[p] \in {"idle", "seed"}
    BY <1>6
  <2>2. saved.val[a].by # p
    BY <2>1 DEF Unborn
  <2>3. a \in kept => out[r][a].v.by # p
    BY <1>1, <1>2, <2>1
  <2>4. saved'.val[a].by # p
    BY <1>3, <2>2, <2>3
  <2> QED BY <1>4, <2>1, <2>4 DEF Unborn
<1> QED BY <1>5, <1>7, <1>8, <1>9

LEMMA PlanStart == Init => PlanOK
<1> SUFFICES ASSUME Init PROVE PlanOK
  OBVIOUS
<1> USE DEF Init
<1>1. Types
  BY Quiets, PlanAssumption DEF Types, PlanTypeOK, States, Producers
<1>2. Reports /\ Outs /\ Costs
  BY DEF Reports, Outs, Costs, Planning
<1>3. Unborn
  BY Quiets, PlanAssumption DEF Unborn, Empty
<1> QED BY <1>1, <1>2, <1>3 DEF PlanOK

LEMMA PlanKeeps == PlanOK /\ [Next]_vars => PlanOK'
<1> SUFFICES ASSUME PlanOK, [Next]_vars PROVE PlanOK'
  OBVIOUS
<1>1. CASE UNCHANGED vars
  BY <1>1 DEF vars, runVars, PlanOK, Types, PlanTypeOK, Reports, Outs, Unborn, Costs
<1>2. ASSUME NEW r \in Runs, RunStep(r) \/ Abort(r) PROVE PlanOK'
  BY <1>2, ReadPriorKeeps, InvokeKeeps, AgentKeeps, JoinKeeps, ItineraryKeeps, BudgetKeeps,
     SynthesizeKeeps, AbortKeeps DEF RunStep
<1> QED BY <1>1, <1>2 DEF Next

LEMMA PlanHolds == Spec => []PlanOK
BY PlanStart, PlanKeeps, PTL DEF Spec

\* Every channel has its type and no message is reported twice, however the
\* runs of a trip overlap and are killed.
THEOREM PlanTyping == Spec => []PlanTypeOK
<1>1. PlanOK => PlanTypeOK
  BY DEF PlanOK, Types
<1> QED BY <1>1, PlanHolds, PTL

\* A finished plan reports what happened in its own run, one error for each
\* gap and one warning for each finding, whatever other runs of the trip do.
THEOREM PlansReportTheirRun == Spec => []ReportsThisRun
<1>1. PlanOK => ReportsThisRun
  <2> SUFFICES ASSUME PlanOK, NEW r \in Runs, pc[r] = "done"
               PROVE  \A a \in Agents : Told(state[r], r, a)
    BY DEF ReportsThisRun, Told, Agents
  <2> QED BY DEF PlanOK, Reports, Heard, Planning
<1> QED BY <1>1, PlanHolds, PTL

\* A finished plan shows a budget of the results that it shows.
THEOREM BudgetsAreCurrent == Spec => []BudgetIsCurrent
<1>1. PlanOK => BudgetIsCurrent
  BY DEF PlanOK, Costs, Costed, BudgetIsCurrent
<1> QED BY <1>1, PlanHolds, PTL

----------------------------------------------------------------------------
(* What a run has made itself, and the plans made without the checkpoint,  *)
(* however the runs overlap.                                               *)

Own(r, v) == v = NoResult \/ v.by = r

\* What a superstep of run r writes is its own.
OwnWrites(r, u) == u.set => Own(r, u.v)

SawSources(s, r) ==
    s.val["itinerary"].by = r => s.val["itinerary"].from = ItinerarySources(s)

FreshRun(r) ==
    /\ pc[r] \in {"budget", "synthesize", "done"} => SawSources(state[r], r)
    /\ r \in Forgetful =>
          /\ prior[r] = Empty.val
          /\ pc[r] \in Planning => \A a \in Agents : Own(r, state[r].val[a])

Fresh == \A r \in Runs : FreshRun(r)

LEMMA OwnUpdatesWriteOwn ==
    ASSUME NEW r \in Runs, NEW s, NEW a, NEW u, OwnUpdate(r, s, a, u)
    PROVE  OwnWrites(r, u)
<1>1. CASE u = Skip
  BY <1>1, Quiets DEF OwnWrites
<1>2. CASE u = Failed
  BY <1>2 DEF OwnWrites, Own, Failed, Update
<1>3. CASE \E flag, advised \in BOOLEAN, from \in Froms : u = Done(Made(r, flag, from, advised))
  BY <1>3, MadeIsResult, DoneIsUpdate DEF OwnWrites, Own
<1> QED BY <1>1, <1>2, <1>3 DEF OwnUpdate

LEMMA MergedOwn ==
    ASSUME NEW r \in Runs, NEW s \in States, NEW f, NEW a \in Agents,
           a \in DOMAIN f => OwnWrites(r, f[a]),
           Own(r, s.val[a])
    PROVE  Own(r, Merge(s, f).val[a])
BY Merged DEF OwnWrites

LEMMA ItineraryWritesOwn ==
    ASSUME NEW r \in Runs, Itinerary(r)
    PROVE  \E u : Step(r, "itinerary", "budget", u) /\ OwnWrites(r, u)
<1>1. OwnWrites(r, Failed) /\ OwnWrites(r, Skip)
  BY Quiets DEF OwnWrites, Own, Failed, Update
<1>2. ASSUME NEW flag, NEW from PROVE OwnWrites(r, Done(Made(r, flag, from, FALSE)))
  BY DEF OwnWrites, Own, Update, Done, Made
<1> QED BY <1>1, <1>2 DEF Itinerary

LEMMA BudgetWritesOwn ==
    ASSUME NEW r \in Runs, Budget(r)
    PROVE  \E u : Step(r, "budget", "synthesize", u) /\ OwnWrites(r, u)
<1>1. ASSUME NEW flag, NEW advised, NEW from, NEW e, NEW w
      PROVE  /\ OwnWrites(r, Update(Made(r, flag, from, advised), e, w))
             /\ OwnWrites(r, Done(Made(r, flag, from, advised)))
  BY DEF OwnWrites, Own, Update, Done, Made
<1>2. OwnWrites(r, Skip)
  BY Quiets DEF OwnWrites
<1> QED BY <1>1, <1>2 DEF Budget

\* A step of one run leaves what the others hold.
LEMMA OthersUntouched ==
    ASSUME PlanOK, NEW r \in Runs, RunStep(r) \/ Abort(r), NEW q \in Runs \ {r}
    PROVE  pc'[q] = pc[q] /\ state'[q] = state[q] /\ prior'[q] = prior[q]
<1>1. /\ pc \in [Runs -> Steps] /\ state \in [Runs -> States]
      /\ prior \in [Runs -> [Agents -> Results]]
  BY DEF PlanOK, Types, PlanTypeOK, Steps
<1>2. CASE ReadPrior(r) \/ Invoke(r) \/ (\E a \in Fan : Agent(r, a))
  BY <1>1, <1>2 DEF ReadPrior, Invoke, Agent
<1>3. CASE Join(r) \/ Synthesize(r) \/ Abort(r)
  BY <1>1, <1>3 DEF Join, Synthesize, Abort
<1>4. CASE Itinerary(r) \/ Budget(r)
  BY <1>1, <1>4 DEF Itinerary, Budget, Step
<1> QED BY <1>2, <1>3, <1>4 DEF RunStep

LEMMA InvokeFresh == ASSUME PlanOK, NEW r \in Runs, FreshRun(r), Invoke(r) PROVE FreshRun(r)'
<1>1. /\ pc'[r] = "fan" /\ prior'[r] = Empty.val /\ state'[r].val = Seeded(r).val
  BY DEF Invoke, PlanOK, Types, PlanTypeOK
<1>2. ASSUME r \in Forgetful, NEW a \in Agents PROVE Seeded(r).val[a] = NoResult
  <2>1. prior[r] = Empty.val
    BY <1>2 DEF FreshRun
  <2> QED BY <1>2, <2>1 DEF Seeded, Empty
<1> QED BY <1>1, <1>2 DEF FreshRun, Own

LEMMA JoinFresh == ASSUME PlanOK, NEW r \in Runs, FreshRun(r), Join(r) PROVE FreshRun(r)'
<1> DEFINE s == Merge(state[r], out[r])
<1>1. /\ pc[r] = "fan" /\ pc'[r] = "itinerary" /\ prior' = prior /\ state'[r] = s
      /\ state[r] \in States /\ DOMAIN out[r] = Fan
  BY DEF Join, PlanOK, Types, PlanTypeOK
<1>2. \A a \in Fan : OwnWrites(r, out[r][a])
  BY OwnUpdatesWriteOwn DEF Join, PlanOK, Outs, FanUpdate
<1>3. r \in Forgetful => \A a \in Agents : Own(r, state[r].val[a])
  BY <1>1 DEF FreshRun, Planning
<1>4. r \in Forgetful => \A a \in Agents : Own(r, s.val[a])
  <2> HIDE DEF s
  <2> QED BY <1>1, <1>2, <1>3, MergedOwn DEF s
<1> HIDE DEF s
<1> QED BY <1>1, <1>4 DEF FreshRun

\* A superstep of one node writes the run's own result or nothing.
LEMMA StepFresh ==
    ASSUME PlanOK, NEW r \in Runs, FreshRun(r), NEW a \in {"itinerary", "budget"},
           NEW next \in {"budget", "synthesize"}, NEW u,
           Step(r, a, next, u), OwnWrites(r, u),
           SawSources(Merge(state[r], [x \in {a} |-> u]), r)
    PROVE  FreshRun(r)'
<1> DEFINE f == [x \in {a} |-> u]
           s == Merge(state[r], f)
<1>1. /\ pc[r] = a /\ pc'[r] = next /\ prior' = prior /\ state'[r] = s
      /\ state[r] \in States /\ DOMAIN f = {a} /\ f[a] = u
  BY DEF Step, PlanOK, Types, PlanTypeOK
<1>2. SawSources(s, r)
  OBVIOUS
<1> HIDE DEF f
<1>3. r \in Forgetful => \A b \in Agents : Own(r, state[r].val[b])
  BY <1>1 DEF FreshRun, Planning
<1>4. r \in Forgetful => \A b \in Agents : Own(r, s.val[b])
  <2> HIDE DEF s
  <2> QED BY <1>1, <1>3, MergedOwn DEF s
<1> HIDE DEF s
<1> QED BY <1>1, <1>2, <1>4 DEF FreshRun

\* An itinerary that this step makes is built from what the channels hold, and
\* one that it finds is by another run.
LEMMA ItineraryFresh ==
    ASSUME PlanOK, NEW r \in Runs, FreshRun(r), Itinerary(r) PROVE FreshRun(r)'
<1> DEFINE s == state[r]
           f(u) == [x \in {"itinerary"} |-> u]
           m(u) == Merge(s, f(u))
<1>1. s \in States /\ pc[r] = "itinerary"
  BY DEF PlanOK, Types, Itinerary, Step
<1>2. s.val["itinerary"].by # r
  BY <1>1 DEF PlanOK, Reports, Heard, Planning, Agents, Fan, Untold
<1>3. ASSUME NEW u
      PROVE  /\ m(u).val["itinerary"] = IF u.set THEN u.v ELSE s.val["itinerary"]
             /\ ItinerarySources(m(u)) = ItinerarySources(s)
  <2>1. /\ DOMAIN f(u) = {"itinerary"} /\ f(u)["itinerary"] = u
        /\ "itinerary" \in Agents
        /\ "places" \in Agents \ {"itinerary"} /\ "weather" \in Agents \ {"itinerary"}
    BY DEF Agents, Fan
  <2> HIDE DEF f, s
  <2>2. m(u).val["itinerary"] = IF u.set THEN u.v ELSE s.val["itinerary"]
    BY <1>1, <2>1, Merged
  <2>3. m(u).val["places"] = s.val["places"] /\ m(u).val["weather"] = s.val["weather"]
    BY <1>1, <2>1, MergedRest
  <2> HIDE DEF m
  <2> QED BY <2>2, <2>3 DEF ItinerarySources
<1> HIDE DEF m
<1>4. CASE Step(r, "itinerary", "budget", Failed)
  <2>1. Failed.set /\ Failed.v = NoResult /\ NoResult.by # r
    BY Quiets, PlanAssumption DEF Failed, Update
  <2>2. SawSources(m(Failed), r) /\ OwnWrites(r, Failed)
    BY <1>3, <2>1 DEF SawSources, OwnWrites, Own
  <2> QED BY <1>4, <2>2, StepFresh DEF m
<1>5. CASE Step(r, "itinerary", "budget", Skip)
  <2>1. SawSources(m(Skip), r) /\ OwnWrites(r, Skip)
    BY <1>2, <1>3, Quiets DEF SawSources, OwnWrites
  <2> QED BY <1>5, <2>1, StepFresh DEF m
<1>6. ASSUME NEW flag \in Flags("itinerary"),
             Step(r, "itinerary", "budget", Done(Made(r, flag, ItinerarySources(s), FALSE)))
      PROVE  FreshRun(r)'
  <2> DEFINE v == Made(r, flag, ItinerarySources(s), FALSE)
             u == Done(v)
  <2>1. v \in Results /\ v.by = r /\ v.from = ItinerarySources(s)
    <3>1. flag \in BOOLEAN
      BY DEF Flags
    <3>2. ItinerarySources(s) \in Froms
      BY <1>1, SourcesAreFroms
    <3> QED BY <3>1, <3>2, MadeIsResult
  <2> HIDE DEF v
  <2>2. u.set /\ u.v = v
    BY <2>1, DoneIsUpdate
  <2>3. Step(r, "itinerary", "budget", u)
    BY <1>6 DEF v
  <2> HIDE DEF u
  <2>4. SawSources(m(u), r) /\ OwnWrites(r, u)
    BY <1>3, <2>1, <2>2 DEF SawSources, OwnWrites, Own
  <2> QED BY <2>3, <2>4, StepFresh DEF m
<1> QED BY <1>4, <1>5, <1>6 DEF Itinerary

LEMMA BudgetFresh == ASSUME PlanOK, NEW r \in Runs, FreshRun(r), Budget(r) PROVE FreshRun(r)'
<1> DEFINE s == state[r]
<1>1. PICK u : Step(r, "budget", "synthesize", u) /\ OwnWrites(r, u)
  BY BudgetWritesOwn
<1>2. s \in States /\ pc[r] = "budget"
  BY <1>1 DEF PlanOK, Types, Step
<1> DEFINE f == [x \in {"budget"} |-> u]
           m == Merge(s, f)
<1>3. \A a \in {"itinerary", "places", "weather"} : m.val[a] = s.val[a]
  <2>1. DOMAIN f = {"budget"} /\ {"itinerary", "places", "weather"} \subseteq Agents \ {"budget"}
    BY DEF Agents, Fan
  <2> HIDE DEF f, s
  <2> QED BY <1>2, <2>1, MergedRest
<1>4. SawSources(s, r)
  BY <1>2 DEF FreshRun
<1>5. SawSources(m, r)
  <2> HIDE DEF m, s
  <2> QED BY <1>3, <1>4 DEF SawSources, ItinerarySources
<1> QED BY <1>1, <1>5, StepFresh

LEMMA StepKeepsFresh == PlanOK /\ Fresh /\ [Next]_vars => Fresh'
<1> SUFFICES ASSUME PlanOK, Fresh, [Next]_vars PROVE Fresh'
  OBVIOUS
<1>1. CASE UNCHANGED vars
  BY <1>1 DEF vars, runVars, Fresh, FreshRun, SawSources, Own
<1>2. ASSUME NEW r \in Runs, RunStep(r) \/ Abort(r) PROVE Fresh'
  <2>1. FreshRun(r)
    BY DEF Fresh
  <2>2. ASSUME NEW q \in Runs \ {r} PROVE FreshRun(q)'
    <3>1. FreshRun(q)
      BY DEF Fresh
    <3>2. pc'[q] = pc[q] /\ state'[q] = state[q] /\ prior'[q] = prior[q]
      BY <1>2, OthersUntouched
    <3> QED BY <3>1, <3>2 DEF FreshRun
  <2>3. FreshRun(r)'
    <3>1. CASE ReadPrior(r)
      <4>1. /\ pc'[r] = "seed" /\ state' = state
            /\ r \in Forgetful => prior'[r] = Empty.val
        BY <3>1 DEF ReadPrior, PlanOK, Types, PlanTypeOK
      <4> QED BY <4>1 DEF FreshRun, Planning
    <3>2. CASE \E a \in Fan : Agent(r, a)
      BY <2>1, <3>2 DEF Agent, FreshRun
    <3>3. CASE Synthesize(r)
      <4>1. /\ pc[r] = "synthesize" /\ pc'[r] = "done" /\ state' = state /\ prior' = prior
        BY <3>3 DEF Synthesize, PlanOK, Types, PlanTypeOK
      <4> QED BY <2>1, <4>1 DEF FreshRun, Planning
    <3>4. CASE Abort(r)
      <4>1. pc'[r] = "aborted" /\ state' = state /\ prior' = prior
        BY <3>4 DEF Abort, PlanOK, Types, PlanTypeOK
      <4> QED BY <2>1, <4>1 DEF FreshRun, Planning
    <3> QED BY <1>2, <2>1, <3>1, <3>2, <3>3, <3>4, InvokeFresh, JoinFresh, ItineraryFresh,
              BudgetFresh DEF RunStep
  <2> QED BY <2>2, <2>3 DEF Fresh
<1> QED BY <1>1, <1>2 DEF Next

LEMMA StartFresh == Init => Fresh
BY DEF Init, Fresh, FreshRun, Planning

\* An itinerary was built from the places and the outlook that the plan of the
\* run which made it shows, and a plan made with remember=False is all of its
\* run and reports every finding about what it shows.
THEOREM FreshPlansAlwaysWhole == Spec => []FreshPlansAreWhole
<1>1. PlanOK /\ Fresh => FreshPlansAreWhole
  <2> SUFFICES ASSUME PlanOK, Fresh, NEW r \in Runs, pc[r] = "done"
               PROVE  /\ SawSources(state[r], r)
                      /\ r \in Forgetful =>
                            \A a \in Agents :
                               /\ state[r].val[a].by \in {r, NoRun}
                               /\ state[r].val[a].flagged => state[r].warnings[a] = 1
    BY DEF FreshPlansAreWhole, SawSources
  <2>1. \A a \in Agents : Told(state[r], r, a)
    BY DEF PlanOK, Reports, Heard, Planning
  <2>2. NoResult.by = NoRun /\ ~NoResult.flagged
    BY DEF NoResult
  <2> QED BY <2>1, <2>2 DEF Fresh, FreshRun, Own, Told, Planning
<1> QED BY <1>1, StartFresh, StepKeepsFresh, PlanHolds, PTL DEF Spec

----------------------------------------------------------------------------
(* Runs one after the other.  A run that remembers has, in its channels,   *)
(* what the checkpoint holds.                                              *)

Updating == {"fan", "itinerary", "budget", "synthesize"}

Alone == \A p, q \in Runs : InProgress(p) /\ InProgress(q) => p = q

InStep ==
    \A r \in Runs :
        /\ pc[r] = "seed" => prior[r] = IF r \in Forgetful THEN Empty.val ELSE saved.val
        /\ pc[r] \in Updating /\ r \notin Forgetful => state[r].val = saved.val

OneByOne == Alone /\ InStep /\ owner \notin Forgetful /\ ItineraryGrounded

\* A result in s is in t as well.
Kept(s, t) == \A a \in Carried : ~Missing(s, a) => t.val[a] = s.val[a]

LEMMA FanKeepsResults ==
    ASSUME NEW r \in Runs, NEW s \in States, NEW f, DOMAIN f = Fan, Grounded(s),
           \A a \in Fan : FanUpdate(r, s, a, f[a])
    PROVE  Grounded(Merge(s, f)) /\ Kept(s, Merge(s, f))
<1> DEFINE m == Merge(s, f)
<1>1. \A a \in Fan : ~Missing(s, a) => m.val[a] = s.val[a]
  BY Merged DEF FanUpdate, Agents
<1>2. m.val["itinerary"] = s.val["itinerary"]
  BY MergedRest DEF Agents, Fan
<1> HIDE DEF m
<1>3. Kept(s, m)
  BY <1>1, <1>2 DEF Kept, Carried
<1>4. Grounded(m)
  BY <1>1, <1>2 DEF Grounded, Missing, Fan
<1> QED BY <1>3, <1>4 DEF m

\* The itinerary agent fails an itinerary that exists only when something it
\* needs is missing, which a grounded one excludes.
LEMMA ItineraryKeepsResults ==
    ASSUME PlanOK, NEW r \in Runs, Itinerary(r), Grounded(state[r])
    PROVE  /\ Grounded(state'[r]) /\ Kept(state[r], state'[r])
           /\ state'[r] \in States /\ Checkpoint(r, state'[r])
<1> DEFINE s == state[r]
<1>0. s \in States /\ state'[r] \in States
  BY PlanKeeps DEF PlanOK, Types, Next, RunStep
<1>1. PICK u : /\ Step(r, "itinerary", "budget", u)
               /\ \/ u.set /\ u.v = NoResult /\ Missing(s, "itinerary")
                  \/ ~u.set
                  \/ /\ u.set /\ Missing(s, "itinerary") /\ ~BlockedByFailure(s)
                     /\ u.v.from = ItinerarySources(s)
  <2>1. Failed.set /\ Failed.v = NoResult /\ ~Skip.set
    BY DEF Failed, Update, Skip
  <2>2. BlockedByFailure(s) => Missing(s, "itinerary")
    BY DEF Grounded, BlockedByFailure, Upstream
  <2>3. ASSUME NEW flag \in Flags("itinerary")
        PROVE  LET u == Done(Made(r, flag, ItinerarySources(s), FALSE)) IN
               u.set /\ u.v.from = ItinerarySources(s)
    BY DEF Done, Update, Made
  <2> QED BY <2>1, <2>2, <2>3 DEF Itinerary, AlreadyDone
<1> DEFINE f == [x \in {"itinerary"} |-> u]
           m == Merge(s, f)
<1>2. /\ m.val["itinerary"] = IF u.set THEN u.v ELSE s.val["itinerary"]
      /\ \A a \in Agents \ {"itinerary"} : m.val[a] = s.val[a]
  <2>1. DOMAIN f = {"itinerary"} /\ f["itinerary"] = u /\ "itinerary" \in Agents
    BY DEF Agents
  <2> HIDE DEF f, s
  <2> QED BY <1>0, <2>1, Merged, MergedRest
<1>3. state'[r] = m /\ Checkpoint(r, m)
  BY <1>1 DEF Step, PlanOK, Types
<1>4. s.val["itinerary"].by \in Producers
  BY <1>0 DEF States, Results, Agents
<1> HIDE DEF m, s
<1>5. /\ Kept(s, m)
      /\ \A a \in Fan : m.val[a] = s.val[a]
  BY <1>1, <1>2 DEF Kept, Carried, Agents, Fan, Missing
<1>6. Grounded(m)
  <2>1. CASE u.set /\ u.v = NoResult
    BY <1>2, <2>1, Quiets DEF Grounded, Missing
  <2>2. CASE ~u.set
    <3>1. Grounded(s)
      BY DEF s
    <3> QED BY <1>2, <1>5, <2>2, <3>1 DEF Grounded, Missing, Fan
  <2>3. CASE u.set /\ ~BlockedByFailure(s) /\ u.v.from = ItinerarySources(s)
    <3>1. u.v.from[1] = s.val["places"].by
      BY <2>3 DEF ItinerarySources
    <3> QED BY <1>2, <1>5, <2>3, <3>1 DEF Grounded, Missing, Fan, BlockedByFailure, Upstream
  <2> QED BY <1>1, <2>1, <2>2, <2>3
<1> QED BY <1>0, <1>3, <1>5, <1>6 DEF s

LEMMA BudgetKeepsResults ==
    ASSUME PlanOK, NEW r \in Runs, Budget(r), Grounded(state[r])
    PROVE  /\ Grounded(state'[r]) /\ Kept(state[r], state'[r])
           /\ state'[r] \in States /\ Checkpoint(r, state'[r])
<1> DEFINE s == state[r]
<1>1. PICK u : Step(r, "budget", "synthesize", u)
  BY DEF Budget
<1> DEFINE f == [x \in {"budget"} |-> u]
           m == Merge(s, f)
<1>2. s \in States /\ state'[r] \in States
  BY PlanKeeps DEF PlanOK, Types, Next, RunStep
<1>3. \A a \in Carried : m.val[a] = s.val[a]
  <2>1. DOMAIN f = {"budget"} /\ Carried \subseteq Agents \ {"budget"}
    BY DEF Agents, Carried, Fan
  <2> HIDE DEF f, s
  <2> QED BY <1>2, <2>1, MergedRest
<1>4. state'[r] = m /\ Checkpoint(r, m)
  BY <1>1 DEF Step, PlanOK, Types
<1> HIDE DEF m
<1>5. Grounded(m) /\ Kept(s, m)
  BY <1>3 DEF Grounded, Kept, Missing, Carried, Fan
<1> QED BY <1>2, <1>4, <1>5

\* Run r, the only one in progress, writes channels s that hold what it had.
LEMMA WriteOneByOne ==
    ASSUME PlanOK, OneByOne, NEW r \in Runs, NEW s \in States, NEW next \in Planning,
           InProgress(r),
           pc' = [pc EXCEPT ![r] = next],
           state' = [state EXCEPT ![r] = s],
           prior' \in {prior, [prior EXCEPT ![r] = Empty.val]},
           Checkpoint(r, s), Grounded(s)
    PROVE  OneByOne'
<1>1. /\ pc \in [Runs -> Steps] /\ state \in [Runs -> States]
      /\ prior \in [Runs -> [Agents -> Results]]
  BY DEF PlanOK, Types, PlanTypeOK, Steps
<1>2. /\ pc'[r] = next /\ state'[r] = s
      /\ \A q \in Runs \ {r} : pc'[q] = pc[q] /\ state'[q] = state[q] /\ prior'[q] = prior[q]
  BY <1>1
<1>3. \A q \in Runs \ {r} : ~InProgress(q) /\ pc[q] \notin {"seed"} \cup Updating
  BY DEF OneByOne, Alone, InProgress, Updating
<1>4. Alone'
  BY <1>2, <1>3 DEF Alone, InProgress
<1>5. InStep'
  <2>1. next # "seed"
    BY DEF Planning
  <2>2. r \notin Forgetful => saved' = s
    BY DEF Checkpoint
  <2> QED BY <1>2, <1>3, <2>1, <2>2 DEF InStep
<1>6. (owner \notin Forgetful)' /\ ItineraryGrounded'
  <2>1. saved' \in {saved, s}
    BY DEF Checkpoint
  <2>2. owner' \notin Forgetful
    BY DEF Checkpoint, OneByOne
  <2>3. Grounded(saved')
    BY <2>1 DEF OneByOne, ItineraryGrounded
  <2>4. \A q \in Runs : Grounded(state'[q])
    BY <1>2 DEF OneByOne, ItineraryGrounded
  <2> QED BY <2>2, <2>3, <2>4 DEF ItineraryGrounded, Grounded, Missing
<1> QED BY <1>4, <1>5, <1>6 DEF OneByOne

\* The step of NoResultLost.
KeepsCheckpoint == \A a \in Carried : ~Missing(saved, a) => saved'.val[a] = saved.val[a]

LEMMA UpdateOneByOne ==
    ASSUME PlanOK, OneByOne, NEW r \in Runs, pc[r] \in Updating,
           NEW s \in States, NEW next \in Planning,
           pc' = [pc EXCEPT ![r] = next],
           state' = [state EXCEPT ![r] = s],
           prior' = prior,
           Checkpoint(r, s), Grounded(s), Kept(state[r], s)
    PROVE  OneByOne' /\ KeepsCheckpoint
<1>1. InProgress(r)
  BY DEF InProgress, Updating
<1>2. OneByOne'
  BY <1>1, WriteOneByOne
<1>3. r \notin Forgetful => state[r].val = saved.val
  BY DEF OneByOne, InStep
<1>4. KeepsCheckpoint
  BY <1>3 DEF KeepsCheckpoint, Kept, Checkpoint, Missing
<1> QED BY <1>2, <1>4

LEMMA ReadPriorOneByOne ==
    ASSUME ~Overlap, PlanOK, OneByOne, NEW r \in Runs, ReadPrior(r)
    PROVE  OneByOne' /\ KeepsCheckpoint
<1>1. /\ pc \in [Runs -> Steps] /\ prior \in [Runs -> [Agents -> Results]]
      /\ \A q \in Runs : ~InProgress(q)
  BY DEF PlanOK, Types, PlanTypeOK, Steps, ReadPrior
<1>2. /\ pc'[r] = "seed" /\ \A q \in Runs \ {r} : pc'[q] = pc[q] /\ ~InProgress(q)
      /\ prior'[r] = IF r \in Forgetful THEN Empty.val ELSE saved.val
      /\ saved' = saved /\ owner' = owner /\ state' = state
  BY <1>1 DEF ReadPrior
<1>3. Alone'
  BY <1>2 DEF Alone, InProgress
<1>4. InStep'
  BY <1>2 DEF InStep, InProgress, Updating
<1>5. ItineraryGrounded' /\ (owner \notin Forgetful)'
  BY <1>2 DEF OneByOne, ItineraryGrounded, Grounded, Missing
<1>6. KeepsCheckpoint
  BY <1>2 DEF KeepsCheckpoint
<1> QED BY <1>3, <1>4, <1>5, <1>6 DEF OneByOne

LEMMA InvokeOneByOne ==
    ASSUME PlanOK, OneByOne, NEW r \in Runs, Invoke(r)
    PROVE  OneByOne' /\ KeepsCheckpoint
<1> DEFINE s == Seeded(r)
<1>1. pc[r] = "seed" /\ InProgress(r) /\ "fan" \in Planning
  BY DEF Invoke, InProgress, Planning
<1>2. prior[r] = IF r \in Forgetful THEN Empty.val ELSE saved.val
  BY <1>1 DEF OneByOne, InStep
<1>3. s.val = IF r \in Forgetful THEN Empty.val ELSE saved.val
  <2>1. Empty.val = [a \in Agents |-> NoResult] /\ saved.val \in [Agents -> Results]
    BY DEF Empty, PlanOK, Types, PlanTypeOK, States
  <2> QED BY <1>2, <2>1 DEF Seeded
<1>4. s \in States
  <2>1. s = [val |-> s.val, errors |-> Quiet, warnings |-> Quiet]
    BY DEF Seeded, Reset
  <2>2. s.val \in [Agents -> Results]
    BY <1>3, Quiets DEF PlanOK, Types, PlanTypeOK, States
  <2> HIDE DEF s
  <2> QED BY <2>1, <2>2 DEF States, Quiet
<1>5. /\ pc' = [pc EXCEPT ![r] = "fan"] /\ state' = [state EXCEPT ![r] = s]
      /\ prior' = [prior EXCEPT ![r] = Empty.val] /\ Checkpoint(r, s)
  BY DEF Invoke
<1> HIDE DEF s
<1>6. Grounded(s)
  <2>1. r \in Forgetful => Missing(s, "itinerary")
    BY <1>3, Quiets DEF Missing, Empty, Agents
  <2> QED BY <1>3, <2>1 DEF OneByOne, ItineraryGrounded, Grounded, Missing
<1>7. OneByOne'
  BY <1>1, <1>4, <1>5, <1>6, WriteOneByOne
<1>8. KeepsCheckpoint
  BY <1>3, <1>5 DEF KeepsCheckpoint, Checkpoint
<1> QED BY <1>7, <1>8

LEMMA AgentOneByOne ==
    ASSUME PlanOK, OneByOne, NEW r \in Runs, NEW a \in Fan, Agent(r, a)
    PROVE  OneByOne' /\ KeepsCheckpoint
BY DEF Agent, OneByOne, Alone, InProgress, InStep, ItineraryGrounded, Grounded, Missing,
       KeepsCheckpoint

LEMMA JoinOneByOne ==
    ASSUME PlanOK, OneByOne, NEW r \in Runs, Join(r)
    PROVE  OneByOne' /\ KeepsCheckpoint
<1> DEFINE s == Merge(state[r], out[r])
<1>1. /\ state[r] \in States /\ pc[r] \in Updating /\ DOMAIN out[r] = Fan
      /\ "itinerary" \in Planning
  BY DEF Join, PlanOK, Types, Updating, Planning
<1>2. /\ pc' = [pc EXCEPT ![r] = "itinerary"] /\ state' = [state EXCEPT ![r] = s]
      /\ prior' = prior /\ Checkpoint(r, s)
  BY DEF Join
<1>3. \A a \in Fan : FanUpdate(r, state[r], a, out[r][a])
  BY DEF Join, PlanOK, Outs
<1>4. Grounded(state[r])
  BY DEF OneByOne, ItineraryGrounded
<1>5. s \in States
  <2>1. state' \in [Runs -> States] /\ state'[r] = s
    BY <1>2, JoinKeeps DEF PlanOK, Types
  <2> QED BY <2>1
<1>6. Grounded(s) /\ Kept(state[r], s)
  BY <1>1, <1>3, <1>4, FanKeepsResults
<1> HIDE DEF s
<1> QED BY <1>1, <1>2, <1>5, <1>6, UpdateOneByOne

LEMMA ItineraryOneByOne ==
    ASSUME PlanOK, OneByOne, NEW r \in Runs, Itinerary(r)
    PROVE  OneByOne' /\ KeepsCheckpoint
<1>1. /\ pc[r] \in Updating /\ "budget" \in Planning /\ prior' = prior
      /\ pc' = [pc EXCEPT ![r] = "budget"]
      /\ state' = [state EXCEPT ![r] = state'[r]]
  BY DEF Itinerary, Step, PlanOK, Types, Updating, Planning
<1>2. Grounded(state[r])
  BY DEF OneByOne, ItineraryGrounded
<1> QED BY <1>1, <1>2, ItineraryKeepsResults, UpdateOneByOne

LEMMA BudgetOneByOne ==
    ASSUME PlanOK, OneByOne, NEW r \in Runs, Budget(r)
    PROVE  OneByOne' /\ KeepsCheckpoint
<1>1. /\ pc[r] \in Updating /\ "synthesize" \in Planning /\ prior' = prior
      /\ pc' = [pc EXCEPT ![r] = "synthesize"]
      /\ state' = [state EXCEPT ![r] = state'[r]]
  BY DEF Budget, Step, PlanOK, Types, Updating, Planning
<1>2. Grounded(state[r])
  BY DEF OneByOne, ItineraryGrounded
<1> QED BY <1>1, <1>2, BudgetKeepsResults, UpdateOneByOne

LEMMA SynthesizeOneByOne ==
    ASSUME PlanOK, OneByOne, NEW r \in Runs, Synthesize(r)
    PROVE  OneByOne' /\ KeepsCheckpoint
<1>1. /\ pc[r] \in Updating /\ "done" \in Planning /\ prior' = prior
      /\ pc' = [pc EXCEPT ![r] = "done"]
      /\ state[r] \in States /\ state' = [state EXCEPT ![r] = state[r]]
      /\ Checkpoint(r, state[r])
  BY DEF Synthesize, PlanOK, Types, Updating, Planning
<1>2. Grounded(state[r]) /\ Kept(state[r], state[r])
  BY DEF OneByOne, ItineraryGrounded, Kept
<1> QED BY <1>1, <1>2, UpdateOneByOne

\* The pending writes of a run that dies are results that the checkpoint did
\* not have.
LEMMA AbortOneByOne ==
    ASSUME PlanOK, OneByOne, NEW r \in Runs, Abort(r)
    PROVE  OneByOne' /\ KeepsCheckpoint
<1> DEFINE returned == {a \in Fan : out[r][a].set /\ out[r][a].v.by # NoRun}
<1>1. PICK kept \in SUBSET returned :
         /\ kept # {} => owner = r
         /\ saved' = [saved EXCEPT !.val =
                         [a \in Agents |-> IF a \in kept THEN out[r][a].v ELSE @[a]]]
  BY DEF Abort
<1>2. /\ pc \in [Runs -> Steps] /\ pc'[r] = "aborted" /\ InProgress(r)
      /\ \A q \in Runs \ {r} : pc'[q] = pc[q]
      /\ prior' = prior /\ state' = state /\ owner' = owner
  BY DEF Abort, PlanOK, Types, PlanTypeOK, Steps
<1>3. \A q \in Runs \ {r} : ~InProgress(q) /\ pc[q] \notin {"seed"} \cup Updating
  BY <1>2 DEF OneByOne, Alone, InProgress, Updating
<1>4. saved \in States /\ saved'.val = [a \in Agents |-> IF a \in kept THEN out[r][a].v
                                                                     ELSE saved.val[a]]
  BY <1>1 DEF PlanOK, Types, PlanTypeOK, States
<1>5. \A a \in kept : a \in Fan /\ Missing(saved, a)
  <2> SUFFICES ASSUME NEW a \in kept PROVE a \in Fan /\ Missing(saved, a)
    OBVIOUS
  <2>1. a \in Fan /\ out[r][a].set
    BY <1>1
  <2>2. pc[r] = "fan" /\ Missing(state[r], a)
    BY <2>1, Quiets DEF PlanOK, Outs, FanUpdate
  <2>3. r \notin Forgetful
    BY <1>1 DEF OneByOne
  <2>4. state[r].val = saved.val
    BY <2>2, <2>3 DEF OneByOne, InStep, Updating
  <2> QED BY <2>1, <2>2, <2>4 DEF Missing
<1>6. KeepsCheckpoint
  BY <1>4, <1>5 DEF KeepsCheckpoint, Carried, Agents
<1>7. Alone' /\ InStep'
  <2>1. "aborted" \notin Updating
    BY DEF Updating
  <2> QED BY <1>2, <1>3, <2>1 DEF Alone, InStep, InProgress
<1>8. Grounded(saved')
  <2>1. saved'.val["itinerary"] = saved.val["itinerary"]
    BY <1>4, <1>5 DEF Agents, Fan
  <2>2. Grounded(saved)
    BY DEF OneByOne, ItineraryGrounded
  <2> QED BY <1>6, <2>1, <2>2 DEF Grounded, KeepsCheckpoint, Missing, Carried, Fan
<1>9. (owner \notin Forgetful)' /\ ItineraryGrounded'
  <2>1. owner' \notin Forgetful /\ \A q \in Runs : Grounded(state'[q])
    BY <1>2 DEF OneByOne, ItineraryGrounded
  <2> QED BY <1>8, <2>1 DEF ItineraryGrounded, Grounded, Missing
<1> QED BY <1>6, <1>7, <1>9 DEF OneByOne

LEMMA StartOneByOne == Init => OneByOne
<1> SUFFICES ASSUME Init PROVE OneByOne
  OBVIOUS
<1>1. Missing(Empty, "itinerary")
  BY Quiets DEF Missing, Empty, Agents
<1>2. Alone /\ InStep /\ owner \notin Forgetful
  BY PlanAssumption DEF Init, Alone, InStep, InProgress, Updating
<1> QED BY <1>1, <1>2 DEF OneByOne, Init, ItineraryGrounded, Grounded

LEMMA StepOneByOne ==
    ASSUME ~Overlap, PlanOK, OneByOne, [Next]_vars
    PROVE  OneByOne' /\ KeepsCheckpoint
<1>1. CASE UNCHANGED vars
  BY <1>1 DEF vars, runVars, OneByOne, Alone, InStep, InProgress, ItineraryGrounded,
              Grounded, Missing, KeepsCheckpoint
<1>2. ASSUME NEW r \in Runs, RunStep(r) \/ Abort(r) PROVE OneByOne' /\ KeepsCheckpoint
  BY <1>2, ReadPriorOneByOne, InvokeOneByOne, AgentOneByOne, JoinOneByOne,
     ItineraryOneByOne, BudgetOneByOne, SynthesizeOneByOne, AbortOneByOne DEF RunStep
<1> QED BY <1>1, <1>2 DEF Next

LEMMA HoldsOneByOne == ASSUME ~Overlap PROVE Spec => [](PlanOK /\ OneByOne)
<1>1. PlanOK /\ OneByOne /\ [Next]_vars => (PlanOK /\ OneByOne)'
  BY PlanKeeps, StepOneByOne
<1> QED BY <1>1, PlanStart, StartOneByOne, PTL DEF Spec

\* An itinerary was built from the places that its plan and the checkpoint
\* hold, whatever was resumed and whatever failed.
THEOREM ItinerariesAreGrounded == ASSUME ~Overlap PROVE Spec => []ItineraryGrounded
<1>1. OneByOne => ItineraryGrounded
  BY DEF OneByOne
<1> QED BY <1>1, HoldsOneByOne, PTL

\* No run loses or replaces a result that has reached the checkpoint.
THEOREM ResultsAreKept == ASSUME ~Overlap PROVE Spec => NoResultLost
<1>1. PlanOK /\ OneByOne /\ [Next]_vars =>
         [\A a \in Carried : ~Missing(saved, a) => saved'.val[a] = saved.val[a]]_vars
  BY StepOneByOne DEF KeepsCheckpoint
<1> QED BY <1>1, HoldsOneByOne, PTL DEF Spec, NoResultLost

\* No run that remembers calls an agent whose result is in the checkpoint.
THEOREM AgentsArePaidOnce == ASSUME ~Overlap PROVE Spec => NeverPaidAgain
<1>1. ASSUME PlanOK, OneByOne, [Next]_vars,
             NEW a \in Fan, NEW r \in Runs \ Forgetful, out'[r][a].set, ~out[r][a].set
      PROVE  Missing(saved, a)
  <2>1. out \in [Runs -> [Fan -> Updates]]
    BY <1>1 DEF PlanOK, Types
  <2>2. PICK q \in Runs : RunStep(q) \/ Abort(q)
    BY <1>1 DEF Next, vars, runVars
  <2>3. CASE \E b \in Fan : Agent(q, b)
    <3>1. PICK b \in Fan : Agent(q, b)
      BY <2>3
    <3>2. PICK u \in Research(q, b) : out' = [out EXCEPT ![q][b] = u]
      BY <3>1 DEF Agent
    <3>3. q = r /\ b = a /\ u.set
      BY <1>1, <2>1, <3>2
    <3>4. pc[r] = "fan" /\ Missing(state[r], a)
      BY <3>1, <3>2, <3>3, Quiets DEF Agent, Research, AlreadyDone
    <3>5. state[r].val = saved.val
      BY <1>1, <3>4 DEF OneByOne, InStep, Updating
    <3> QED BY <3>4, <3>5 DEF Missing
  <2>4. CASE Join(q) \/ Abort(q)
    <3>1. out' = [out EXCEPT ![q] = [x \in Fan |-> Waiting]]
      BY <2>4 DEF Join, Abort
    <3>2. ~out'[r][a].set
      BY <1>1, <2>1, <3>1, Quiets
    <3> QED BY <1>1, <3>2
  <2>5. CASE ReadPrior(q) \/ Invoke(q) \/ Itinerary(q) \/ Budget(q) \/ Synthesize(q)
    <3>1. out' = out
      BY <2>5 DEF ReadPrior, Invoke, Itinerary, Budget, Synthesize, Step
    <3> QED BY <1>1, <3>1
  <2> QED BY <2>2, <2>3, <2>4, <2>5 DEF RunStep
<1>2. PlanOK /\ OneByOne /\ [Next]_vars =>
         [\A a \in Fan, r \in Runs \ Forgetful :
             out'[r][a].set /\ ~out[r][a].set => Missing(saved, a)]_vars
  BY <1>1
<1> QED BY <1>2, HoldsOneByOne, PTL DEF Spec, NeverPaidAgain

----------------------------------------------------------------------------
(* The checkpoint implements TripMemory: a step of a run adds results of   *)
(* that run to it, or shows what it holds, or is none of its business.     *)

\* Run r's channels after a superstep: what was there, or a result of its own.
LEMMA MergedBy ==
    ASSUME NEW r \in Runs, NEW s \in States, NEW f, NEW a \in Agents,
           a \in DOMAIN f => OwnWrites(r, f[a])
    PROVE  Merge(s, f).val[a].by \in {s.val[a].by, NoRun, r}
<1>1. NoResult.by = NoRun
  BY Quiets
<1> QED BY <1>1, Merged DEF OwnWrites, Own

\* A run adds nothing to the checkpoint but results of its own, and nothing at
\* all if it does not remember.
Adds(r) ==
    /\ \A a \in Carried : saved'.val[a].by \in {saved.val[a].by, NoRun, r}
    /\ r \in Forgetful => saved'.val = saved.val

LEMMA SuperstepAdds ==
    ASSUME OneByOne, NEW r \in Runs, pc[r] \in Updating, NEW f,
           state[r] \in States, Checkpoint(r, Merge(state[r], f)),
           \A a \in DOMAIN f : OwnWrites(r, f[a])
    PROVE  Adds(r)
<1>1. r \notin Forgetful => state[r].val = saved.val /\ saved' = Merge(state[r], f)
  BY DEF OneByOne, InStep, Checkpoint
<1>2. r \in Forgetful => saved' = saved
  BY DEF Checkpoint
<1>3. \A a \in Carried : Merge(state[r], f).val[a].by \in {state[r].val[a].by, NoRun, r}
  BY MergedBy DEF Carried, Agents
<1> QED BY <1>1, <1>2, <1>3 DEF Adds

LEMMA StepAdds ==
    ASSUME PlanOK, OneByOne, NEW r \in Runs, NEW a \in {"itinerary", "budget"}, NEW next, NEW u,
           Step(r, a, next, u), OwnWrites(r, u)
    PROVE  Adds(r)
<1> DEFINE f == [x \in {a} |-> u]
<1>1. /\ pc[r] \in Updating /\ state[r] \in States
      /\ Checkpoint(r, Merge(state[r], f))
  BY DEF Step, PlanOK, Types, Updating
<1>2. \A x \in DOMAIN f : OwnWrites(r, f[x])
  OBVIOUS
<1> HIDE DEF f
<1> QED BY <1>1, <1>2, SuperstepAdds

LEMMA RunsAdd ==
    ASSUME PlanOK, OneByOne, NEW r \in Runs, RunStep(r) \/ Abort(r)
    PROVE  Adds(r)
<1>1. CASE ReadPrior(r) \/ \E a \in Fan : Agent(r, a)
  BY <1>1 DEF ReadPrior, Agent, Adds
<1>2. CASE Invoke(r)
  <2>1. prior[r] = IF r \in Forgetful THEN Empty.val ELSE saved.val
    BY <1>2 DEF Invoke, OneByOne, InStep
  <2>2. r \notin Forgetful => \A a \in Agents : Seeded(r).val[a] = saved.val[a]
    BY <2>1 DEF Seeded
  <2>3. saved' = IF r \in Forgetful THEN saved ELSE Seeded(r)
    BY <1>2 DEF Invoke, Checkpoint
  <2> QED BY <2>2, <2>3 DEF Adds, Carried, Agents
<1>3. CASE Join(r)
  <2>1. /\ pc[r] \in Updating /\ state[r] \in States /\ DOMAIN out[r] = Fan
        /\ Checkpoint(r, Merge(state[r], out[r]))
    BY <1>3 DEF Join, PlanOK, Types, Updating
  <2>2. \A a \in Fan : OwnWrites(r, out[r][a])
    BY <1>3, OwnUpdatesWriteOwn DEF Join, PlanOK, Outs, FanUpdate
  <2> QED BY <2>1, <2>2, SuperstepAdds
<1>4. CASE Itinerary(r)
  BY <1>4, ItineraryWritesOwn, StepAdds
<1>5. CASE Budget(r)
  BY <1>5, BudgetWritesOwn, StepAdds
<1>6. CASE Synthesize(r)
  <2>1. r \notin Forgetful => saved' = state[r] /\ state[r].val = saved.val
    BY <1>6 DEF Synthesize, Checkpoint, OneByOne, InStep, Updating
  <2>2. r \in Forgetful => saved' = saved
    BY <1>6 DEF Synthesize, Checkpoint
  <2> QED BY <2>1, <2>2 DEF Adds
<1>7. CASE Abort(r)
  <2>1. PICK kept \in SUBSET {a \in Fan : out[r][a].set /\ out[r][a].v.by # NoRun} :
           /\ kept # {} => owner = r
           /\ saved' = [saved EXCEPT !.val =
                           [a \in Agents |-> IF a \in kept THEN out[r][a].v ELSE @[a]]]
    BY <1>7 DEF Abort
  <2>2. saved \in States
    BY DEF PlanOK, Types, PlanTypeOK
  <2>3. saved'.val = [a \in Agents |-> IF a \in kept THEN out[r][a].v ELSE saved.val[a]]
    BY <2>1, <2>2 DEF States
  <2>4. \A a \in kept : out[r][a].v.by = r
    <3> SUFFICES ASSUME NEW a \in kept PROVE out[r][a].v.by = r
      OBVIOUS
    <3>1. a \in Fan /\ out[r][a].set /\ out[r][a].v.by # NoRun
      BY <2>1
    <3>2. out[r][a] # Waiting
      BY <3>1, Quiets
    <3>3. OwnUpdate(r, state[r], a, out[r][a])
      BY <3>1, <3>2 DEF PlanOK, Outs, FanUpdate
    <3> QED BY <3>1, <3>3, OwnIsUpdate
  <2>5. r \in Forgetful => saved'.val = saved.val
    <3>1. r \in Forgetful => kept = {}
      BY <2>1 DEF OneByOne
    <3>2. saved.val = [a \in Agents |-> saved.val[a]]
      BY <2>2 DEF States
    <3> QED BY <2>3, <3>1, <3>2
  <2>6. \A a \in Carried : saved'.val[a].by \in {saved.val[a].by, NoRun, r}
    BY <2>3, <2>4 DEF Carried, Agents
  <2> QED BY <2>5, <2>6 DEF Adds
<1> QED BY <1>1, <1>2, <1>3, <1>4, <1>5, <1>6, <1>7 DEF RunStep

Ready == {q \in Runs : pc[q] = "done"}

\* The plans that are shown are those of the runs that are done, as they were.
LEMMA PlansStay ==
    ASSUME PlanOK, NEW r \in Runs, RunStep(r) \/ Abort(r)
    PROVE  /\ r \notin Ready
           /\ Ready' = IF pc'[r] = "done" THEN Ready \cup {r} ELSE Ready
           /\ \A q \in Ready : state'[q] = state[q]
           /\ pc'[r] = "done" => Synthesize(r)
<1>1. pc[r] # "done"
  BY DEF RunStep, ReadPrior, Invoke, Agent, Join, Itinerary, Budget, Step, Synthesize, Abort,
         InProgress
<1>2. \A q \in Runs \ {r} : pc'[q] = pc[q] /\ state'[q] = state[q]
  BY OthersUntouched
<1>3. pc \in [Runs -> Steps]
  BY DEF PlanOK, Types, PlanTypeOK, Steps
<1>4. pc'[r] = "done" => Synthesize(r)
  BY <1>1, <1>3 DEF RunStep, ReadPrior, Invoke, Agent, Join, Itinerary, Budget, Step, Abort
<1> QED BY <1>1, <1>2, <1>4 DEF Ready

LEMMA TripStep ==
    ASSUME PlanOK, OneByOne, Fresh, KeepsCheckpoint, NEW r \in Runs, RunStep(r) \/ Abort(r)
    PROVE  Trip!Next \/ UNCHANGED Trip!vars
<1> DEFINE memory == By(saved)
           plans == [q \in Ready |-> By(state[q])]
<1>1. /\ memory = By(saved) /\ memory' = By(saved')
      /\ DOMAIN memory = Carried /\ DOMAIN plans = Ready
      /\ plans = [q \in Ready |-> By(state[q])]
      /\ plans' = [q \in Ready' |-> By(state'[q])]
  BY DEF By
<1>2. /\ \A a \in Carried : memory[a] = saved.val[a].by /\ memory'[a] = saved'.val[a].by
      /\ memory' = [a \in Carried |-> memory'[a]]
  BY <1>1 DEF By
<1> HIDE DEF memory, plans
<1>3. \A a \in Carried : memory'[a] = memory[a] \/ (memory[a] = NoRun /\ memory'[a] = r)
  BY <1>2, RunsAdd DEF Adds, KeepsCheckpoint, Missing
<1>4. r \in Forgetful => memory' = memory
  BY <1>1, RunsAdd DEF Adds, By
<1>5. CASE pc'[r] # "done"
  <2>1. plans' = plans /\ r \notin DOMAIN plans
    <3>1. Ready' = Ready /\ r \notin Ready /\ \A q \in Ready : state'[q] = state[q]
      BY <1>5, PlansStay
    <3> QED BY <1>1, <3>1
  <2>2. CASE r \in Forgetful
    BY <1>4, <2>1, <2>2 DEF Trip!vars, memory, plans, Ready
  <2>3. CASE r \notin Forgetful
    <3> DEFINE new == {a \in Carried : memory'[a] # memory[a]}
    <3>1. new \in SUBSET {a \in Carried : memory[a] = NoRun}
      BY <1>3
    <3>2. memory' = [a \in Carried |-> IF a \in new THEN r ELSE memory[a]]
      BY <1>2, <1>3
    <3> HIDE DEF new
    <3>3. Trip!Record(r)
      BY <2>1, <2>3, <3>1, <3>2 DEF Trip!Record, Trip!Unwritten, memory, plans, Ready
    <3> QED BY <3>3 DEF Trip!Next
  <2> QED BY <2>2, <2>3
<1>6. CASE pc'[r] = "done"
  <2>1. Synthesize(r) /\ r \notin DOMAIN plans
    BY <1>1, <1>6, PlansStay
  <2>2. state' = state /\ pc[r] = "synthesize"
    BY <2>1 DEF Synthesize
  <2>3. plans' = [q \in DOMAIN plans \cup {r} |-> IF q = r THEN By(state[r]) ELSE plans[q]]
    <3>1. Ready' = Ready \cup {r} /\ r \notin Ready
      BY <1>6, PlansStay
    <3> QED BY <1>1, <2>2, <3>1
  <2>4. memory' = memory
    <3>1. r \notin Forgetful => saved' = state[r] /\ state[r].val = saved.val
      BY <2>1, <2>2 DEF Synthesize, Checkpoint, OneByOne, InStep, Updating
    <3> QED BY <1>1, <1>4, <3>1 DEF By
  <2>5. By(state[r]) \in IF r \in Forgetful THEN [Carried -> {r, NoRun}] ELSE {memory}
    <3>1. CASE r \in Forgetful
      <4>1. \A a \in Agents : Own(r, state[r].val[a])
        BY <2>2, <3>1 DEF Fresh, FreshRun, Planning
      <4>2. \A a \in Carried : state[r].val[a].by \in {r, NoRun}
        BY <4>1, Quiets DEF Own, Carried, Agents
      <4> QED BY <3>1, <4>2 DEF By
    <3>2. CASE r \notin Forgetful
      <4>1. state[r].val = saved.val
        BY <2>2, <3>2 DEF OneByOne, InStep, Updating
      <4> QED BY <1>1, <3>2, <4>1 DEF By
    <3> QED BY <3>1, <3>2
  <2>6. Trip!Publish(r)
    BY <2>1, <2>3, <2>4, <2>5 DEF Trip!Publish, Trip!Shows, memory, plans, Ready
  <2> QED BY <2>6 DEF Trip!Next
<1> QED BY <1>5, <1>6

\* Planned one run after the other, the runs of a trip use its checkpoint as
\* TripMemory says: each result is written once, by the run that paid for it,
\* and every plan made with the memory shows exactly what it holds.
THEOREM CheckpointIsTripMemory == ASSUME ~Overlap PROVE Spec => ImplementsTripMemory
<1>1. Init => Trip!Init
  <2> SUFFICES ASSUME Init PROVE Trip!Init
    OBVIOUS
  <2>1. By(saved) = [a \in Carried |-> NoRun]
    BY Quiets DEF Init, By, Empty, Carried, Agents
  <2>2. {q \in Runs : pc[q] = "done"} = {}
    BY DEF Init
  <2> QED BY <2>1, <2>2 DEF Trip!Init
<1>2. PlanOK /\ OneByOne /\ Fresh /\ [Next]_vars => [Trip!Next]_(Trip!vars)
  <2> SUFFICES ASSUME PlanOK, OneByOne, Fresh, [Next]_vars
               PROVE  Trip!Next \/ UNCHANGED Trip!vars
    OBVIOUS
  <2>1. CASE UNCHANGED vars
    BY <2>1 DEF vars, runVars, Trip!vars, By
  <2>2. ASSUME NEW r \in Runs, RunStep(r) \/ Abort(r) PROVE Trip!Next \/ UNCHANGED Trip!vars
    BY <2>2, StepOneByOne, TripStep
  <2> QED BY <2>1, <2>2 DEF Next
<1>3. Spec => []Fresh
  BY StepKeepsFresh, StartFresh, PlanHolds, PTL DEF Spec
<1> QED BY <1>1, <1>2, <1>3, HoldsOneByOne, PTL DEF Spec, ImplementsTripMemory, Trip!Spec
=============================================================================
