# Agentic trip planner: formal models

TLA+ models of the trip planner in this repository: a web process accepts trips
as jobs, worker processes run a graph of LLM agents for each, a gateway meters
the requests, and a browser watches the job's event log. Paths are relative to
the repository's sources. `PROJECT.json` lists the runs, mutants, theorems,
findings and hazards, and maps every definition to the lines it stands for.

## 1. Inventory

| Component | State it keeps | Operations | Interacts through |
| --- | --- | --- | --- |
| Job queue, `jobs.py` | SQLite tables `jobs`, `job_events` | enqueue, claim, heartbeat, complete, fail, append_event, events_since, get | transactions of the API and of every worker |
| Worker, `worker.py` | the job in hand, a heartbeat thread, `_stopping` | run, _run_job | queue; `plan_trip`; SIGTERM |
| Event stream, `api.py` | cursor and idle time of each generator | POST /plans, GET /plans/{id}/events | queue (polling), SSE to the browser |
| Browser, `web/app.js` | last event id, verdict shown | watchJob: receive, reconnect | SSE with `after=` |
| Planning graph, `orchestrator.py`, `models.py`, `status.py`, `providers/memory.py` | channels of `TripState`, the checkpoint of the trip | plan_trip, the reducers, synthesize, plan_status | checkpoint shared by the runs of one trip |
| Agents, `agents/` | nothing between calls | one node each: skip, research, fail | TripState; LLM; tools |
| Gateway, `gateway/` | bucket rows or window hits, in-flight slots | dispatch, take, refund, slot | wraps every metered route |
| LLM access, `providers/llm.py` | position in the chain of profiles, sleeps | invoke_with_retry, invoke_structured | agents; deadlines |
| Cache, `providers/cache.py` | files with a time of writing, a lock per key and process | cached | tools, from the agents' threads, in the API's and the workers' processes |
| Metrics and tracing, `providers/metrics.py`, `providers/tracing.py` | collectors and listeners of runs in progress | start, record, finish | agents, api |
| Prompts, `providers/prompts.py` | cached prompts | get, push | Langfuse |
| Scope, costs, hours, verification: `scope.py`, `costs.py`, `hours.py`, `verify.py` | none | resolve_request, compute_breakdown, activity_allowance, closed_on, verify_itinerary | API, itinerary and budget agents |
| Evals, `evals/scorers.py` | none | score a finished state | the state the graph leaves |
| Tools, `tools/` | a throttle time | look-ups with fallbacks between services | cache |
| Text functions: `payload.py`, `providers/safety.py`, `providers/pricing.py` | none | | agents, API |
| Front ends, page, deployment, tests | | | |

What is hard about it, and so what the properties are for:

* several workers, the API and heartbeat threads write the same rows, each
  statement its own transaction, with a clock read before the wait for the lock;
* workers are killed, leases run out, jobs are retried, the last attempt dies;
* connections drop with events on the wire and resume from an id;
* a trip is planned again from a checkpoint written by a run that failed, was
  killed, or is still going;
* credits are charged before the work is known to be chargeable, in two buckets
  and two transactions, and given back on some paths;
* an agent shares one deadline between rounds of tool calls, rate limits, changes
  of provider and repairs of malformed answers;
* threads and processes share files that are written in place, and outages must
  not be kept;
* one plan is judged twice, by its own checks and by the evals, on different data.

## 2. Modules

| Module | Models | State against code |
| --- | --- | --- |
| `JobQueue` | `jobs.py`, `worker.py` | `status..error` are the columns; `pc`, `job`, `spent` a worker's place and locals; `beating`, `beat` its heartbeat thread; `lag` the age of `now` inside claim() |
| `JobContract` | abstract: the promise of jobs.py's docstring | `phase`, `tries`, `lost` only |
| `EventStream` | EXTENDS `JobQueue`: `append_event`, `plan_events`, `watchJob` | `log` is job_events, `cursor`/`batch`/`idle` the generator (`batch`: rows fetched and not yielded), `wire` the connection, `lastId`/`seen`/`shown` the page |
| `EventFeed` | abstract: what a watcher of a job is promised | `published`, `verdict`, `seen`, `shown` |
| `PlanGraph` | plan_trip, graph, reducers, checkpoint, agents' outcomes | `state` the channels, `out` updates not merged yet, `saved` the checkpoint, `prior` what get_state() found |
| `TripMemory` | abstract: what the checkpoint of a trip promises to its runs | `memory` says which run produced each entry, `plans` what each run that is done shows |
| `AgentLoop` | run_agent, run_tool_agent, invoke_with_retry, invoke_structured | `left` is the deadline less now; `attempt`, `naps`, `method` the locals of an invocation; `repeats`, `total` those of the tool loop; `tried`, `calls`, `invoked` are history |
| `ToolSources` | `tools/`: what each look-up returns for each condition of its services | operators only |
| `ReadThroughCache` | EXTENDS `ToolSources`: cached() | `file`, `entry`, `age` the files; `holder` the locks of each process; `pc`, `want`, `seen`, `value` a thread inside cached() (`seen`: the age that _read has computed); `reply` the answer returned in the last step; `writer` is history |
| `CacheContract` | abstract: what a caller of cached() may rely on | `store`, `age`, `looks`, `reply` |
| `Costs` | `scope.py`, `costs.py` | operators on requests and lists of prices |
| `Hours` | `hours.py`, and what a tag means | operators on tags, as sequences of rules |
| `Judges` | EXTENDS both: `verify.py`, `evals/scorers.py` | operators on itineraries |
| `PlanChecks` | EXTENDS `Judges`: the data of one trip over its runs | `request`, the results, `evidence`, `warnings` are the channels; `stage` says how far the run is; `composed`, `reconciled` what this run did itself |
| `TokenBucket` | arithmetic of a bucket row | operators only |
| `IdealBucket` | abstract: a level for each key, raised by a timer | `level`, `drawn` |
| `Gateway` | EXTENDS `TokenBucket`: dispatch, _metered, slots, both limiters | `rows`/`hits` the two backends, `active` the slots, `phase` where a request is; `paid`, `billed` are history |
| `JobQueueProofs`, `EventStreamProofs`, `PlanGraphProofs`, `AgentLoopProofs`, `CacheProofs`, `ChecksProofs`, `GatewayProofs`, `GatewaySlotProofs` | theorems | |
| `MC*` | values and symmetry sets for TLC | |

`JobQueue` and `PlanGraph` meet at plan_trip(), which is one step of the first and
all of the second; `PlanGraph` and `AgentLoop` at a node's outcome; `AgentLoop` and
`ReadThroughCache` at a tool call; `PlanGraph` and `PlanChecks` share the order of
the agents, the one for interrupted runs with abstract results, the other for
complete runs with their data.

Each action is a transaction, an autocommit statement, a superstep, one pass of a
loop, one access to a file or lock, or a stretch of an event loop between two
awaits, so every interleaving that the code permits is explored. Operators named
`...Mutant` are plausible bugs of the operator after them; each property of a
passing run is broken by one.

**JobQueue.** `Claim`, `DeadLetter` and `ClaimNone` are the three ends of
claim()'s transaction; `Poll` is the read of the clock before it. fail() is two
actions, because it reads `attempts` and writes the verdict in two statements.
`HeartbeatDies` is the thread ended by an exception. `Crash` is a kill or an
exception outside the try block of _run_job. Time is relative (what is left of a
lease, the age of a heartbeat, the age of `now`), so no clock needs a bound.

**PlanGraph.** A result is reduced to who made it, whether it was flagged, and
what it was built from. The fan-out's updates are merged together (`Join`), and
the checkpoint is written once per superstep. An interrupted run leaves what had
reached the checkpoint.

**AgentLoop.** One agent, one action per call of the model or of a tool. Time is
what is left of the budget: a call takes up to what is left, its socket timeout,
and `Slack`. A rate limit is an error that rotates; a malformed reply moves on to
the next of the `methods`. `calls` wraps above its bound, so that a loop without
end would be a cycle and a finite state space.

**ReadThroughCache.** _read() looks at the age of a file (`Stat`) and then at its
text (`Hit`, `Miss`), and write_text() truncates (`Open`) and fills (`Write`), or
fails in between (`WriteFails`); each is a step between which other processes and
unlocked readers take theirs. So a reader can leave with a new text and the age of
the old one, and two writers at once may leave a garbled file. exists() and stat()
are one step, since nothing removes a file. `CacheContract` says no more than that
gives: an answer is whole, was made under the key, and the age noted was live; it
does not say that empty answers are brief, as the docstring does (section 5).
A producer's answer is a kind ("rows", "absent", "normals", "failed", ...)
and whether it is `blind`: no service contributed to it.

**PlanChecks.** Days are numbers, prices whole units in ascending lists, names
model values that stand for what `_norm` leaves of them, so two spellings of a
place are one name. Dates that do not parse are `NotADate`.

**Gateway.** The web process has one worker and one event loop, and the SQLite
calls are synchronous: a request keeps the loop from its arrival to call_next and
again from the return of call_next to its own, but can die between any two
transactions, and any transaction can raise (`LimiterRaises`: SQLite gives up on a
lock after five seconds), which ends the request with what was charged before it.
A key with no row is a full row, which the arithmetic makes the
same. Tokens are integers and time is counted in units that refill a whole number.

## 3. Runs

| Run | Expected | Question |
| --- | --- | --- |
| `queue_lease` | pass | heartbeats succeed: mutual exclusion, a live worker keeps its job, only its owner moves a row, no exhausted job is queued, and the queue implements `JobContract` |
| `queue_faults` | pass | everything fails, one worker runs with --once: a row can be handed out again or explains itself (`RowsRecoverable`), the writes to a row run out, every accepted job settles |
| `stream` | pass | the browser sees each event once and in order over drops, queue, workers, server and browser together implement `EventFeed`, every watcher gets an answer |
| `plan_resume` | pass | runs of a trip one after the other, with failures, aborts and `remember=False`: reports and budgets are of the run, the checkpoint implements `TripMemory`, nothing in it is paid for again, a plan without it is whole |
| `plan_overlap` | violation | two runs of a trip at the same time |
| `agent_loop` | pass | one agent under its deadline: calls, tools and the overrun are bounded, all keys are tried before a sleep, every pass uses up one of finitely many, the agent returns |
| `cache` | pass | threads of two processes on one key: one fetch per process, no failure stored, callers see `CacheContract`, every call returns |
| `cache_outage` | violation | is an outage of both weather services stored as an answer |
| `checks` | pass | a trip's data in two runs: accepted requests stay acceptable, the two judges agree, an overrun is explained, closed doors are judged right |
| `gateway` | pass | the SQLite bucket with slots, failures, free work, and a crash or an exception of the store: rows implement `IdealBucket`, credits are neither sold twice nor lost, slots are exact |
| `gateway_limits` | violation | the default backend, `limits`: can callers be billed more than the shared budget has |
| `gateway_stream` | violation | are streams in progress within a caller's limit |

Bounds, and why they are enough:

* `queue_*`: one or two jobs, two workers, two attempts, one crash, one signal, a
  lease of three ticks with a wait for the lock of at most one. Two workers are
  what a row is contended by; two attempts have a first, a last and a retry
  after a crash; the lease outlasts a heartbeat and two waits by exactly
  nothing, so the edge is met. The theorems cover all other values.
* `stream`: one job, one worker, a crash, one progress event per attempt, two
  drops, and a stream that gives up after two idle polls. Two drops lose events
  of two connections, one of them a resumed one.
* `plan_resume`: three runs (first, resumed, forgetful, in any order), one abort.
  `hotels` does not fail there, it is as `flight`; only `flight` can be flagged.
* `agent_loop`: two profiles, the second of which may have no key; two rounds, up
  to two calls per reply, three in all, two of each; a wait that fits the
  deadline and one that does not. Every loop runs into its limit and into the
  deadline. The theorems cover all other values.
* `cache`: two threads of one process and one of another, one key (any of the
  tools that report failures, so every kind of answer), one crash; two readers
  contend for a lock, and the other process overtakes both, also between the look at an
  age and the text. `cache_outage` has
  the two keys that get_weather() reads one after the other.
* `checks`: requests on both sides of every limit of `scope.py`, two runs, trips of
  up to two nights (a first, a middle and a last day), up to three planned days
  from inside and outside the trip, unreadable or repeated; places that are
  known, known too far apart, a meal, or unknown; tags with every shape of rule,
  with Saturday to Monday in the dates; prices that are missing, fit, or take all.
* `gateway`: two callers with one and two slots, two requests that can be made
  again without end, a shared budget of three credits where the callers' own
  hold three and two (so each bucket can be the one that refuses, and a refill
  meets the cap), clock of one refill, one fault (a crash or an exception of the store). Two requests are enough for one to be refused by what the other holds.

Deadlock is checked where the system never stops. It is not in `plan_*`,
`agent_loop` and `checks`, where a behaviour ends when the runs have.

**Fairness.** `JobQueue`: time passes, threads are scheduled, a process that ended
is started again (`docker-compose.yml`, `restart: unless-stopped`); nobody has to
enqueue, signal or kill. `EventStream` adds the server's generator and the
browser's EventSource, which go on by themselves; drops are not fair. `AgentLoop`
is one thread whose calls all return, as each has a timeout (weak).
`ReadThroughCache`: a thread that does not wait goes on (weak); one that waits for
a lock that is released again and again gets it some time (strong); calls and
crashes are not assumed. `Gateway`: a coroutine that has the loop goes on (weak);
one whose application has answered gets the loop in its turn, as the loop is first
come, first served (strong); the end of a stream, arrivals and crashes are not
assumed.

## 4. Proofs

The theorems hold for every value of the constants that satisfies the named
assumptions, all with every fault the module has unless a hypothesis excludes it.

`JobQueueProofs`, for any sets of jobs and workers and any settings:

* `TypeCorrect` and `AlwaysRecoverable` (`RowsRecoverable`: a running row has a lease;
  settled rows are explained) follow from what each transaction writes, with every
  fault allowed.
* `VerdictsAlwaysRunOut`, with every fault allowed and finitely many workers: what a
  row says of its job is written a bounded number of times, although a worker that
  lost its lease can undo the verdict of another (done, queued, dead, done again).
  The measure (`WritesLeft`) is 5 for each attempt that is left, 2 for each fail()
  and each complete() that a worker may still call for the job, and the rank of the
  status. A claim costs an attempt and pays for the two calls of its worker
  (`ClaimRunsOut`); a verdict costs its call and raises the rank by one at most
  (`VerdictRunsOut`); nothing else gives a worker a call (`QuietRunsOut`). This is the
  safety half of `EveryJobSettles`: that a job is not left queued needs fairness.
* `LeaseExcludes` (`MutualExclusion` and `LiveWorkerKeepsJob`) assumes that
  heartbeats do not raise and `LeaseOutlastsBeats`, that a lease is at least a
  heartbeat period and two waits for the write lock (60 >= 20 + 2 * 10 by
  default). Neither property is inductive: that two workers are not on one job
  follows from no claim being possible, which depends on how much is left of the
  lease. The invariant (`LeaseInv`) says what is left at least, as a function of
  the age of the last heartbeat and of the place of the worker, and that the row
  of a job in hand is running; `QueueHasRunnableJobs` follows from it too. A claim reads the clock up to `BusyTimeout` before
  it compares, and the lease it grants is that much shorter: one wait each.

* `OwnersEndRuns`, under the same two assumptions: a step writes only the row of the job its worker works on, and
  by `LeaseInv` no other worker works on that one (`OthersLeaveRow`).
* `QueueImplementsContract` (and so at-least-once with at most `MaxAttempts`
  attempts) needs in addition that no append of a `finished` event raises, for
  then fail() would requeue a job that is done. The invariant is `RunningInv`:
  the row of a job that is worked on stays running to the end of its attempt.

`EventStreamProofs`, for any jobs, workers, events and drops:

* `EventsSeenInOrder` and `NoEventSkipped` hold whatever fails. What is seen, on
  the wire, and fetched are three stretches of the log: the frames on the wire lie
  between `lastId` and `cursor` in the order of their ids (`WireInv`), the batch
  starts after the cursor and has no gaps (`BatchInv`), and the cursor is never
  behind the browser (`CursorAhead`).
* `VerdictsAreFinal` needs what the contract needs, so that no one writes the row
  of a settled job: a verdict on the wire is then the one in the row
  (`VerdictInv`).
* `StreamImplementsFeed`, under the same assumptions: all of queue, workers, server,
  network and browser is a reader of `EventFeed`. A step of the queue publishes at
  most one event (`ProgressGrows`), and none once the job has settled, because
  only a worker that executes the job appends progress (`ClosedStep`); a frame that
  is received is the next event (`ReceiveFeeds`) or the verdict of the row. The feed
  does not promise that everything was delivered before the verdict: the server
  reads the events before the status.

`PlanGraphProofs`, for any number of runs of a trip:

* `PlansReportTheirRun` and `BudgetsAreCurrent` hold for overlapping runs too. The
  invariant (`PlanOK`) says for each superstep which agents have spoken (`Heard`)
  and what each has said about the result in its channel; that updates not merged
  yet replace nothing; and that no result is by a run that has not started.
* `FreshPlansAlwaysWhole` holds for overlapping runs too, and is what is true where
  `FlaggedResultsAreReported` and `OkPlanSawWeather` are not (section 5): an itinerary
  saw the places and the outlook that the plan of its own run shows, and a plan
  made with remember=False is of its run alone, with every finding. The invariant
  (`Fresh`) says that the channels of such a run hold results of its own from its
  start, and follows an itinerary from the step that made it.
* `ItinerariesAreGrounded`, `ResultsAreKept` and `AgentsArePaidOnce` assume that
  runs do not overlap, and are false otherwise (`plan_overlap`). The invariant
  (`OneByOne`) is that at most one run is in progress and that the channels of a
  run that remembers are those of the checkpoint.
* `CheckpointIsTripMemory`, also for runs that do not overlap: the checkpoint, to
  which a run copies all of its channels at every superstep, of which an aborted
  run may leave a part, and which a resumed run writes back, is a memory whose
  entries are written once by the run that paid for them (`RunsAdd`), and every
  plan made with it shows exactly what it holds (`PlansStay`, `TripStep`).

`AgentLoopProofs`, for any chain of profiles, limits and budget: `RotatesFirst`,
`CallsAreBounded`, `ToolsAreBounded`, `OverrunIsBounded`, `OutcomeAgrees`,
`PlainOutcomeAgrees`. The last two are about a claim that the code does not keep,
`OutcomeIsTrue` (section 5): it holds for every agent but a tool agent that timed out
(`TimeoutUnrecorded`), and so for all agents without tools. The
invariant counts calls as rotations and malformed replies (`Counting`), keeps the
profiles before the current attempt called (`Rotation`), the calls that returned
under their limits (`Budget`), and lets the overrun inside a reply grow by one
tool at a time (`Overrun`). `EveryPassIsCounted` is the safety half of termination:
every step lowers `StepsLeft`, a natural number that the limits on rounds, calls and
tools fix at the start and in which no time occurs. So an agent takes finitely
many steps also when nothing it does costs time; that it takes them at all
(`AgentReturns`) needs fairness.

`CacheProofs`, for any processes, threads, keys and lifetime: `OneFetch`,
`OutagesForgotten` (by what each tool returns under each condition of its
services, `ReportersAreHonest`) and the refinement `CacheImplementsContract`.
`CachedOK` says who holds a lock (`InsideOwns`), that a whole file is the answer
of some fetch (`DiskIsFetched`), and that a thread about to fetch has not been
overtaken inside its own process (`NotOvertaken`): a file that has become live since
it looked was written by another process. In the refinement a thread between the two
accesses of _read() is a caller that has noted an age (`looks`); one that finds the
text unreadable, or dies, forgets it (`ForgetStep`), and every answer that was not
read is one made for its caller (`MakeStep`), whether the write of it succeeded or not.

`ChecksProofs`, for any requests, catalogues, prices and itineraries:
`AcceptedStaysStable`, `JudgesAlwaysAgree`, `VerdictAlwaysExplained`,
`DoorsAlwaysJudgedRight`. The state invariant (`ChecksOK`) is small: results are
from the services, the itinerary from the places, the warnings are the findings.
The work is in lemmas about the operators: the days of a trip against its nights
(`DatesAgree`), the totals of a breakdown (`OverrunExplained`), weekday spans that
wrap (`DaysAreNamed`). `DoorsJudgedRight` is about tags that name the days they
are off in rules of their own, after the rules that open (`Covered`); the proof
does not go through without that, and section 5 has the tags that show why.

`GatewayProofs`, for any buckets, callers and requests:

* `TypeCorrect`, with the burst (a row holds no more than its capacity).
* `BucketNeverOversold`, for the SQLite backend. That billed credits are within
  burst and refills is not inductive; the invariant `Accounts` weighs what was
  billed together with what the row still holds, up to the time the row was
  written, and `NothingMinted` is the step: neither operation leaves more than
  was there, the refill since, and what is given back.
* `SharedAlwaysCovers` and `AlwaysSettled`, for both backends, from `Ledger`:
  what a request has been charged for in each phase.

`GatewaySlotProofs`, for any finite set of requests:

* `SlotsAlwaysExact`. A step moves one request, so the set of those that hold a
  slot grows or shrinks by at most that one, as the counter does.
* `BucketNeverOvercharges`, for the SQLite backend. A refund that meets the cap
  loses tokens, which is harmless only if the key has been billed as much. The
  invariant `Bills` says so: the bill of a key covers what the requests charged to
  it cost, and a refund is of one of them (`Ledger`). `NeverOvercharged` is no property
  of a run: the runs check `IdealBucket`, which implies it.
* `RowsAreIdealBuckets`, for the SQLite backend: what a row is worth now is the
  level of `IdealBucket`, and what was billed is what was drawn. Refilling lazily is
  the same as a timer, because one interval of n units fills as n intervals of
  one do, the cap included (`LevelArithmetic`); a charge that is refused writes the row
  back without changing its worth (`ChargeIsDraw`); a refund returns no more than was
  drawn (`RefundIsReturn`, by `Bills`).
* `InFlightWithoutStreams`: on an application without a route that streams, no
  caller has more requests in progress than its limit. With `gateway_stream` this
  says that the streamed body is the whole cause.

Five refinements are proved: `QueueImplementsContract`, `StreamImplementsFeed`,
`CheckpointIsTripMemory`, `CacheImplementsContract` and `RowsAreIdealBuckets`. The type
invariants of `EventStream`, `PlanGraph`, `AgentLoop`, `ReadThroughCache` and `Gateway` are
theorems (`StreamTyping`, `PlanTyping`, `Typing`, `CacheTyping`, `TypeCorrect`) rather than
part of the runs.

Only model-checked: liveness (`EveryJobSettles`, `WatcherIsAnswered`,
`AgentReturns`, `CallReturns`, `RequestAnswered`), which needs the fairness of the
specifications.

## 5. What the runs found

* Overlapping runs of a trip overwrite each other's checkpoint (`plan_overlap`).
* An outage of both weather services is stored as an answer (`cache_outage`).
* With `limits`, a caller over its own limit empties the shared window
  (`gateway_limits`).
* The slot of a streamed plan is released when the stream begins
  (`gateway_stream`).

Refuted by TLC with the constants of the runs, changed as said, and kept as
definitions rather than runs:

* `LiveWorkerKeepsJob` with `BeatFaults`: one heartbeat that raises ends its
  thread, and the job of a live worker is taken (against `jobs.py:42-43`).
* `OnceDrains` in `queue_faults`: a `--once` worker exits after burying a job, with
  others queued (against `worker.py:4` and `:85`).
* `FlaggedResultsAreReported` in `plan_resume`: a resumed plan shows a flagged
  result without the finding (against `README.md:210`, "identical plan").
* `OkPlanSawWeather` in `plan_resume`: a plan can be `ok` with an itinerary built
  before the weather was known.

* `OutcomeIsTrue` in `agent_loop`: a tool agent whose wait for a rate limit would
  outlast its deadline ends as an error of the plan, and its outcome stays `pending`
  (`agents/base.py:504`; run_agent's branch at `:190` records "timeout"), which
  `metrics.py:47` does not list: "done | skipped | failed | timeout".
* `EmptyIsBrief` in `cache`: an empty answer is served at an age past `EmptyTtl`. The
  shorter lifetime is assigned to a local after its last use (`cache.py:123`), so
  absences are kept as long as rows, against "briefly" in `cache.py:92-94`.

What holds instead of the two about plans, `FreshPlansAreWhole`, is checked and
proved; what holds instead of `OutcomeIsTrue` is the theorem `OutcomeAgrees`.

Read in the code while it was modelled:

* Queue: `FAILED` in `jobs.py` is a status that no statement writes. After the
  append of the `finished` event raises, a done job is queued again and its error
  column keeps the old text. An event appended after the result was stored is
  never sent (`api.py:299`).
* Gateway: no route of `api.py` sends the `X-Work-Performed: none` that the refund
  of free work waits for, and a trip rejected with 422 is billed like a plan
  (`SignalsFree` is TRUE in `gateway` for an application that does send it).
* Cache: the age that an answer carries can be that of the entry before it, as
  _read() takes the age and the text in two accesses (`cache.py:72-75`). search_flights() reports no fares when all its services raised
  (`tools/travel.py:277-336`), against its comment "no backend errored". Processes
  share the files of the cache and not its locks.
* Agents: `total_calls` counts the tools that returned (`agents/base.py:327`), so the
  calls made, failed ones included, can exceed MAX_TOTAL_CALLS. The 15
  seconds left for the answer phase (`base.py:282`) are checked before a call
  that may use them.
* Hours: "Mo-Fr 10:00-18:00, Su off" closes Monday to Friday, "Mo off; Mo-Fr
  09:00-17:00" says Monday is closed, and "PH,Su off" is skipped, where
  `hours.py:5-8` calls a false "closed" the worst error.
* Trips: thread_id() writes the budget as `str(req.budget_usd or "")`, so that a
  budget of 0 and none are one trip; an end on the day of the start is accepted
  and costs no lodging; a failed recommendation of nights falls back to three, and
  a later success makes it another trip; a worker does not look at the dates again
  when it starts after midnight. The checks against the budget are not made when
  the advice fails (`agents/budget_agent.py:153-172`).
* Metrics: finish() is called on one path only (`orchestrator.py:272`), so a run
  that raises leaves its collector behind.

## 6. Not modelled

* A heartbeat that is already inside its UPDATE when stop_heartbeat() is called;
  `purge()`, `stats()` and `forget()`; the in-request stream of GET /api/plan
  except for its slot; key management and the wording of refusals.
* Several web processes on one bucket file: there `now`, read before the
  transaction, can be older than the row, and an interval is credited twice.
* The sums of metrics, the spans of tracing and the life of collectors: they
  report a run and decide nothing in it.
* The verifiers of flights, hotels and weather and the scorers not named in
  section 2: comparisons of one field each, with no state behind them.
* Prompt texts, replay, sanitising, airports, describe(), HTML, deployment: data,
  text functions or scripts without state that lasts.

## 7. Plan

Done, in this order: JobQueue with its contract, EventStream over it, PlanGraph,
TokenBucket and Gateway, AgentLoop, ReadThroughCache with its contract, Costs,
Hours, Judges and PlanChecks over them, the proofs of every invariant that the
runs check, and the abstract specifications EventFeed, TripMemory and IdealBucket
with theirs, the measures of an agent and of the queue. Left:

1. The caller's identity behind proxies (client_ip), as an operator with its
   assumptions in `Gateway`.
2. What the gateway still promises with the `limits` backend, whose refunds clear
   a window.
3. Collectors and listeners of metrics and tracing, for a run that raises.
