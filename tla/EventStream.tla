---------------------------- MODULE EventStream ----------------------------
(***************************************************************************)
(* A browser watching one job: the event log that the worker writes        *)
(* (jobs.append_event), the generator behind GET /plans/{id}/events        *)
(* (api.plan_events) and watchJob() of web/app.js, which reconnects with   *)
(* the id of the last event it has seen.  Composed with JobQueue: every    *)
(* step of a worker is taken together with what it appends.                *)
(***************************************************************************)
EXTENDS JobQueue, Functions

CONSTANTS
    Watched,         \* the job the browser submitted
    AgentEvents,     \* bound on the progress events of one attempt
    MaxIdle,         \* polls without news before the stream gives up
    MaxDrops         \* bound on lost connections

ASSUME StreamAssumption ==
    /\ Watched \in Jobs
    /\ AgentEvents \in Nat
    /\ MaxIdle \in Nat \ {0}
    /\ MaxDrops \in Nat

VARIABLES
    log,       \* job_events: the id of an event is its position
    reported,  \* agent events of the attempt each worker runs
    serve,     \* where the server's generator is, "closed" if there is none
    cursor, idle,
    batch,     \* ids that events_since() returned and that are not yielded yet
    wire,      \* frames sent and not yet received
    view,      \* what the browser is doing
    lastId, seen, shown,
    drops

serverVars == <<serve, cursor, idle, batch>>
browserVars == <<view, lastId, seen, shown>>
streamVars == <<log, reported, serverVars, wire, browserVars, drops>>
allVars == <<vars, streamVars>>

----------------------------------------------------------------------------
StreamInit ==
    /\ Init
    /\ log = <<>>
    /\ reported = [w \in Workers |-> 0]
    /\ serve = "closed"
    /\ cursor = 0
    /\ idle = 0
    /\ batch = {}
    /\ wire = <<>>
    /\ view = "start"
    /\ lastId = 0
    /\ seen = <<>>
    /\ shown = "nothing"
    /\ drops = 0

----------------------------------------------------------------------------
(* The worker's side *)

Logged(w, kind) == log' = Append(log, [job |-> job[w], kind |-> kind])

\* The steps of _run_job that append an event of their own.
AppendStep(w) ==
    /\ \/ Begin(w) /\ Logged(w, "started")
       \/ Finish(w) /\ Logged(w, "finished")
       \/ Report(w) /\ Logged(w, "failed")
    /\ reported' = [reported EXCEPT ![w] = 0]
    /\ UNCHANGED <<serverVars, wire, browserVars, drops>>

\* An agent starts or ends during plan_trip(): the trace listener appends it.
AgentEvent(w) ==
    /\ pc[w] = "plan"
    /\ reported[w] < AgentEvents
    /\ Logged(w, "agent")
    /\ reported' = [reported EXCEPT ![w] = @ + 1]
    /\ UNCHANGED <<vars, serverVars, wire, browserVars, drops>>

QuietWork(w) ==
    \/ Start(w) \/ Poll(w) \/ ClaimNone(w)
    \/ \E j \in Jobs : DeadLetter(w, j) \/ Claim(w, j)
    \/ Plan(w) \/ Complete(w) \/ Raise(w) \/ FailRead(w) \/ FailWrite(w)

QuietStep ==
    /\ \/ \E j \in Jobs : Enqueue(j)
       \/ \E w \in Workers : QuietWork(w) \/ Beat(w) \/ Sigterm(w) \/ Crash(w)
       \/ Tick
    /\ UNCHANGED streamVars

----------------------------------------------------------------------------
(* The server's side: stream() in plan_events() *)

Tracked == {"started", "agent"}

EventsSinceMutant(j, after) == {i \in 1 .. Len(log) : log[i].job = j /\ i >= after}

EventsSince(j, after) == {i \in 1 .. Len(log) : log[i].job = j /\ i > after}

Frame(kind, id, verdict) == [kind |-> kind, id |-> id, status |-> verdict]

ReadEvents ==
    /\ serve = "read"
    /\ batch' = EventsSince(Watched, cursor)
    /\ serve' = "yield"
    /\ UNCHANGED <<vars, log, reported, cursor, idle, wire, browserVars, drops>>

\* The rows come ORDER BY id; between two yields everybody else can go on.
YieldEvent ==
    /\ serve = "yield"
    /\ \E i \in batch :
          /\ \A k \in batch : i <= k
          /\ wire' = Append(wire, Frame(log[i].kind, i, "nothing"))
          /\ cursor' = i
          /\ batch' = batch \ {i}
    /\ idle' = 0
    /\ UNCHANGED <<vars, log, reported, serve, browserVars, drops>>

GaveUp == idle >= MaxIdle

\* The last frame of a stream.
Close(kind, verdict) ==
    /\ wire' = Append(wire, Frame(kind, 0, verdict))
    /\ serve' = "closed"
    /\ idle' = 0

\* jobs.get() is a read of its own, after the events were read.
ReadStatus ==
    /\ serve = "yield" /\ batch = {}
    /\ \/ Terminal(Watched) /\ Close("result", status[Watched])
       \/ ~Terminal(Watched) /\ GaveUp /\ Close("timeout", "stalled")
       \/ /\ ~Terminal(Watched) /\ ~GaveUp
          /\ serve' = "read"
          /\ idle' = idle + 1
          /\ UNCHANGED wire
    /\ UNCHANGED <<vars, log, reported, cursor, batch, browserVars, drops>>

----------------------------------------------------------------------------
(* The browser's side: watchJob() *)

DisconnectedMutant == view = "start"

Disconnected == view \in {"start", "retry"}

ResumeFromMutant == cursor

ResumeFrom == lastId

\* A request for the events after lastId; the job id is known once POST /plans
\* has returned.
Connect ==
    /\ Disconnected
    /\ status[Watched] # "absent"
    /\ view' = "watching"
    /\ serve' = "read"
    /\ cursor' = ResumeFrom
    /\ idle' = 0
    /\ batch' = {}
    /\ wire' = <<>>
    /\ UNCHANGED <<vars, log, reported, lastId, seen, shown, drops>>

Receive ==
    LET frame == Head(wire) IN
    /\ view = "watching"
    /\ wire # <<>>
    /\ wire' = Tail(wire)
    /\ \/ /\ frame.kind \in Tracked
          /\ lastId' = frame.id
          /\ seen' = Append(seen, frame.id)
          /\ UNCHANGED <<view, shown>>
       \/ /\ frame.kind \in {"finished", "failed"}   \* no listener
          /\ UNCHANGED browserVars
       \/ /\ frame.kind \in {"result", "timeout"}
          /\ view' = "closed"
          /\ shown' = frame.status
          /\ UNCHANGED <<lastId, seen>>
    /\ UNCHANGED <<vars, log, reported, serverVars, drops>>

\* The connection breaks: what is on the wire is lost, onerror retries.
Drop ==
    /\ view = "watching"
    /\ drops < MaxDrops
    /\ drops' = drops + 1
    /\ view' = "retry"
    /\ serve' = "closed"
    /\ wire' = <<>>
    /\ idle' = 0
    /\ batch' = {}
    /\ UNCHANGED <<vars, log, reported, cursor, lastId, seen, shown>>

----------------------------------------------------------------------------
Server == ReadEvents \/ YieldEvent \/ ReadStatus
Browser == Connect \/ Receive

StreamNext ==
    \/ QuietStep
    \/ \E w \in Workers : AppendStep(w) \/ AgentEvent(w)
    \/ Server
    \/ Browser
    \/ Drop

StreamSpec == StreamInit /\ [][StreamNext]_allVars

\* As in JobQueue, and the event loop of the server and the browser keep going.
StreamFairness ==
    /\ WF_allVars(Tick /\ UNCHANGED streamVars)
    /\ \A w \in Workers :
          /\ WF_allVars(AppendStep(w) \/ (QuietWork(w) /\ UNCHANGED streamVars))
          /\ WF_allVars(Beat(w) /\ UNCHANGED streamVars)
    /\ WF_allVars(Server)
    /\ WF_allVars(Browser)

FairStreamSpec == StreamSpec /\ StreamFairness

----------------------------------------------------------------------------
Kinds == {"started", "agent", "finished", "failed"}

\* Every column of job_events, the generator's locals, the frames and the
\* browser's state have their types, and no id is one that was never assigned.
StreamTypeOK ==
    /\ log \in Seq([job : Jobs, kind : Kinds])
    /\ reported \in [Workers -> 0 .. AgentEvents]
    /\ serve \in {"closed", "read", "yield"}
    /\ cursor \in 0 .. Len(log)
    /\ idle \in 0 .. MaxIdle
    /\ batch \in SUBSET (1 .. Len(log))
    /\ wire \in Seq([kind : Kinds \cup {"result", "timeout"}, id : 0 .. Len(log),
                     status : {"nothing", "done", "dead", "stalled"}])
    /\ view \in {"start", "watching", "retry", "closed"}
    /\ lastId \in 0 .. Len(log)
    /\ seen \in Seq(1 .. Len(log))
    /\ shown \in {"nothing", "done", "dead", "stalled"}
    /\ drops \in 0 .. MaxDrops

\* The ids of the job's progress events up to an id.
Progress(upTo) == {i \in 1 .. upTo : log[i].job = Watched /\ log[i].kind \in Tracked}

\* api.plan_events and watchJob(): however often the connection drops, the
\* browser has seen every progress event of its job up to lastId, once and in
\* order, and none of another job.
SeenIsLogPrefix ==
    /\ \A i, k \in DOMAIN seen : i < k => seen[i] < seen[k]
    /\ Range(seen) = Progress(lastId)

\* What the server has yielded on this connection and the browser has not got.
OnWire == {wire[i].id : i \in {k \in DOMAIN wire : wire[k].kind \in Tracked}}

\* The browser never misses an event that the server thinks it has sent: what
\* is seen or on the wire is the whole progress of the job up to the cursor,
\* although the cursor is the server's and lastId the browser's.
NothingSkipped == view = "watching" => Range(seen) \cup OnWire = Progress(cursor)

\* A verdict on the screen is the job's final one: no later retry or late
\* writer turns it into something else (as long as the append of the "finished"
\* event does not raise: fail() would then requeue a job that is done).
ShownIsFinal == shown \notin {"nothing", "stalled"} => status[Watched] = shown

\* api.plan_events and watchJob() together are the feed of a job: whatever the
\* connections, the polls and the workers do, the browser is given the published
\* events one after the other, then the verdict the job settled on or the notice
\* that nothing moves, then nothing more, and a settled job publishes nothing.
Settled == status[Watched] \in {"done", "dead"}

Feed ==
    INSTANCE EventFeed WITH
        published <- Progress(Len(log)),
        verdict <- IF Settled THEN status[Watched] ELSE "open"

ImplementsFeed == Feed!Spec

\* Whoever submits a job gets a verdict or is told that nothing moves.
WatcherIsAnswered == (status[Watched] # "absent") ~> (shown # "nothing")
=============================================================================
