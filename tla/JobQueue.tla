------------------------------ MODULE JobQueue ------------------------------
(***************************************************************************)
(* The durable job queue (jobs.py) and the worker processes that drain it  *)
(* (worker.py).  One action per SQL transaction or autocommit statement,   *)
(* so everything another process can do between two of them is explored.   *)
(*                                                                         *)
(* Time is relative, so that no clock has to be bounded: left[j] is        *)
(* lease_until - now for the row of job j, beat[w] the time since the      *)
(* heartbeat thread of w last wrote, lag[w] the time since claim() read    *)
(* `now` (it reads it before it waits for the write lock).                 *)
(***************************************************************************)
EXTENDS Integers, Sequences, FiniteSets

CONSTANTS
    Jobs,             \* job ids that clients may enqueue
    Workers,          \* worker processes
    OnceWorkers,      \* those started with --once
    NoJob,            \* a worker's `job` when it has none
    MaxAttempts,      \* JOB_MAX_ATTEMPTS
    LeaseSeconds,     \* JOB_LEASE_SECONDS, in ticks
    MinBeat,          \* the 5.0 of HEARTBEAT_SECONDS, in ticks
    BusyTimeout,      \* sqlite3.connect(timeout=10.0), in ticks
    BeatFaults,       \* may a heartbeat's UPDATE raise
    AppendFaults,     \* may the append of the "finished" event raise
    MaxSignals,       \* bound on SIGTERMs
    MaxCrashes        \* bound on kills

ASSUME QueueAssumption ==
    /\ NoJob \notin Jobs
    /\ OnceWorkers \subseteq Workers
    /\ MaxAttempts \in Nat \ {0}
    /\ LeaseSeconds \in Nat \ {0}
    /\ MinBeat \in Nat \ {0}
    /\ BusyTimeout \in Nat
    /\ BeatFaults \in BOOLEAN
    /\ AppendFaults \in BOOLEAN
    /\ MaxSignals \in Nat
    /\ MaxCrashes \in Nat

VARIABLES
    status, attempts, leased, left, result, error,  \* the jobs table
    arrivals,      \* job ids by created_at
    pc, job,       \* where each worker is, and the Job it holds
    spent,         \* the attempts that fail() has read
    beating, beat, \* the heartbeat thread
    lag,           \* age of claim()'s `now`
    stopping,      \* _stopping
    signals, crashes

tableVars == <<status, attempts, leased, left, result, error>>
workerVars == <<pc, job, spent, stopping>>
timerVars == <<beating, beat, lag>>
envVars == <<signals, crashes>>
vars == <<tableVars, arrivals, workerVars, timerVars, envVars>>

----------------------------------------------------------------------------
\* Operators named ...Mutant are what a plausible bug would make of the operator
\* that follows them; each breaks a property of this module.
HeartbeatMutant == LeaseSeconds

HeartbeatSeconds ==
    IF LeaseSeconds \div 3 > MinBeat THEN LeaseSeconds \div 3 ELSE MinBeat

TerminalMutant(j) == status[j] \in {"done", "dead"} \/ error[j]

Terminal(j) == status[j] \in {"done", "dead"}

\* The processes that exist, and the places where one is inside the try block
\* of _run_job, that is, working on its job.
Alive(w) == pc[w] \notin {"down", "exited"}
Executing(w) == pc[w] \in {"begin", "plan", "complete", "fail", "failWrite"}

Init ==
    /\ status = [j \in Jobs |-> "absent"]
    /\ attempts = [j \in Jobs |-> 0]
    /\ leased = [j \in Jobs |-> FALSE]
    /\ left = [j \in Jobs |-> 0]
    /\ result = [j \in Jobs |-> FALSE]
    /\ error = [j \in Jobs |-> FALSE]
    /\ arrivals = <<>>
    /\ pc = [w \in Workers |-> "down"]
    /\ job = [w \in Workers |-> NoJob]
    /\ spent = [w \in Workers |-> 0]
    /\ beating = [w \in Workers |-> FALSE]
    /\ beat = [w \in Workers |-> 0]
    /\ lag = [w \in Workers |-> 0]
    /\ stopping = [w \in Workers |-> FALSE]
    /\ signals = 0
    /\ crashes = 0

----------------------------------------------------------------------------
(* The API process *)

Enqueue(j) ==
    /\ status[j] = "absent"
    /\ status' = [status EXCEPT ![j] = "queued"]
    /\ arrivals' = Append(arrivals, j)
    /\ UNCHANGED <<attempts, leased, left, result, error, workerVars, timerVars, envVars>>

----------------------------------------------------------------------------
(* The worker's loop: run() and jobs.claim() *)

Start(w) ==
    /\ ~Alive(w)
    /\ pc' = [pc EXCEPT ![w] = "poll"]
    /\ stopping' = [stopping EXCEPT ![w] = FALSE]
    /\ UNCHANGED <<tableVars, arrivals, job, spent, timerVars, envVars>>

\* The test of the while loop, then `now = time.time()` at the top of claim().
Poll(w) ==
    /\ pc[w] = "poll"
    /\ pc' = [pc EXCEPT ![w] = IF stopping[w] THEN "exited" ELSE "claim"]
    /\ UNCHANGED <<tableVars, arrivals, job, spent, stopping, timerVars, envVars>>

LeaseExpiredMutant(j, age) == leased[j] /\ left[j] < age

LeaseExpired(j, age) == leased[j] /\ left[j] < -age

ClaimableMutant(j, age) == status[j] \in {"queued", "running"}

NeverReclaimMutant(j, age) == status[j] = "queued"

\* What the SELECT of claim() matches when its `now` is `age` old.
Claimable(j, age) ==
    \/ status[j] = "queued"
    \/ status[j] = "running" /\ LeaseExpired(j, age)

OldestClaimable(j, age) ==
    \E i \in DOMAIN arrivals :
        /\ arrivals[i] = j
        /\ Claimable(j, age)
        /\ \A k \in 1 .. (i - 1) : ~Claimable(arrivals[k], age)

\* claim() returned None: a --once worker leaves its loop, others wait and poll.
NothingClaimed(w) ==
    /\ pc' = [pc EXCEPT ![w] = IF w \in OnceWorkers THEN "exited" ELSE "poll"]
    /\ lag' = [lag EXCEPT ![w] = 0]
    /\ UNCHANGED <<job, spent, stopping, beating, beat>>

ClaimNone(w) ==
    /\ pc[w] = "claim"
    /\ \A j \in Jobs : ~Claimable(j, lag[w])
    /\ NothingClaimed(w)
    /\ UNCHANGED <<tableVars, arrivals, envVars>>

OverCapMutant(j) == attempts[j] > MaxAttempts

OverCap(j) == attempts[j] + 1 > MaxAttempts

Bury(j) ==
    /\ status' = [status EXCEPT ![j] = "dead"]
    /\ error' = [error EXCEPT ![j] = TRUE]

\* The oldest claimable job has no attempt left: claim() buries it and still
\* returns None.
DeadLetter(w, j) ==
    /\ pc[w] = "claim"
    /\ OldestClaimable(j, lag[w])
    /\ OverCap(j)
    /\ Bury(j)
    /\ NothingClaimed(w)
    /\ UNCHANGED <<attempts, leased, left, result, arrivals, envVars>>

\* A claim, and the entry of _run_job: the heartbeat thread starts.
Claim(w, j) ==
    /\ pc[w] = "claim"
    /\ OldestClaimable(j, lag[w])
    /\ ~OverCap(j)
    /\ status' = [status EXCEPT ![j] = "running"]
    /\ attempts' = [attempts EXCEPT ![j] = @ + 1]
    /\ leased' = [leased EXCEPT ![j] = TRUE]
    /\ left' = [left EXCEPT ![j] = LeaseSeconds - lag[w]]
    /\ pc' = [pc EXCEPT ![w] = "begin"]
    /\ job' = [job EXCEPT ![w] = j]
    /\ beating' = [beating EXCEPT ![w] = TRUE]
    /\ lag' = [lag EXCEPT ![w] = 0]
    /\ UNCHANGED <<result, error, arrivals, spent, stopping, beat, envVars>>

----------------------------------------------------------------------------
(* One job: _run_job() *)

Goto(w, from, to) ==
    /\ pc[w] = from
    /\ pc' = [pc EXCEPT ![w] = to]

\* The event "started" is appended; plan_trip() returns a state.
Begin(w) ==
    /\ Goto(w, "begin", "plan")
    /\ UNCHANGED <<tableVars, arrivals, job, spent, stopping, timerVars, envVars>>

Plan(w) ==
    /\ Goto(w, "plan", "complete")
    /\ UNCHANGED <<tableVars, arrivals, job, spent, stopping, timerVars, envVars>>

Complete(w) ==
    /\ Goto(w, "complete", "finish")
    /\ status' = [status EXCEPT ![job[w]] = "done"]
    /\ result' = [result EXCEPT ![job[w]] = TRUE]
    /\ leased' = [leased EXCEPT ![job[w]] = FALSE]
    /\ left' = [left EXCEPT ![job[w]] = 0]
    /\ UNCHANGED <<attempts, error, arrivals, job, spent, stopping, timerVars, envVars>>

\* The finally block: the heartbeat stops and the loop goes on.
Release(w) ==
    /\ pc' = [pc EXCEPT ![w] = "poll"]
    /\ job' = [job EXCEPT ![w] = NoJob]
    /\ spent' = [spent EXCEPT ![w] = 0]
    /\ beating' = [beating EXCEPT ![w] = FALSE]
    /\ beat' = [beat EXCEPT ![w] = 0]
    /\ UNCHANGED <<stopping, lag>>

\* The event "finished" is appended.
Finish(w) ==
    /\ pc[w] = "finish"
    /\ Release(w)
    /\ UNCHANGED <<tableVars, arrivals, envVars>>

\* Anything inside the try block raises: the except clause calls fail().
Raise(w) ==
    /\ \/ pc[w] \in {"begin", "plan", "complete"}
       \/ AppendFaults /\ pc[w] = "finish"
    /\ pc' = [pc EXCEPT ![w] = "fail"]
    /\ UNCHANGED <<tableVars, arrivals, job, spent, stopping, timerVars, envVars>>

\* fail() reads the attempts and writes the verdict in two autocommit
\* statements, and does not ask whose job it is.
FailRead(w) ==
    /\ Goto(w, "fail", "failWrite")
    /\ spent' = [spent EXCEPT ![w] = attempts[job[w]]]
    /\ UNCHANGED <<tableVars, arrivals, job, stopping, timerVars, envVars>>

VerdictMutant(n) == IF n > MaxAttempts THEN "dead" ELSE "queued"

LeftRunningMutant(n) == IF n >= MaxAttempts THEN "dead" ELSE "running"

Verdict(n) == IF n >= MaxAttempts THEN "dead" ELSE "queued"

FailWrite(w) ==
    /\ Goto(w, "failWrite", "report")
    /\ status' = [status EXCEPT ![job[w]] = Verdict(spent[w])]
    /\ error' = [error EXCEPT ![job[w]] = TRUE]
    /\ leased' = [leased EXCEPT ![job[w]] = FALSE]
    /\ left' = [left EXCEPT ![job[w]] = 0]
    /\ UNCHANGED <<attempts, result, arrivals, job, spent, stopping, timerVars, envVars>>

\* The event "failed" is appended.
Report(w) ==
    /\ pc[w] = "report"
    /\ Release(w)
    /\ UNCHANGED <<tableVars, arrivals, envVars>>

----------------------------------------------------------------------------
(* The heartbeat thread: wakes every HeartbeatSeconds, reads `now`, then    *)
(* waits up to BusyTimeout for the write lock.                              *)

Heartbeat(w) ==
    LET j == job[w]
        age == beat[w] - HeartbeatSeconds
    IN  /\ beating[w]
        /\ age >= 0
        /\ beat' = [beat EXCEPT ![w] = 0]
        /\ left' = IF status[j] = "running"
                   THEN [left EXCEPT ![j] = LeaseSeconds - age] ELSE left
        /\ leased' = IF status[j] = "running" THEN [leased EXCEPT ![j] = TRUE] ELSE leased
        /\ UNCHANGED <<status, attempts, result, error, arrivals, workerVars,
                       beating, lag, envVars>>

\* An exception in beat() ends the thread; the worker goes on without it.
HeartbeatDies(w) ==
    /\ BeatFaults
    /\ beating[w]
    /\ beat[w] >= HeartbeatSeconds
    /\ beating' = [beating EXCEPT ![w] = FALSE]
    /\ beat' = [beat EXCEPT ![w] = 0]
    /\ UNCHANGED <<tableVars, arrivals, workerVars, lag, envVars>>

----------------------------------------------------------------------------
(* The world around the worker *)

\* SIGTERM or SIGINT: the current job is finished first.
Sigterm(w) ==
    /\ Alive(w)
    /\ ~stopping[w]
    /\ signals < MaxSignals
    /\ signals' = signals + 1
    /\ stopping' = [stopping EXCEPT ![w] = TRUE]
    /\ UNCHANGED <<tableVars, arrivals, pc, job, spent, timerVars, crashes>>

\* SIGKILL, a crash, or an exception outside the try block (a payload that does
\* not validate, a database locked for longer than BusyTimeout, fail() raising).
Crash(w) ==
    /\ Alive(w)
    /\ crashes < MaxCrashes
    /\ crashes' = crashes + 1
    /\ pc' = [pc EXCEPT ![w] = "down"]
    /\ job' = [job EXCEPT ![w] = NoJob]
    /\ spent' = [spent EXCEPT ![w] = 0]
    /\ beating' = [beating EXCEPT ![w] = FALSE]
    /\ beat' = [beat EXCEPT ![w] = 0]
    /\ lag' = [lag EXCEPT ![w] = 0]
    /\ stopping' = [stopping EXCEPT ![w] = FALSE]
    /\ UNCHANGED <<tableVars, arrivals, signals>>

\* No wait for the write lock outlasts BusyTimeout.  A lease that every claim
\* sees as expired need not be counted further down.
Tick ==
    /\ \A w \in Workers : pc[w] = "claim" => lag[w] < BusyTimeout
    /\ \A w \in Workers : beating[w] => beat[w] < HeartbeatSeconds + BusyTimeout
    /\ left' = [j \in Jobs |->
                   IF leased[j] /\ left[j] >= -BusyTimeout THEN left[j] - 1 ELSE left[j]]
    /\ lag' = [w \in Workers |-> IF pc[w] = "claim" THEN lag[w] + 1 ELSE lag[w]]
    /\ beat' = [w \in Workers |-> IF beating[w] THEN beat[w] + 1 ELSE beat[w]]
    /\ UNCHANGED <<status, attempts, leased, result, error, arrivals, workerVars,
                   beating, envVars>>

----------------------------------------------------------------------------
\* What worker w does next of its own accord.
Work(w) ==
    \/ Start(w) \/ Poll(w) \/ ClaimNone(w)
    \/ \E j \in Jobs : DeadLetter(w, j) \/ Claim(w, j)
    \/ Begin(w) \/ Plan(w) \/ Complete(w) \/ Finish(w)
    \/ Raise(w) \/ FailRead(w) \/ FailWrite(w) \/ Report(w)

Beat(w) == Heartbeat(w) \/ HeartbeatDies(w)

Next ==
    \/ \E j \in Jobs : Enqueue(j)
    \/ \E w \in Workers : Work(w) \/ Beat(w) \/ Sigterm(w) \/ Crash(w)
    \/ Tick

\* A running process keeps executing, a supervisor restarts one that ended
\* (docker-compose.yml: restart: unless-stopped), threads are scheduled, and
\* time passes.  Nobody has to enqueue, signal or kill.
Fairness ==
    /\ WF_vars(Tick)
    /\ \A w \in Workers : WF_vars(Work(w)) /\ WF_vars(Beat(w))

Spec == Init /\ [][Next]_vars
FairSpec == Spec /\ Fairness

----------------------------------------------------------------------------
Statuses == {"absent", "queued", "running", "done", "dead"}
Places == {"down", "exited", "poll", "claim", "begin", "plan", "complete", "finish",
           "fail", "failWrite", "report"}

\* Every column of the table and every local of the workers has its type; in
\* particular no job is ever charged more attempts than the cap.
TypeOK ==
    /\ status \in [Jobs -> Statuses]
    /\ attempts \in [Jobs -> 0 .. MaxAttempts]
    /\ leased \in [Jobs -> BOOLEAN]
    /\ left \in [Jobs -> -(BusyTimeout + 1) .. LeaseSeconds]
    /\ result \in [Jobs -> BOOLEAN]
    /\ error \in [Jobs -> BOOLEAN]
    /\ arrivals \in Seq(Jobs)
    /\ pc \in [Workers -> Places]
    /\ job \in [Workers -> Jobs \cup {NoJob}]
    /\ spent \in [Workers -> 0 .. MaxAttempts]
    /\ beating \in [Workers -> BOOLEAN]
    /\ beat \in [Workers -> 0 .. HeartbeatSeconds + BusyTimeout]
    /\ lag \in [Workers -> 0 .. BusyTimeout]
    /\ stopping \in [Workers -> BOOLEAN]
    /\ signals \in 0 .. MaxSignals
    /\ crashes \in 0 .. MaxCrashes

(* What the queue is for *)

\* What the lease needs of its three settings.  It holds of the defaults, 60s,
\* 20s and 10s; JOB_LEASE_SECONDS below 5 breaks it.
LeaseOutlastsBeats == LeaseSeconds >= HeartbeatSeconds + 2 * BusyTimeout

\* jobs.claim(): two workers never run the same job at the same time.  Needs
\* every heartbeat to succeed; nothing fences a worker that lost its lease.
MutualExclusion ==
    \A v, w \in Workers :
        Executing(v) /\ Executing(w) /\ job[v] = job[w] => v = w

\* jobs.py: "workers heartbeat, so a live worker keeps its job": no claim can
\* take the job a worker is planning, however late claims and heartbeats run.
LiveWorkerKeepsJob ==
    \A w \in Workers :
        pc[w] \in {"begin", "plan", "complete"} =>
            /\ status[job[w]] = "running"
            /\ \A age \in 0 .. BusyTimeout : ~Claimable(job[w], age)

\* The row of a job that a worker is planning is moved, and charged an
\* attempt, by that worker alone.
OnlyOwnerEndsRun ==
    [][\A w \in Workers :
          pc[w] \in {"begin", "plan", "complete"} /\ job'[w] = job[w] /\ pc'[w] = pc[w] =>
              /\ status'[job[w]] = status[job[w]]
              /\ attempts'[job[w]] = attempts[job[w]]]_vars

\* A job in the queue can still be run: fail() never requeues the last attempt.
QueuedHasAttemptLeft ==
    \A j \in Jobs : status[j] = "queued" => attempts[j] < MaxAttempts

\* A running row always carries a lease, so a lost job is always found again.
RunningHasLease == \A j \in Jobs : status[j] = "running" => leased[j]

\* What GET /plans/{id} shows of a settled job: a done job has its result and a
\* dead one its error, whichever worker wrote last.
SettledIsExplained ==
    \A j \in Jobs :
        /\ status[j] = "done" => result[j]
        /\ status[j] = "dead" => error[j]

\* jobs.py: whatever is killed or raises, a row is one that claim() can hand out
\* again or bury in time, or one that tells its reader how the job ended.
RowsRecoverable == RunningHasLease /\ SettledIsExplained

\* The workers that may still end their attempt at job j with a fail(), and those
\* of them that may also complete it before.
Failing(j) ==
    {w \in Workers :
        job[w] = j /\ pc[w] \in {"begin", "plan", "complete", "finish", "fail", "failWrite"}}
Completing(j) == {w \in Workers : job[w] = j /\ pc[w] \in {"begin", "plan", "complete"}}

Unsettled(j) ==
    CASE status[j] = "absent" -> 2
      [] status[j] \in {"queued", "running"} -> 1
      [] OTHER -> 0

WritesLeft(j) ==
    5 * (MaxAttempts - attempts[j])
      + 2 * (Cardinality(Failing(j)) + Cardinality(Completing(j))) + Unsettled(j)

\* jobs.py: claims, verdicts and dead letters cannot chase each other for ever.
\* Whatever is killed, raises, or comes late from a worker that lost its lease,
\* each write to what a row says of its job uses up one of finitely many, which
\* the claims have paid for.
VerdictsRunOut ==
    [][\A j \in Jobs :
          /\ 0 <= WritesLeft(j)' /\ WritesLeft(j)' <= WritesLeft(j)
          /\ <<status[j], attempts[j], result[j], error[j]>>'
                # <<status[j], attempts[j], result[j], error[j]>>
             => WritesLeft(j)' < WritesLeft(j)]_vars

\* The queue implements its contract: a running job is handed out again only
\* when the worker that had it is gone.
Lost(j) == status[j] = "running" /\ \A w \in Workers : ~(Executing(w) /\ job[w] = j)

Contract ==
    INSTANCE JobContract WITH
        phase <- status, tries <- attempts, lost <- [j \in Jobs |-> Lost(j)]

ImplementsContract == Contract!Spec

\* Every accepted job settles for good, whatever is killed, raised or lost.
EveryJobSettles == \A j \in Jobs : (status[j] = "queued") ~> []Terminal(j)

\* worker.py: a --once worker drains the queue before it exits by itself.
OnceDrains ==
    [][\A w \in OnceWorkers :
          pc[w] = "claim" /\ pc'[w] = "exited" =>
              \A j \in Jobs : status'[j] # "queued"]_vars
=============================================================================
