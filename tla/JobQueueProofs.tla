--------------------------- MODULE JobQueueProofs ---------------------------
(***************************************************************************)
(* What holds of the queue for any number of jobs and workers and any      *)
(* lease, heartbeat and lock timeouts.                                     *)
(***************************************************************************)
EXTENDS JobQueue, SequenceTheorems, FiniteSetTheorems, TLAPS

\* The heartbeat period is a positive number of ticks.
LEMMA HeartbeatType == HeartbeatSeconds \in Nat \ {0}
  BY QueueAssumption DEF HeartbeatSeconds

----------------------------------------------------------------------------
(* Types *)

\* The empty table and the absent processes are well typed.
LEMMA InitTypeOK == Init => TypeOK
  BY QueueAssumption, HeartbeatType DEF Init, TypeOK, Statuses, Places

\* The actions of the polling loop keep the types.
LEMMA LoopTypeOK ==
  ASSUME TypeOK, NEW w \in Workers, Start(w) \/ Poll(w) \/ ClaimNone(w)
  PROVE  TypeOK'
  <1> USE QueueAssumption, HeartbeatType
        DEF TypeOK, Places, tableVars, workerVars, timerVars, envVars
  <1>1. CASE Start(w) BY <1>1 DEF Start
  <1>2. CASE Poll(w) BY <1>2 DEF Poll
  <1>3. CASE ClaimNone(w) BY <1>3 DEF ClaimNone, NothingClaimed
  <1>4. QED BY <1>1, <1>2, <1>3

\* So do the two outcomes of a claim that found a row.
LEMMA DeadLetterTypeOK ==
  ASSUME TypeOK, NEW w \in Workers, NEW j \in Jobs, DeadLetter(w, j)
  PROVE  TypeOK'
  <1> USE QueueAssumption, HeartbeatType DEF TypeOK, envVars, DeadLetter, Bury, NothingClaimed
  <1>1. status' \in [Jobs -> Statuses] BY DEF Statuses
  <1>2. error' \in [Jobs -> BOOLEAN] OBVIOUS
  <1>3. pc' \in [Workers -> Places] BY DEF Places
  <1>4. lag' \in [Workers -> 0 .. BusyTimeout] OBVIOUS
  <1>5. QED BY <1>1, <1>2, <1>3, <1>4

LEMMA ClaimTypeOK ==
  ASSUME TypeOK, NEW w \in Workers, NEW j \in Jobs, Claim(w, j)
  PROVE  TypeOK'
  <1> USE QueueAssumption, HeartbeatType DEF TypeOK, envVars, Claim
  <1>1. status' \in [Jobs -> Statuses] BY DEF Statuses
  <1>2. attempts' \in [Jobs -> 0 .. MaxAttempts] BY DEF OverCap
  <1>3. left' \in [Jobs -> -(BusyTimeout + 1) .. LeaseSeconds] OBVIOUS
  <1>4. leased' \in [Jobs -> BOOLEAN] OBVIOUS
  <1>5. pc' \in [Workers -> Places] BY DEF Places
  <1>6. /\ job' \in [Workers -> Jobs \cup {NoJob}]
        /\ beating' \in [Workers -> BOOLEAN]
        /\ lag' \in [Workers -> 0 .. BusyTimeout]
    OBVIOUS
  <1>7. QED BY <1>1, <1>2, <1>3, <1>4, <1>5, <1>6

\* A worker inside _run_job holds a job, and so does one whose heart beats.
InRun(place) ==
    place \in {"begin", "plan", "complete", "finish", "fail", "failWrite", "report"}

HoldsJob ==
    \A w \in Workers :
        /\ InRun(pc[w]) <=> job[w] # NoJob
        /\ beating[w] => job[w] # NoJob

\* The statements of _run_job keep the types.
LEMMA RunTypeOK ==
  ASSUME TypeOK, HoldsJob, NEW w \in Workers,
         Begin(w) \/ Plan(w) \/ Complete(w) \/ Finish(w)
           \/ Raise(w) \/ FailRead(w) \/ FailWrite(w) \/ Report(w)
  PROVE  TypeOK'
  <1> USE QueueAssumption, HeartbeatType
        DEF TypeOK, Places, Goto, tableVars, workerVars, timerVars, envVars
  <1>1. CASE Begin(w) BY <1>1 DEF Begin
  <1>2. CASE Plan(w) BY <1>2 DEF Plan
  <1>3. CASE Complete(w) BY <1>3 DEF Complete, Statuses, HoldsJob, InRun
  <1>4. CASE Finish(w) BY <1>4 DEF Finish, Release
  <1>5. CASE Raise(w) BY <1>5 DEF Raise
  <1>6. CASE FailRead(w) BY <1>6 DEF FailRead, HoldsJob, InRun
  <1>7. CASE FailWrite(w)
    <2>1. status' \in [Jobs -> Statuses] BY <1>7 DEF FailWrite, Verdict, Statuses
    <2>2. /\ error' \in [Jobs -> BOOLEAN]
          /\ leased' \in [Jobs -> BOOLEAN]
      BY <1>7 DEF FailWrite
    <2>3. /\ left' \in [Jobs -> -(BusyTimeout + 1) .. LeaseSeconds]
          /\ pc' \in [Workers -> Places]
      BY <1>7, HoldsJob DEF FailWrite, HoldsJob, InRun
    <2>4. QED BY <1>7, <2>1, <2>2, <2>3 DEF FailWrite
  <1>8. CASE Report(w) BY <1>8 DEF Report, Release
  <1>9. QED BY <1>1, <1>2, <1>3, <1>4, <1>5, <1>6, <1>7, <1>8

\* So does the heartbeat thread, which renews or dies.
LEMMA BeatTypeOK ==
  ASSUME TypeOK, HoldsJob, NEW w \in Workers, Beat(w)
  PROVE  TypeOK'
  <1> USE QueueAssumption, HeartbeatType
        DEF TypeOK, tableVars, workerVars, timerVars, envVars
  <1>1. CASE Heartbeat(w)
    <2>0. job[w] \in Jobs BY <1>1 DEF Heartbeat, HoldsJob
    <2>1. left' \in [Jobs -> -(BusyTimeout + 1) .. LeaseSeconds] BY <1>1, <2>0 DEF Heartbeat
    <2>2. leased' \in [Jobs -> BOOLEAN] BY <1>1, <2>0 DEF Heartbeat
    <2>3. beat' \in [Workers -> 0 .. HeartbeatSeconds + BusyTimeout] BY <1>1 DEF Heartbeat
    <2>4. QED BY <1>1, <2>1, <2>2, <2>3 DEF Heartbeat
  <1>2. CASE HeartbeatDies(w) BY <1>2 DEF HeartbeatDies
  <1>3. QED BY <1>1, <1>2 DEF Beat

\* And what clients, signals, crashes and the clock do.
LEMMA WorldTypeOK ==
  ASSUME TypeOK,
         \/ \E j \in Jobs : Enqueue(j)
         \/ \E w \in Workers : Sigterm(w) \/ Crash(w)
         \/ Tick
  PROVE  TypeOK'
  <1> USE QueueAssumption, HeartbeatType
        DEF TypeOK, tableVars, workerVars, timerVars, envVars
  <1>1. ASSUME NEW j \in Jobs, Enqueue(j) PROVE TypeOK'
    BY <1>1 DEF Enqueue, Statuses
  <1>2. ASSUME NEW w \in Workers, Sigterm(w) PROVE TypeOK'
    BY <1>2 DEF Sigterm
  <1>3. ASSUME NEW w \in Workers, Crash(w) PROVE TypeOK'
    BY <1>3 DEF Crash, Places
  <1>4. CASE Tick BY <1>4 DEF Tick
  <1>5. QED BY <1>1, <1>2, <1>3, <1>4

\* A step of a worker that neither enters nor leaves _run_job.
LEMMA HoldsJobFrame ==
  ASSUME TypeOK, HoldsJob, NEW w \in Workers, NEW place \in Places,
         pc' = [pc EXCEPT ![w] = place], InRun(pc[w]) <=> InRun(place),
         UNCHANGED <<job, beating>>
  PROVE  HoldsJob'
  BY DEF TypeOK, HoldsJob

\* A step of a worker that leaves _run_job, or dies.
LEMMA HoldsJobLeave ==
  ASSUME TypeOK, HoldsJob, NEW w \in Workers, NEW place \in Places, ~InRun(place),
         pc' = [pc EXCEPT ![w] = place],
         job' = [job EXCEPT ![w] = NoJob],
         beating' = [beating EXCEPT ![w] = FALSE]
  PROVE  HoldsJob'
  BY DEF TypeOK, HoldsJob

\* A worker has a job exactly while it is in _run_job, and no heartbeat outlives
\* that.
LEMMA HoldsJobStep ==
  ASSUME TypeOK, HoldsJob, Next
  PROVE  HoldsJob'
  <1> USE DEF Places, InRun, Goto
  <1>1. CASE (\E j \in Jobs : Enqueue(j)) \/ Tick
    BY <1>1 DEF Enqueue, Tick, HoldsJob, workerVars, timerVars
  <1>2. ASSUME NEW w \in Workers, Start(w) PROVE HoldsJob'
    BY <1>2, HoldsJobFrame, "poll" \in Places DEF Start, Alive, TypeOK, timerVars
  <1>3. ASSUME NEW w \in Workers, Poll(w) PROVE HoldsJob'
    BY <1>3, HoldsJobFrame DEF Poll, timerVars
  <1>4. ASSUME NEW w \in Workers, pc[w] = "claim", NothingClaimed(w) PROVE HoldsJob'
    BY <1>4, HoldsJobFrame DEF NothingClaimed
  <1>5. ASSUME NEW w \in Workers, NEW j \in Jobs, Claim(w, j) PROVE HoldsJob'
    BY <1>5, QueueAssumption DEF Claim, HoldsJob, TypeOK
  <1>6. ASSUME NEW w \in Workers, Begin(w) \/ Plan(w) PROVE HoldsJob'
    BY <1>6, HoldsJobFrame DEF Begin, Plan, timerVars
  <1>7. ASSUME NEW w \in Workers, Complete(w) \/ Raise(w) PROVE HoldsJob'
    BY <1>7, HoldsJobFrame DEF Complete, Raise, timerVars
  <1>8. ASSUME NEW w \in Workers, FailRead(w) \/ FailWrite(w) PROVE HoldsJob'
    BY <1>8, HoldsJobFrame DEF FailRead, FailWrite, timerVars
  <1>9. ASSUME NEW w \in Workers, Finish(w) \/ Report(w) \/ Crash(w) PROVE HoldsJob'
    BY <1>9, HoldsJobLeave DEF Finish, Report, Release, Crash
  <1>10. ASSUME NEW w \in Workers, Beat(w) PROVE HoldsJob'
    BY <1>10 DEF Beat, Heartbeat, HeartbeatDies, HoldsJob, TypeOK, workerVars
  <1>11. ASSUME NEW w \in Workers, Sigterm(w) PROVE HoldsJob'
    BY <1>11 DEF Sigterm, HoldsJob, timerVars
  <1>12. QED
    BY <1>1, <1>2, <1>3, <1>4, <1>5, <1>6, <1>7, <1>8, <1>9, <1>10, <1>11
       DEF Next, Work, ClaimNone, DeadLetter

\* Stuttering changes nothing that the invariants speak of.
LEMMA Stutter ==
  ASSUME UNCHANGED vars
  PROVE  UNCHANGED <<status, attempts, leased, left, result, error, arrivals, pc, job,
                     spent, beating, beat, lag, stopping, signals, crashes>>
  BY DEF vars, tableVars, workerVars, timerVars, envVars

\* Every reachable state is well typed; no job is charged more than MaxAttempts
\* attempts, whatever is killed, and whatever raises.
THEOREM TypeCorrect == Spec => [](TypeOK /\ HoldsJob)
  <1>1. Init => TypeOK /\ HoldsJob
    <2>1. Init => HoldsJob BY DEF Init, HoldsJob, InRun
    <2>2. QED BY <2>1, InitTypeOK
  <1>2. TypeOK /\ HoldsJob /\ [Next]_vars => TypeOK' /\ HoldsJob'
    <2> SUFFICES ASSUME TypeOK, HoldsJob, [Next]_vars PROVE TypeOK' /\ HoldsJob'
      OBVIOUS
    <2>1. CASE Next
      <3>1. TypeOK'
        BY <2>1, LoopTypeOK, DeadLetterTypeOK, ClaimTypeOK, RunTypeOK, BeatTypeOK,
           WorldTypeOK DEF Next, Work
      <3>2. QED BY <2>1, <3>1, HoldsJobStep
    <2>2. CASE UNCHANGED vars
      BY <2>2, Stutter DEF TypeOK, HoldsJob
    <2>3. QED BY <2>1, <2>2
  <1>3. QED BY <1>1, <1>2, PTL DEF Spec

----------------------------------------------------------------------------
(* What holds whatever fails *)

\* The only writes to status, result, error and the lease keep the columns of
\* a row consistent with each other.
LEMMA RecoverableStep ==
  ASSUME TypeOK, HoldsJob, RowsRecoverable, Next
  PROVE  RowsRecoverable'
  <1> USE DEF TypeOK, RowsRecoverable, RunningHasLease, SettledIsExplained, tableVars, Goto
  <1>1. ASSUME NEW j \in Jobs, Enqueue(j) PROVE RowsRecoverable'
    BY <1>1 DEF Enqueue
  <1>2. ASSUME NEW w \in Workers, NEW j \in Jobs, DeadLetter(w, j) PROVE RowsRecoverable'
    BY <1>2 DEF DeadLetter, Bury
  <1>3. ASSUME NEW w \in Workers, NEW j \in Jobs, Claim(w, j) PROVE RowsRecoverable'
    BY <1>3 DEF Claim
  <1>4. ASSUME NEW w \in Workers, Complete(w) PROVE RowsRecoverable'
    BY <1>4 DEF Complete
  <1>5. ASSUME NEW w \in Workers, FailWrite(w) PROVE RowsRecoverable'
    BY <1>5 DEF FailWrite, Verdict
  <1>6. ASSUME NEW w \in Workers, Heartbeat(w) PROVE RowsRecoverable'
    BY <1>6 DEF Heartbeat
  <1>7. CASE Tick
    BY <1>7 DEF Tick
  <1>8. ASSUME UNCHANGED tableVars PROVE RowsRecoverable'
    BY <1>8
  <1>9. QED
    BY <1>1, <1>2, <1>3, <1>4, <1>5, <1>6, <1>7, <1>8
       DEF Next, Work, Beat, Start, Poll, ClaimNone, Begin, Plan, Finish, Raise, FailRead,
           Report, HeartbeatDies, Sigterm, Crash

\* A running job always has a lease that can run out, so no job is stuck in
\* running, and a settled job always shows a result or an error: with any
\* number of crashes, dead heartbeats and stale writers.
THEOREM AlwaysRecoverable == Spec => []RowsRecoverable
  <1>1. Init => RowsRecoverable
    BY DEF Init, RowsRecoverable, RunningHasLease, SettledIsExplained
  <1>2. TypeOK /\ HoldsJob /\ RowsRecoverable /\ [Next]_vars => RowsRecoverable'
    <2>1. CASE UNCHANGED vars
      BY <2>1, Stutter DEF RowsRecoverable, RunningHasLease, SettledIsExplained
    <2>2. QED BY <2>1, RecoverableStep
  <1>3. QED
    BY <1>1, <1>2, TypeCorrect, PTL DEF Spec

----------------------------------------------------------------------------
(* What holds while heartbeats succeed *)

Engaged(w) == Executing(w) \/ pc[w] = "finish"
Planning(w) == pc[w] \in {"begin", "plan", "complete"}

\* The inductive invariant.  The lease of an engaged worker was set to at least
\* LeaseSeconds - BusyTimeout when its heart last beat, and time has taken from
\* it only what it has added to beat[w].
HeartInv == \A w \in Workers : InRun(pc[w]) => beating[w]

RowInv ==
    \A w \in Workers :
        /\ Planning(w) => status[job[w]] = "running"
        /\ pc[w] = "finish" => status[job[w]] = "done"
        /\ Engaged(w) => status[job[w]] \in {"running", "done"}
        /\ pc[w] = "failWrite" => spent[w] = attempts[job[w]]

LeftInv ==
    \A w \in Workers :
        Engaged(w) /\ status[job[w]] = "running" =>
            /\ leased[job[w]]
            /\ left[job[w]] + beat[w] >= LeaseSeconds - BusyTimeout

Exclusive == \A v, w \in Workers : Engaged(v) /\ Engaged(w) /\ job[v] = job[w] => v = w

AttemptsInv ==
    /\ QueuedHasAttemptLeft
    /\ \A j \in Jobs : status[j] = "absent" => attempts[j] = 0

LeaseInv == HeartInv /\ RowInv /\ LeftInv /\ Exclusive /\ AttemptsInv

\* An engaged worker has a job of the table.
LEMMA EngagedHasJob ==
  ASSUME TypeOK, HoldsJob, NEW w \in Workers, InRun(pc[w])
  PROVE  job[w] \in Jobs
  BY DEF TypeOK, HoldsJob

\* Planning is engaged, and engaged is inside _run_job.
LEMMA EngagedInRun ==
  ASSUME NEW w \in Workers, Engaged(w) \/ Planning(w)
  PROVE  InRun(pc[w]) /\ Engaged(w)
  BY DEF Engaged, Planning, Executing, InRun

\* No claim, however late it got the write lock, sees the job of an engaged
\* worker as claimable.
LEMMA NotClaimable ==
  ASSUME LeaseOutlastsBeats, TypeOK, HoldsJob, LeaseInv,
         NEW w \in Workers, Engaged(w), NEW age \in 0 .. BusyTimeout
  PROVE  ~Claimable(job[w], age)
  <1>1. job[w] \in Jobs BY EngagedInRun, EngagedHasJob
  <1>2. status[job[w]] \in {"running", "done"} BY DEF LeaseInv, RowInv
  <1>3. CASE status[job[w]] = "done"
    BY <1>3 DEF Claimable
  <1>4. CASE status[job[w]] = "running"
    <2>1. /\ left[job[w]] + beat[w] >= LeaseSeconds - BusyTimeout
          /\ left[job[w]] \in Int
          /\ beat[w] \in 0 .. HeartbeatSeconds + BusyTimeout
      BY <1>1, <1>4, QueueAssumption DEF LeaseInv, LeftInv, TypeOK
    <2>2. left[job[w]] >= 0
      BY <2>1, QueueAssumption, HeartbeatType DEF LeaseOutlastsBeats
    <2>3. QED BY <1>4, <2>1, <2>2, QueueAssumption DEF Claimable, LeaseExpired
  <1>5. QED BY <1>2, <1>3, <1>4

\* The places at which a worker is engaged, seen from pc.
LEMMA EngagedPlaces ==
  \A w \in Workers :
      Engaged(w) <=> pc[w] \in {"begin", "plan", "complete", "finish", "fail", "failWrite"}
  BY DEF Engaged, Executing

\* A worker moves between two places of _run_job and the table stays as it is.
LEMMA MoveLeaseInv ==
  ASSUME TypeOK, HoldsJob, LeaseInv, NEW w \in Workers,
         Begin(w) \/ Plan(w) \/ Raise(w) \/ FailRead(w)
  PROVE  LeaseInv'
  <1> USE DEF TypeOK, Goto, tableVars, timerVars
  <1>1. UNCHANGED <<status, attempts, leased, left, job, beating, beat>>
    BY DEF Begin, Plan, Raise, FailRead
  <1>2. \A v \in Workers : v # w => UNCHANGED <<pc[v], spent[v]>>
    BY DEF Begin, Plan, Raise, FailRead
  <1>3. /\ Engaged(w)
        /\ pc'[w] \in {"plan", "complete", "fail", "failWrite"}
        /\ pc'[w] \in {"plan", "complete"} => Planning(w)
        /\ pc'[w] = "failWrite" => spent'[w] = attempts[job[w]]
    BY DEF Begin, Plan, Raise, FailRead, Engaged, Executing, Planning
  <1>4. \A v \in Workers : Engaged(v)' => Engaged(v)
    BY <1>2, <1>3 DEF Engaged, Executing
  <1>5. HeartInv'
    BY <1>1, <1>2, <1>3, EngagedInRun DEF LeaseInv, HeartInv, InRun
  <1>6. RowInv'
    BY <1>1, <1>2, <1>3, <1>4 DEF LeaseInv, RowInv, Planning
  <1>7. LeftInv'
    BY <1>1, <1>4 DEF LeaseInv, LeftInv
  <1>8. Exclusive'
    BY <1>1, <1>4 DEF LeaseInv, Exclusive
  <1>9. AttemptsInv'
    BY <1>1 DEF LeaseInv, AttemptsInv, QueuedHasAttemptLeft
  <1>10. QED BY <1>5, <1>6, <1>7, <1>8, <1>9 DEF LeaseInv

\* A worker is not engaged after the step and the table stays as it is.
LEMMA IdleLeaseInv ==
  ASSUME TypeOK, LeaseInv, NEW w \in Workers,
         \/ Start(w) \/ Poll(w) \/ ClaimNone(w) \/ Finish(w) \/ Report(w)
         \/ Sigterm(w) \/ Crash(w)
  PROVE  LeaseInv'
  <1> DEFINE Same(v) == UNCHANGED <<pc[v], job[v], spent[v], beating[v], beat[v]>>
  <1> USE DEF TypeOK, tableVars, timerVars
  <1>1. UNCHANGED <<status, attempts, leased, left>>
    BY DEF Start, Poll, ClaimNone, Finish, Report, Sigterm, Crash
  <1>2. \A v \in Workers : Same(v) \/ ~InRun(pc'[v])
    BY DEF Start, Poll, ClaimNone, NothingClaimed, Finish, Report, Release, Sigterm,
       Crash, InRun
  <1>3. \A v \in Workers : InRun(pc[v])' => Same(v)
    BY <1>2 DEF InRun
  <1>4. \A v \in Workers : Engaged(v)' => Same(v) /\ Engaged(v)
    BY <1>3 DEF Engaged, Executing, InRun
  <1>5. HeartInv' BY <1>3 DEF LeaseInv, HeartInv
  <1>6. RowInv'
    BY <1>1, <1>4 DEF LeaseInv, RowInv, Planning, Engaged, Executing
  <1>7. LeftInv' BY <1>1, <1>4 DEF LeaseInv, LeftInv
  <1>8. Exclusive' BY <1>4 DEF LeaseInv, Exclusive
  <1>9. AttemptsInv' BY <1>1 DEF LeaseInv, AttemptsInv, QueuedHasAttemptLeft
  <1>10. QED BY <1>5, <1>6, <1>7, <1>8, <1>9 DEF LeaseInv

\* Heartbeats renew at least LeaseSeconds - BusyTimeout, also when the worker
\* that beats has already given its job back.
LEMMA HeartbeatLeaseInv ==
  ASSUME TypeOK, HoldsJob, LeaseInv, NEW u \in Workers, Heartbeat(u)
  PROVE  LeaseInv'
  <1> USE DEF TypeOK, workerVars
  <1>1. job[u] \in Jobs BY DEF Heartbeat, HoldsJob
  <1>2. LeftInv'
    <2> SUFFICES ASSUME NEW w \in Workers, Engaged(w)', status'[job'[w]] = "running"
                 PROVE  /\ leased'[job'[w]]
                        /\ left'[job'[w]] + beat'[w] >= LeaseSeconds - BusyTimeout
      BY DEF LeftInv
    <2>0. /\ Engaged(w) /\ status[job[w]] = "running"
          /\ UNCHANGED <<pc, job, status>>
      BY DEF Heartbeat, Engaged, Executing
    <2>1. job[w] \in Jobs BY <2>0, EngagedInRun, EngagedHasJob
    <2>2. /\ leased[job[w]]
          /\ left[job[w]] + beat[w] >= LeaseSeconds - BusyTimeout
      BY <2>0 DEF LeaseInv, LeftInv
    <2>3. CASE job[w] = job[u]
      <3>1. leased'[job[w]] /\ left'[job[w]] >= LeaseSeconds - BusyTimeout
        BY <2>0, <2>1, <2>3, QueueAssumption, HeartbeatType DEF Heartbeat
      <3>2. beat'[w] \in Nat
        BY QueueAssumption, HeartbeatType DEF Heartbeat
      <3>3. left'[job[w]] \in Int
        BY <2>0, <2>1, <2>3, QueueAssumption, HeartbeatType DEF Heartbeat
      <3>4. QED BY <2>0, <3>1, <3>2, <3>3, QueueAssumption
    <2>4. CASE job[w] # job[u]
      <3>1. w # u BY <2>4
      <3>2. beat'[w] = beat[w] BY <3>1 DEF Heartbeat
      <3>3. leased'[job[w]] = leased[job[w]] /\ left'[job[w]] = left[job[w]]
        BY <1>1, <2>1, <2>4 DEF Heartbeat
      <3>4. QED BY <2>0, <2>2, <3>2, <3>3
    <2>5. QED BY <2>3, <2>4
  <1>3. UNCHANGED <<status, attempts, pc, job, spent, beating>>
    BY DEF Heartbeat
  <1>4. QED
    BY <1>2, <1>3 DEF LeaseInv, HeartInv, RowInv, Exclusive, AttemptsInv,
       QueuedHasAttemptLeft, Planning, Engaged, Executing

\* Time takes as much from a lease as it adds to the time since the last beat.
LEMMA TickLeaseInv ==
  ASSUME LeaseOutlastsBeats, TypeOK, HoldsJob, LeaseInv, Tick
  PROVE  LeaseInv'
  <1> USE DEF TypeOK, workerVars
  <1>1. UNCHANGED <<status, attempts, leased, pc, job, spent, beating>>
    BY DEF Tick
  <1>2. LeftInv'
    <2> SUFFICES ASSUME NEW w \in Workers, Engaged(w)', status'[job'[w]] = "running"
                 PROVE  /\ leased'[job'[w]]
                        /\ left'[job'[w]] + beat'[w] >= LeaseSeconds - BusyTimeout
      BY DEF LeftInv
    <2>1. Engaged(w) /\ status[job[w]] = "running"
      BY <1>1 DEF Engaged, Executing
    <2>2. job[w] \in Jobs /\ beating[w]
      BY <2>1, EngagedInRun, EngagedHasJob DEF LeaseInv, HeartInv
    <2>3. /\ leased[job[w]]
          /\ left[job[w]] + beat[w] >= LeaseSeconds - BusyTimeout
      BY <2>1 DEF LeaseInv, LeftInv
    <2>4. /\ left'[job[w]] \in {left[job[w]], left[job[w]] - 1}
          /\ beat'[w] = beat[w] + 1
      BY <2>2 DEF Tick
    <2>5. /\ left[job[w]] \in Int
          /\ beat[w] \in Int
      BY <2>2, QueueAssumption, HeartbeatType
    <2>6. QED BY <1>1, <2>3, <2>4, <2>5, QueueAssumption
  <1>3. QED
    BY <1>1, <1>2 DEF LeaseInv, HeartInv, RowInv, Exclusive, AttemptsInv,
       QueuedHasAttemptLeft, Planning, Engaged, Executing

\* A write to the row of a job that no worker is engaged in, by a worker that
\* does not become engaged.
LEMMA RowLeaseInv ==
  ASSUME TypeOK, HoldsJob, LeaseInv, NEW w \in Workers, NEW j \in Jobs,
         NEW place \in Places,
         \A v \in Workers : Engaged(v) /\ job[v] = j => v = w,
         pc' = [pc EXCEPT ![w] = place],
         place \notin {"begin", "plan", "complete", "fail", "failWrite"},
         place = "finish" => job[w] = j /\ status'[j] = "done",
         InRun(place) => beating[w],
         \A k \in Jobs : k # j => UNCHANGED <<status[k], attempts[k], leased[k], left[k]>>,
         status'[j] \in {"done", "dead", "queued"},
         status'[j] = "queued" => attempts'[j] < MaxAttempts,
         UNCHANGED <<job, spent, beating, beat>>
  PROVE  LeaseInv'
  <1> USE DEF TypeOK
  <1>1. \A v \in Workers : v # w => pc'[v] = pc[v]
    OBVIOUS
  <1>2. \A v \in Workers : v # w /\ Engaged(v) =>
            /\ job[v] \in Jobs
            /\ UNCHANGED <<status[job[v]], attempts[job[v]], leased[job[v]], left[job[v]]>>
    BY EngagedInRun, EngagedHasJob
  <1>3. \A v \in Workers : Engaged(v)' => IF v = w THEN place = "finish" ELSE Engaged(v)
    BY <1>1 DEF Engaged, Executing
  <1>4. HeartInv' BY <1>1 DEF LeaseInv, HeartInv
  <1>5. RowInv'
    <2> SUFFICES ASSUME NEW v \in Workers
                 PROVE  /\ Planning(v)' => status'[job'[v]] = "running"
                        /\ pc'[v] = "finish" => status'[job'[v]] = "done"
                        /\ Engaged(v)' => status'[job'[v]] \in {"running", "done"}
                        /\ pc'[v] = "failWrite" => spent'[v] = attempts'[job'[v]]
      BY DEF RowInv
    <2>1. CASE v = w
      BY <2>1 DEF Planning, Engaged, Executing
    <2>2. CASE v # w
      BY <1>1, <1>2, <2>2 DEF LeaseInv, RowInv, Planning, Engaged, Executing
    <2>3. QED BY <2>1, <2>2
  <1>6. LeftInv'
    <2> SUFFICES ASSUME NEW v \in Workers, Engaged(v)', status'[job'[v]] = "running"
                 PROVE  /\ leased'[job'[v]]
                        /\ left'[job'[v]] + beat'[v] >= LeaseSeconds - BusyTimeout
      BY DEF LeftInv
    <2>1. v # w BY <1>3
    <2>2. Engaged(v) BY <1>3, <2>1
    <2>3. QED BY <1>2, <2>1, <2>2 DEF LeaseInv, LeftInv
  <1>7. Exclusive'
    <2> SUFFICES ASSUME NEW u \in Workers, NEW v \in Workers,
                        Engaged(u)', Engaged(v)', job'[u] = job'[v]
                 PROVE  u = v
      BY DEF Exclusive
    <2>1. CASE u # w /\ v # w BY <1>3, <2>1 DEF LeaseInv, Exclusive
    <2>2. CASE u = w \/ v = w BY <1>3, <2>2
    <2>3. QED BY <2>1, <2>2
  <1>8. AttemptsInv'
    BY DEF LeaseInv, AttemptsInv, QueuedHasAttemptLeft
  <1>9. QED BY <1>4, <1>5, <1>6, <1>7, <1>8 DEF LeaseInv

\* The worker that ends an attempt, well or badly, is the only one engaged in
\* the job, and what it read of the attempts still holds when it writes.
LEMMA EndLeaseInv ==
  ASSUME TypeOK, HoldsJob, LeaseInv, NEW w \in Workers, Complete(w) \/ FailWrite(w)
  PROVE  LeaseInv'
  <1> USE DEF TypeOK, Goto, timerVars
  <1>1. /\ InRun(pc[w]) /\ Engaged(w)
        /\ job[w] \in Jobs
    BY EngagedHasJob DEF Complete, FailWrite, InRun, Engaged, Executing
  <1>2. \A v \in Workers : Engaged(v) /\ job[v] = job[w] => v = w
    BY <1>1 DEF LeaseInv, Exclusive
  <1>3. beating[w] BY <1>1 DEF LeaseInv, HeartInv
  <1>4. CASE Complete(w)
    BY <1>1, <1>2, <1>3, <1>4, RowLeaseInv, "finish" \in Places DEF Complete, Places
  <1>5. CASE FailWrite(w)
    <2>1. spent[w] = attempts[job[w]]
      BY <1>5 DEF FailWrite, LeaseInv, RowInv
    <2>2. /\ status'[job[w]] = Verdict(attempts[job[w]])
          /\ attempts[job[w]] \in 0 .. MaxAttempts
      BY <1>1, <1>5, <2>1 DEF FailWrite
    <2>3. /\ status'[job[w]] \in {"dead", "queued"}
          /\ status'[job[w]] = "queued" => attempts'[job[w]] < MaxAttempts
      BY <1>5, <2>2, QueueAssumption DEF Verdict, FailWrite
    <2>4. /\ pc' = [pc EXCEPT ![w] = "report"]
          /\ \A k \in Jobs : k # job[w] =>
                UNCHANGED <<status[k], attempts[k], leased[k], left[k]>>
          /\ UNCHANGED <<job, spent, beating, beat>>
      BY <1>5 DEF FailWrite
    <2>5. "report" \in Places BY DEF Places
    <2>6. status'[job[w]] \in {"done", "dead", "queued"} BY <2>3
    <2>7. QED
      <3> DEFINE j == job[w]  place == "report"
      <3>1. /\ place \notin {"begin", "plan", "complete", "fail", "failWrite"}
            /\ place # "finish"
        OBVIOUS
      <3>2. \A v \in Workers : Engaged(v) /\ job[v] = j => v = w BY <1>2
      <3>3. /\ pc' = [pc EXCEPT ![w] = place]
            /\ \A k \in Jobs : k # j => UNCHANGED <<status[k], attempts[k], leased[k], left[k]>>
            /\ UNCHANGED <<job, spent, beating, beat>>
        BY <2>4
      <3>4. j \in Jobs /\ place \in Places BY <1>1, <2>5
      <3>5. /\ status'[j] \in {"done", "dead", "queued"}
            /\ status'[j] = "queued" => attempts'[j] < MaxAttempts
        BY <2>3
      <3> HIDE DEF j, place, TypeOK
      <3>6. QED BY <1>3, <3>1, <3>2, <3>3, <3>4, <3>5, RowLeaseInv
  <1>6. QED BY <1>4, <1>5

\* A claim that buries a job finds one that no worker is engaged in.
LEMMA DeadLetterLeaseInv ==
  ASSUME LeaseOutlastsBeats, TypeOK, HoldsJob, LeaseInv,
         NEW w \in Workers, NEW j \in Jobs, DeadLetter(w, j)
  PROVE  LeaseInv'
  <1> USE DEF TypeOK
  <1>1. lag[w] \in 0 .. BusyTimeout /\ Claimable(j, lag[w])
    BY DEF DeadLetter, OldestClaimable
  <1>2. \A v \in Workers : ~(Engaged(v) /\ job[v] = j)
    BY <1>1, NotClaimable
  <1>3. QED
    BY <1>2, RowLeaseInv DEF DeadLetter, Bury, NothingClaimed, Places, InRun

\* A new row is in the queue with no attempt spent.
LEMMA EnqueueLeaseInv ==
  ASSUME TypeOK, HoldsJob, LeaseInv, NEW j \in Jobs, Enqueue(j)
  PROVE  LeaseInv'
  <1> USE DEF TypeOK, workerVars, timerVars
  <1>1. \A w \in Workers : Engaged(w) => job[w] # j
    BY DEF Enqueue, LeaseInv, RowInv
  <1>2. /\ UNCHANGED <<pc, job, spent, beating, beat, attempts, leased, left>>
        /\ \A k \in Jobs : k # j => status'[k] = status[k]
        /\ status'[j] = "queued" /\ attempts[j] = 0
    BY DEF Enqueue, LeaseInv, AttemptsInv
  <1>3. \A w \in Workers : Engaged(w) => job[w] \in Jobs /\ status'[job[w]] = status[job[w]]
    BY <1>1, <1>2, EngagedInRun, EngagedHasJob
  <1>4. HeartInv' BY <1>2 DEF LeaseInv, HeartInv
  <1>5. RowInv'
    BY <1>2, <1>3 DEF LeaseInv, RowInv, Planning, Engaged, Executing
  <1>6. LeftInv' BY <1>2, <1>3 DEF LeaseInv, LeftInv, Engaged, Executing
  <1>7. Exclusive' BY <1>2 DEF LeaseInv, Exclusive, Engaged, Executing
  <1>8. AttemptsInv'
    BY <1>2, QueueAssumption DEF LeaseInv, AttemptsInv, QueuedHasAttemptLeft
  <1>9. QED BY <1>4, <1>5, <1>6, <1>7, <1>8 DEF LeaseInv

\* A claim finds a job that no worker is engaged in, and sets a lease that is
\* short by the time it waited for the lock.
LEMMA ClaimLeaseInv ==
  ASSUME LeaseOutlastsBeats, TypeOK, HoldsJob, LeaseInv,
         NEW u \in Workers, NEW j \in Jobs, Claim(u, j)
  PROVE  LeaseInv'
  <1> USE DEF TypeOK
  <1>1. lag[u] \in 0 .. BusyTimeout /\ Claimable(j, lag[u])
    BY DEF Claim, OldestClaimable
  <1>2. \A v \in Workers : ~(Engaged(v) /\ job[v] = j)
    BY <1>1, NotClaimable
  <1>3. /\ pc'[u] = "begin" /\ job'[u] = j /\ beating'[u] /\ beat'[u] = beat[u]
        /\ status'[j] = "running" /\ leased'[j] /\ left'[j] = LeaseSeconds - lag[u]
    BY DEF Claim
  <1>4. \A v \in Workers : v # u =>
            UNCHANGED <<pc[v], job[v], spent[v], beating[v], beat[v]>>
    BY DEF Claim
  <1>5. \A k \in Jobs : k # j => UNCHANGED <<status[k], attempts[k], leased[k], left[k]>>
    BY DEF Claim
  <1>6. \A v \in Workers : v # u /\ Engaged(v)' =>
            /\ Engaged(v) /\ job[v] \in Jobs /\ job[v] # j
            /\ UNCHANGED <<status[job[v]], attempts[job[v]], leased[job[v]], left[job[v]]>>
    <2>1. \A v \in Workers : v # u /\ Engaged(v)' => Engaged(v)
      BY <1>4 DEF Engaged, Executing
    <2>2. \A v \in Workers : Engaged(v) => job[v] \in Jobs /\ job[v] # j
      BY <1>2, EngagedInRun, EngagedHasJob
    <2>3. QED
      <3> SUFFICES ASSUME NEW v \in Workers, v # u, Engaged(v)'
                   PROVE  /\ Engaged(v) /\ job[v] \in Jobs /\ job[v] # j
                          /\ UNCHANGED <<status[job[v]], attempts[job[v]], leased[job[v]],
                                        left[job[v]]>>
        OBVIOUS
      <3>1. Engaged(v) BY <2>1
      <3>2. job[v] \in Jobs /\ job[v] # j BY <2>2, <3>1
      <3>3. job'[v] = job[v] BY <1>4
      <3>4. /\ status'[job[v]] = status[job[v]] /\ attempts'[job[v]] = attempts[job[v]]
            /\ leased'[job[v]] = leased[job[v]] /\ left'[job[v]] = left[job[v]]
        BY <1>5, <3>2
      <3>5. QED BY <3>1, <3>2, <3>3, <3>4
  <1>7. HeartInv' BY <1>3, <1>4 DEF LeaseInv, HeartInv, InRun
  <1>8. RowInv'
    <2> SUFFICES ASSUME NEW v \in Workers
                 PROVE  /\ Planning(v)' => status'[job'[v]] = "running"
                        /\ pc'[v] = "finish" => status'[job'[v]] = "done"
                        /\ Engaged(v)' => status'[job'[v]] \in {"running", "done"}
                        /\ pc'[v] = "failWrite" => spent'[v] = attempts'[job'[v]]
      BY DEF RowInv
    <2>1. CASE v = u BY <1>3, <2>1
    <2>2. CASE v # u
      <3>1. CASE Engaged(v)'
        BY <1>4, <1>6, <2>2, <3>1 DEF LeaseInv, RowInv, Planning
      <3>2. CASE ~Engaged(v)'
        BY <3>2 DEF Engaged, Executing, Planning
      <3>3. QED BY <3>1, <3>2
    <2>3. QED BY <2>1, <2>2
  <1>9. LeftInv'
    <2> SUFFICES ASSUME NEW v \in Workers, Engaged(v)', status'[job'[v]] = "running"
                 PROVE  /\ leased'[job'[v]]
                        /\ left'[job'[v]] + beat'[v] >= LeaseSeconds - BusyTimeout
      BY DEF LeftInv
    <2>1. CASE v = u
      <3>1. beat[u] \in Nat BY QueueAssumption, HeartbeatType
      <3>2. LeaseSeconds - lag[u] + beat[u] >= LeaseSeconds - BusyTimeout
        <4> DEFINE late == lag[u]  since == beat[u]
        <4>1. /\ late \in Int /\ late <= BusyTimeout
              /\ since \in Nat
              /\ LeaseSeconds \in Nat /\ BusyTimeout \in Nat
          BY <1>1, <3>1, QueueAssumption
        <4> HIDE DEF late, since, TypeOK
        <4>2. LeaseSeconds - late + since >= LeaseSeconds - BusyTimeout BY <4>1
        <4>3. QED BY <4>2 DEF late, since
      <3>3. leased'[job'[u]] /\ left'[job'[u]] = LeaseSeconds - lag[u]
        BY <1>3
      <3>4. beat'[u] = beat[u] BY <1>3
      <3> HIDE DEF TypeOK
      <3>5. QED BY <2>1, <3>2, <3>3, <3>4
    <2>2. CASE v # u
      BY <1>4, <1>6, <2>2 DEF LeaseInv, LeftInv
    <2>3. QED BY <2>1, <2>2
  <1>10. Exclusive'
    <2> SUFFICES ASSUME NEW v \in Workers, NEW w \in Workers,
                        Engaged(v)', Engaged(w)', job'[v] = job'[w]
                 PROVE  v = w
      BY DEF Exclusive
    <2>1. CASE v # u /\ w # u BY <1>4, <1>6, <2>1 DEF LeaseInv, Exclusive
    <2>2. CASE v = u \/ w = u BY <1>3, <1>4, <1>6, <2>2
    <2>3. QED BY <2>1, <2>2
  <1>11. AttemptsInv'
    <2> SUFFICES ASSUME NEW k \in Jobs
                 PROVE  /\ status'[k] = "queued" => attempts'[k] < MaxAttempts
                        /\ status'[k] = "absent" => attempts'[k] = 0
      BY DEF AttemptsInv, QueuedHasAttemptLeft
    <2>1. CASE k = j BY <1>3, <2>1
    <2>2. CASE k # j
      BY <1>5, <2>2 DEF LeaseInv, AttemptsInv, QueuedHasAttemptLeft
    <2>3. QED BY <2>1, <2>2
  <1>12. QED BY <1>7, <1>8, <1>9, <1>10, <1>11 DEF LeaseInv

\* Every step keeps the lease invariant if no heartbeat raises.
LEMMA LeaseInvStep ==
  ASSUME LeaseOutlastsBeats, ~BeatFaults, TypeOK, HoldsJob, LeaseInv, Next
  PROVE  LeaseInv'
  <1>1. ASSUME NEW w \in Workers, Beat(w) PROVE LeaseInv'
    BY <1>1, HeartbeatLeaseInv DEF Beat, HeartbeatDies
  <1>2. QED
    BY <1>1, MoveLeaseInv, IdleLeaseInv, TickLeaseInv, EndLeaseInv, DeadLetterLeaseInv,
       EnqueueLeaseInv, ClaimLeaseInv
       DEF Next, Work

\* The lease invariant holds of every behaviour of the queue.
LEMMA LeaseInvariant ==
  ASSUME LeaseOutlastsBeats, ~BeatFaults
  PROVE  Spec => []LeaseInv
  <1>1. Init => LeaseInv
    BY QueueAssumption
       DEF Init, LeaseInv, HeartInv, RowInv, LeftInv, Exclusive, AttemptsInv,
           QueuedHasAttemptLeft, InRun, Planning, Engaged, Executing
  <1>2. TypeOK /\ HoldsJob /\ LeaseInv /\ [Next]_vars => LeaseInv'
    <2>1. CASE UNCHANGED vars
      BY <2>1, Stutter
         DEF LeaseInv, HeartInv, RowInv, LeftInv, Exclusive, AttemptsInv,
             QueuedHasAttemptLeft, Planning, Engaged, Executing
    <2>2. QED BY <2>1, LeaseInvStep
  <1>3. QED BY <1>1, <1>2, TypeCorrect, PTL DEF Spec

\* Two workers never run the same job at the same time, and the job a worker is
\* planning is out of every claim's reach: for any number of jobs and workers,
\* through crashes, restarts and waits for the write lock, as long as heartbeats
\* do not raise and a lease outlasts a heartbeat and two waits.
THEOREM LeaseExcludes ==
  ASSUME LeaseOutlastsBeats, ~BeatFaults
  PROVE  Spec => [](MutualExclusion /\ LiveWorkerKeepsJob)
  <1>1. TypeOK /\ HoldsJob /\ LeaseInv => MutualExclusion
    BY DEF LeaseInv, Exclusive, MutualExclusion, Engaged
  <1>2. TypeOK /\ HoldsJob /\ LeaseInv => LiveWorkerKeepsJob
    <2> SUFFICES ASSUME TypeOK, HoldsJob, LeaseInv, NEW w \in Workers, Planning(w)
                 PROVE  /\ status[job[w]] = "running"
                        /\ \A age \in 0 .. BusyTimeout : ~Claimable(job[w], age)
      BY DEF LiveWorkerKeepsJob, Planning
    <2>1. status[job[w]] = "running" BY DEF LeaseInv, RowInv
    <2>2. QED BY <2>1, EngagedInRun, NotClaimable
  <1>3. QED BY <1>1, <1>2, TypeCorrect, LeaseInvariant, PTL

\* Under the same assumptions fail() never leaves a job in the queue whose
\* attempts are spent, although it reads them in a transaction of its own.
THEOREM QueueHasRunnableJobs ==
  ASSUME LeaseOutlastsBeats, ~BeatFaults
  PROVE  Spec => []QueuedHasAttemptLeft
  <1>1. LeaseInv => QueuedHasAttemptLeft
    BY DEF LeaseInv, AttemptsInv
  <1>2. QED BY <1>1, LeaseInvariant, PTL

----------------------------------------------------------------------------
(***************************************************************************)
(* The queue keeps the contract of JobContract, and what follows for a     *)
(* worker that is alive.  Both need what the lease needs; the contract     *)
(* also needs that no append of a "finished" event raises, since fail()    *)
(* would then requeue a job that is done.                                  *)
(***************************************************************************)

\* A settled job shows its result or its error, whatever fails.
THEOREM SettledAlwaysExplained == Spec => []SettledIsExplained
  <1>1. RowsRecoverable => SettledIsExplained
    BY DEF RowsRecoverable
  <1>2. QED BY <1>1, AlwaysRecoverable, PTL

\* The job that a worker plans stays its own: no claim can take it.
THEOREM LiveWorkersKeepJobs ==
  ASSUME LeaseOutlastsBeats, ~BeatFaults
  PROVE  Spec => []LiveWorkerKeepsJob
  BY LeaseExcludes, PTL

----------------------------------------------------------------------------
(* The row of a job that is being worked on *)

QueueInv == TypeOK /\ HoldsJob /\ LeaseInv

\* Which worker works on what is all that Lost() depends on, besides the row.
Works(w, j) == Executing(w) /\ job[w] = j

\* The row of a job that another worker works on is not written by this step.
LEMMA OthersLeaveRow ==
  ASSUME LeaseOutlastsBeats, ~BeatFaults, QueueInv, Next,
         NEW w \in Workers, Engaged(w), pc'[w] = pc[w], job'[w] = job[w]
  PROVE  status'[job[w]] = status[job[w]] /\ attempts'[job[w]] = attempts[job[w]]
  <1> USE DEF QueueInv, TypeOK
  <1>1. job[w] \in Jobs BY EngagedInRun, EngagedHasJob
  <1>2. status[job[w]] \in {"running", "done"} BY DEF LeaseInv, RowInv
  <1>3. ASSUME NEW j \in Jobs, Enqueue(j)
        PROVE  status'[job[w]] = status[job[w]] /\ attempts'[job[w]] = attempts[job[w]]
    BY <1>1, <1>2, <1>3 DEF Enqueue
  <1>4. ASSUME NEW v \in Workers, NEW j \in Jobs, DeadLetter(v, j) \/ Claim(v, j)
        PROVE  status'[job[w]] = status[job[w]] /\ attempts'[job[w]] = attempts[job[w]]
    <2>1. lag[v] \in 0 .. BusyTimeout /\ Claimable(j, lag[v])
      BY <1>4 DEF DeadLetter, Claim, OldestClaimable
    <2>2. job[w] # j BY <2>1, NotClaimable
    <2>3. QED BY <1>1, <1>4, <2>2 DEF DeadLetter, Bury, Claim
  <1>5. ASSUME NEW v \in Workers, Complete(v) \/ FailWrite(v)
        PROVE  status'[job[w]] = status[job[w]] /\ attempts'[job[w]] = attempts[job[w]]
    <2>1. Engaged(v) /\ pc'[v] # pc[v]
      BY <1>5 DEF Complete, FailWrite, Goto, Engaged, Executing
    <2>2. v # w BY <2>1
    <2>3. job[v] # job[w] BY <2>1, <2>2 DEF LeaseInv, Exclusive
    <2>4. QED BY <1>1, <1>5, <2>3 DEF Complete, FailWrite
  <1>6. CASE UNCHANGED <<status, attempts>>
    BY <1>6
  <1>7. QED
    BY <1>3, <1>4, <1>5, <1>6
       DEF Next, Work, Beat, Start, Poll, ClaimNone, Begin, Plan, Finish, Raise, FailRead,
           Report, Heartbeat, HeartbeatDies, Sigterm, Crash, Tick, tableVars

\* The row of a job is moved, and charged an attempt, by the worker that plans
\* it alone.
THEOREM OwnersEndRuns ==
  ASSUME LeaseOutlastsBeats, ~BeatFaults
  PROVE  Spec => OnlyOwnerEndsRun
  <1>1. QueueInv /\ [Next]_vars =>
           [\A w \in Workers :
               pc[w] \in {"begin", "plan", "complete"} /\ job'[w] = job[w] /\ pc'[w] = pc[w] =>
                   /\ status'[job[w]] = status[job[w]]
                   /\ attempts'[job[w]] = attempts[job[w]]]_vars
    <2>1. \A w \in Workers : pc[w] \in {"begin", "plan", "complete"} => Engaged(w)
      BY DEF Engaged, Executing
    <2>2. QED BY <2>1, OthersLeaveRow
  <1>2. QED BY <1>1, TypeCorrect, LeaseInvariant, PTL DEF Spec, QueueInv, OnlyOwnerEndsRun

----------------------------------------------------------------------------
(* The contract *)

\* Unless an append raises, the row of a job that is worked on is "running" to
\* the end of the attempt.
RunningInv == \A w \in Workers : Executing(w) => status[job[w]] = "running"

LEMMA RunningStep ==
  ASSUME LeaseOutlastsBeats, ~BeatFaults, ~AppendFaults, QueueInv, RunningInv, Next
  PROVE  RunningInv'
  <1> USE DEF QueueInv, TypeOK
  <1> SUFFICES ASSUME NEW w \in Workers, Executing(w)' PROVE status'[job'[w]] = "running"
    BY DEF RunningInv
  <1>1. CASE pc'[w] = pc[w] /\ job'[w] = job[w]
    <2>1. Executing(w) /\ Engaged(w) BY <1>1 DEF Executing, Engaged
    <2>2. QED BY <1>1, <2>1, OthersLeaveRow DEF RunningInv
  <1>2. ASSUME NEW j \in Jobs, Claim(w, j) PROVE status'[job'[w]] = "running"
    BY <1>2 DEF Claim
  <1>3. CASE Begin(w) \/ Plan(w) \/ Raise(w) \/ FailRead(w)
    <2>1. Executing(w) /\ job'[w] = job[w] /\ status' = status
      BY <1>3 DEF Begin, Plan, Raise, FailRead, Goto, Executing, tableVars
    <2>2. QED BY <2>1 DEF RunningInv
  <1>4. ASSUME NEW v \in Workers \ {w}, Work(v) \/ Crash(v)
        PROVE  pc'[w] = pc[w] /\ job'[w] = job[w]
    <2>1. ASSUME NEW j \in Jobs, DeadLetter(v, j) \/ Claim(v, j)
          PROVE  pc'[w] = pc[w] /\ job'[w] = job[w]
      BY <2>1 DEF DeadLetter, NothingClaimed, Claim
    <2>2. CASE Start(v) \/ Poll(v) \/ ClaimNone(v) \/ Begin(v) \/ Plan(v) \/ Complete(v)
      BY <2>2 DEF Start, Poll, ClaimNone, NothingClaimed, Begin, Plan, Complete, Goto
    <2>3. CASE \/ Finish(v) \/ Raise(v) \/ FailRead(v) \/ FailWrite(v) \/ Report(v)
               \/ Crash(v)
      BY <2>3 DEF Finish, Release, Raise, FailRead, FailWrite, Report, Crash, Goto
    <2>4. QED BY <1>4, <2>1, <2>2, <2>3 DEF Work
  <1>5. CASE \/ Start(w) \/ Poll(w) \/ ClaimNone(w) \/ (\E j \in Jobs : DeadLetter(w, j))
             \/ Complete(w) \/ Finish(w) \/ FailWrite(w) \/ Report(w) \/ Crash(w)
    BY <1>5 DEF Start, Poll, ClaimNone, DeadLetter, NothingClaimed, Complete, Finish, Release,
                FailWrite, Report, Crash, Goto, Executing
  <1>6. CASE \/ (\E j \in Jobs : Enqueue(j)) \/ Tick
             \/ \E v \in Workers : Beat(v) \/ Sigterm(v)
    <2>1. pc' = pc /\ job' = job
      BY <1>6 DEF Enqueue, Tick, Beat, Heartbeat, HeartbeatDies, Sigterm, workerVars
    <2>2. QED BY <1>1, <2>1
  <1>7. ASSUME NEW v \in Workers, Work(v) \/ Crash(v) PROVE status'[job'[w]] = "running"
    <2>1. CASE v # w BY <1>1, <1>4, <1>7, <2>1
    <2>2. CASE v = w BY <1>2, <1>3, <1>5, <1>7, <2>2 DEF Work
    <2>3. QED BY <2>1, <2>2
  <1>8. QED BY <1>6, <1>7 DEF Next

lost == [j \in Jobs |-> Lost(j)]

\* A step after which every job has the status and the attempts it had, and the
\* workers that work work on the same, is no step of the contract.
LEMMA Stutters ==
  ASSUME UNCHANGED <<status, attempts>>,
         \A w \in Workers, j \in Jobs : Works(w, j)' <=> Works(w, j)
  PROVE  UNCHANGED <<status, attempts, lost>>
  <1>1. \A j \in Jobs : Lost(j)' = Lost(j)
    BY DEF Lost, Works
  <1>2. QED BY <1>1 DEF lost

LEMMA ContractStep ==
  ASSUME LeaseOutlastsBeats, ~BeatFaults, ~AppendFaults, QueueInv, RunningInv, Next
  PROVE  Contract!Next \/ UNCHANGED <<status, attempts, lost>>
  <1> USE DEF QueueInv, TypeOK
  <1>1. ASSUME NEW j \in Jobs, Enqueue(j) PROVE Contract!Submit(j)
    <2>1. status' = [status EXCEPT ![j] = "queued"] /\ attempts' = attempts /\ status[j] = "absent"
          /\ pc' = pc /\ job' = job
      BY <1>1 DEF Enqueue, workerVars
    <2>2. \A k \in Jobs : Lost(k)' = Lost(k)
      BY <2>1 DEF Lost, Executing
    <2>3. lost' = lost BY <2>2 DEF lost
    <2>4. QED BY <2>1, <2>3 DEF Contract!Submit, lost
  <1>2. ASSUME NEW w \in Workers, NEW j \in Jobs, DeadLetter(w, j) PROVE Contract!GiveUp(j)
    <2>1. /\ lag[w] \in 0 .. BusyTimeout /\ Claimable(j, lag[w]) /\ attempts[j] + 1 > MaxAttempts
          /\ attempts[j] \in 0 .. MaxAttempts
      BY <1>2 DEF DeadLetter, OldestClaimable, OverCap
    <2>2. status[j] = "running" /\ attempts[j] = MaxAttempts
      BY <2>1, QueueAssumption DEF Claimable, LeaseInv, AttemptsInv, QueuedHasAttemptLeft
    <2>3. status' = [status EXCEPT ![j] = "dead"] /\ attempts' = attempts
      BY <1>2 DEF DeadLetter, Bury
    <2>4. \A v \in Workers, k \in Jobs : Works(v, k)' <=> Works(v, k)
      BY <1>2 DEF DeadLetter, NothingClaimed, Works, Executing
    <2>5. \A k \in Jobs \ {j} : Lost(k)' = Lost(k)
      BY <2>3, <2>4 DEF Lost, Works
    <2>6. Lost(j)' = FALSE BY <2>3 DEF Lost
    <2>7. lost' = [lost EXCEPT ![j] = FALSE] BY <2>5, <2>6 DEF lost
    <2>8. QED BY <2>2, <2>3, <2>7 DEF Contract!GiveUp, lost
  <1>3. ASSUME NEW w \in Workers, NEW j \in Jobs, Claim(w, j) PROVE Contract!HandOut(j)
    <2>1. /\ lag[w] \in 0 .. BusyTimeout /\ Claimable(j, lag[w]) /\ ~(attempts[j] + 1 > MaxAttempts)
          /\ attempts[j] \in 0 .. MaxAttempts /\ pc[w] = "claim"
      BY <1>3 DEF Claim, OldestClaimable, OverCap
    <2>2. \A v \in Workers : ~Works(v, j)
      BY <2>1, NotClaimable DEF Works, Engaged
    <2>3. status[j] = "queued" \/ (status[j] = "running" /\ Lost(j))
      <3>1. status[j] = "queued" \/ status[j] = "running" BY <2>1 DEF Claimable
      <3>2. status[j] = "running" => Lost(j) BY <2>2 DEF Lost, Works
      <3>3. QED BY <3>1, <3>2
    <2>4. attempts[j] < MaxAttempts
      BY <2>1, QueueAssumption
    <2>5. /\ status' = [status EXCEPT ![j] = "running"]
          /\ attempts' = [attempts EXCEPT ![j] = @ + 1]
          /\ pc' = [pc EXCEPT ![w] = "begin"] /\ job' = [job EXCEPT ![w] = j]
      BY <1>3 DEF Claim
    <2>6. \A v \in Workers, k \in Jobs \ {j} : Works(v, k)' <=> Works(v, k)
      BY <2>1, <2>5 DEF Works, Executing
    <2>7. Works(w, j)' BY <2>5 DEF Works, Executing
    <2>8. \A k \in Jobs \ {j} : Lost(k)' = Lost(k)
      BY <2>5, <2>6 DEF Lost, Works
    <2>9. Lost(j)' = FALSE BY <2>7 DEF Lost, Works
    <2>10. lost' = [lost EXCEPT ![j] = FALSE] BY <2>8, <2>9 DEF lost
    <2>11. QED BY <2>3, <2>4, <2>5, <2>10 DEF Contract!HandOut, lost
  <1>4. ASSUME NEW w \in Workers, Complete(w) \/ FailWrite(w)
        PROVE  \E j \in Jobs : Contract!Finish(j) \/ Contract!Retry(j) \/ Contract!GiveUp(j)
    <2>1. Executing(w) /\ Engaged(w) BY <1>4 DEF Complete, FailWrite, Goto, Executing, Engaged
    <2>2. PICK j \in Jobs : j = job[w] BY <2>1, EngagedInRun, EngagedHasJob
    <2>3. status[j] = "running" BY <2>1, <2>2 DEF RunningInv
    <2>4. Lost(j) = FALSE BY <2>1, <2>2 DEF Lost
    <2>5. attempts[j] \in 0 .. MaxAttempts /\ attempts' = attempts /\ job' = job
          /\ \A v \in Workers \ {w} : pc'[v] = pc[v]
      BY <1>4 DEF Complete, FailWrite, Goto
    <2>6. PICK s \in {"done", "queued", "dead"} :
             /\ status' = [status EXCEPT ![j] = s]
             /\ s = "queued" => attempts[j] < MaxAttempts
             /\ s = "dead" => attempts[j] = MaxAttempts
      <3>1. CASE Complete(w) BY <2>2, <3>1 DEF Complete
      <3>2. CASE FailWrite(w)
        <4>1. spent[w] = attempts[j] BY <2>2, <3>2 DEF FailWrite, Goto, LeaseInv, RowInv
        <4>2. status' = [status EXCEPT ![j] = Verdict(attempts[j])]
          BY <2>2, <3>2, <4>1 DEF FailWrite
        <4> HIDE DEF TypeOK
        <4>3. /\ Verdict(attempts[j]) \in {"queued", "dead"}
              /\ Verdict(attempts[j]) = "queued" => attempts[j] < MaxAttempts
              /\ Verdict(attempts[j]) = "dead" => attempts[j] = MaxAttempts
          BY <2>5, QueueAssumption DEF Verdict
        <4>4. QED BY <4>2, <4>3
      <3>3. QED BY <1>4, <3>1, <3>2
    <2>7. \A v \in Workers, k \in Jobs \ {j} : Works(v, k)' <=> Works(v, k)
      BY <2>2, <2>5 DEF Works, Executing
    <2>8. \A k \in Jobs \ {j} : Lost(k)' = Lost(k)
      BY <2>6, <2>7 DEF Lost, Works
    <2>9. Lost(j)' = FALSE
      <3>1. status'[j] = s BY <2>2, <2>6
      <3>2. status'[j] # "running" BY <3>1
      <3>3. QED BY <3>2 DEF Lost
    <2>10. lost' = lost /\ lost' = [lost EXCEPT ![j] = FALSE]
      BY <2>2, <2>4, <2>8, <2>9 DEF lost
    <2>11. lost[j] = FALSE BY <2>2, <2>4 DEF lost
    <2>12. QED
      BY <2>2, <2>3, <2>5, <2>6, <2>10, <2>11
         DEF Contract!Finish, Contract!Retry, Contract!GiveUp, lost
  <1>5. ASSUME NEW w \in Workers, Crash(w), Executing(w) PROVE \E j \in Jobs : Contract!Lose(j)
    <2>0. Engaged(w) BY <1>5 DEF Engaged
    <2>1. PICK j \in Jobs : j = job[w] BY <2>0, EngagedInRun, EngagedHasJob
    <2>2. status[j] = "running" /\ Lost(j) = FALSE BY <1>5, <2>1 DEF RunningInv, Lost
    <2>3. /\ status' = status /\ attempts' = attempts /\ pc'[w] = "down"
          /\ \A v \in Workers \ {w} : pc'[v] = pc[v] /\ job'[v] = job[v]
      BY <1>5 DEF Crash, tableVars
    <2>4. \A v \in Workers : ~Works(v, j)'
      <3> SUFFICES ASSUME NEW v \in Workers, Works(v, j)' PROVE FALSE
        OBVIOUS
      <3>1. v # w BY <2>3 DEF Works, Executing
      <3>2. Works(v, j) BY <2>3, <3>1 DEF Works, Executing
      <3>3. QED BY <2>0, <2>1, <3>1, <3>2 DEF Works, Engaged, LeaseInv, Exclusive
    <2>5. Lost(j)' = TRUE
      <3>1. status'[j] = "running" BY <2>2, <2>3
      <3>2. QED BY <2>4, <3>1 DEF Lost, Works
    <2>6. \A v \in Workers, k \in Jobs \ {j} : Works(v, k)' <=> Works(v, k)
      BY <2>1, <2>3 DEF Works, Executing
    <2>7. \A k \in Jobs \ {j} : Lost(k)' = Lost(k)
      BY <2>3, <2>6 DEF Lost, Works
    <2>8. lost' = [lost EXCEPT ![j] = TRUE] /\ lost[j] = FALSE
      BY <2>1, <2>2, <2>5, <2>7 DEF lost
    <2>9. QED BY <2>1, <2>2, <2>3, <2>8 DEF Contract!Lose, lost
  <1>6. ASSUME NEW w \in Workers,
               \/ Start(w) \/ Poll(w) \/ ClaimNone(w) \/ Begin(w) \/ Plan(w) \/ Finish(w)
               \/ Raise(w) \/ FailRead(w) \/ Report(w) \/ Beat(w) \/ Sigterm(w)
               \/ Crash(w) /\ ~Executing(w)
        PROVE  UNCHANGED <<status, attempts, lost>>
    <2>1. UNCHANGED <<status, attempts>>
      BY <1>6 DEF Start, Poll, ClaimNone, Begin, Plan, Finish, Raise, FailRead, Report, Beat,
                  Heartbeat, HeartbeatDies, Sigterm, Crash, tableVars
    <2>2. /\ Executing(w)' <=> Executing(w)
          /\ Executing(w) => job'[w] = job[w]
          /\ \A v \in Workers \ {w} : pc'[v] = pc[v] /\ job'[v] = job[v]
      BY <1>6 DEF Start, Poll, ClaimNone, NothingClaimed, Begin, Plan, Finish, Release, Raise,
                  FailRead, Report, Beat, Heartbeat, HeartbeatDies, Sigterm, Crash, Goto,
                  Executing, Alive, workerVars
    <2>3. \A v \in Workers, j \in Jobs : Works(v, j)' <=> Works(v, j)
      BY <2>2 DEF Works, Executing
    <2>4. QED BY <2>1, <2>3, Stutters
  <1>7. CASE Tick
    <2>1. UNCHANGED <<status, attempts, pc, job>> BY <1>7 DEF Tick, workerVars
    <2>2. QED BY <2>1, Stutters DEF Works, Executing
  <1>8. QED
    BY <1>1, <1>2, <1>3, <1>4, <1>5, <1>6, <1>7 DEF Next, Work, Contract!Next

LEMMA QueueRuns ==
  ASSUME LeaseOutlastsBeats, ~BeatFaults, ~AppendFaults
  PROVE  Spec => [](QueueInv /\ RunningInv)
  <1>1. Init => RunningInv
    BY DEF Init, RunningInv, Executing
  <1>2. QueueInv /\ RunningInv /\ [Next]_vars => RunningInv'
    <2>1. CASE UNCHANGED vars
      BY <2>1, Stutter DEF RunningInv, Executing
    <2>2. QED BY <2>1, RunningStep
  <1>3. QED
    BY <1>1, <1>2, TypeCorrect, LeaseInvariant, PTL DEF Spec, QueueInv

\* The queue keeps its contract: at-least-once delivery, no worker loses its job
\* while it lives, MaxAttempts attempts, one verdict.
THEOREM QueueImplementsContract ==
  ASSUME LeaseOutlastsBeats, ~BeatFaults, ~AppendFaults
  PROVE  Spec => ImplementsContract
  <1>1. Init => Contract!Init
    BY DEF Init, Contract!Init, Lost
  <1>2. QueueInv /\ RunningInv /\ [Next]_vars
            => [Contract!Next]_<<status, attempts, [j \in Jobs |-> Lost(j)]>>
    <2>1. CASE UNCHANGED vars
      <3>1. UNCHANGED <<status, attempts>>
            /\ \A w \in Workers, j \in Jobs : Works(w, j)' <=> Works(w, j)
        BY <2>1, Stutter DEF Works, Executing
      <3>2. QED BY <3>1, Stutters DEF lost
    <2>2. QED BY <2>1, ContractStep DEF lost
  <1>3. QED
    BY <1>1, <1>2, QueueRuns, PTL
       DEF Spec, ImplementsContract, Contract!Spec, Contract!contractVars

----------------------------------------------------------------------------
(***************************************************************************)
(* The writes that are left to a row, whatever fails.  A step moves one    *)
(* worker, so what it does to the two sets of workers is what it does to   *)
(* that one.                                                               *)
(***************************************************************************)

FailPlaces == {"begin", "plan", "complete", "finish", "fail", "failWrite"}
CompletePlaces == {"begin", "plan", "complete"}

MayFail(w, j) == IF job[w] = j /\ pc[w] \in FailPlaces THEN 1 ELSE 0
MayComplete(w, j) == IF job[w] = j /\ pc[w] \in CompletePlaces THEN 1 ELSE 0

RowKept(j) ==
  /\ status'[j] = status[j] /\ attempts'[j] = attempts[j]
  /\ result'[j] = result[j] /\ error'[j] = error[j]

\* What VerdictsRunOut says of one row.
RunsOut(j) ==
  /\ 0 <= WritesLeft(j)' /\ WritesLeft(j)' <= WritesLeft(j)
  /\ ~RowKept(j) => WritesLeft(j)' < WritesLeft(j)

\* A finite set of workers of which at most w leaves or joins.
LEMMA CountOfOne ==
  ASSUME NEW S, NEW T, IsFiniteSet(S), NEW w, T \ {w} = S \ {w}
  PROVE  /\ IsFiniteSet(T) /\ Cardinality(S) \in Nat /\ Cardinality(T) \in Nat
         /\ Cardinality(T) = Cardinality(S) + (IF w \in T THEN 1 ELSE 0)
                                            - (IF w \in S THEN 1 ELSE 0)
  <1> DEFINE R == S \ {w}
  <1>1. IsFiniteSet(R) /\ Cardinality(R) \in Nat
    BY FS_Subset, FS_CardinalityType
  <1>2. Cardinality(S) = Cardinality(R) + (IF w \in S THEN 1 ELSE 0)
    <2>1. CASE w \in S
      <3>1. S = R \cup {w} /\ w \notin R BY <2>1
      <3>2. QED BY <1>1, <2>1, <3>1, FS_AddElement
    <2>2. CASE w \notin S
      <3>1. S = R BY <2>2
      <3>2. Cardinality(S) = Cardinality(R) BY <3>1
      <3> HIDE DEF R
      <3>3. QED BY <1>1, <2>2, <3>2
    <2>3. QED BY <2>1, <2>2
  <1>3. IsFiniteSet(T) /\ Cardinality(T) = Cardinality(R) + (IF w \in T THEN 1 ELSE 0)
    <2>1. CASE w \in T
      <3>1. T = R \cup {w} /\ w \notin R BY <2>1
      <3>2. IsFiniteSet(R \cup {w}) BY <1>1, FS_AddElement
      <3>3. QED BY <1>1, <2>1, <3>1, <3>2, FS_AddElement
    <2>2. CASE w \notin T
      <3>1. T = R BY <2>2
      <3>2. QED BY <1>1, <2>2, <3>1
    <2>3. QED BY <2>1, <2>2
  <1>4. QED BY <1>1, <1>2, <1>3

\* Two values of the measure, and what lies between them.
LEMMA MeasureArithmetic ==
  ASSUME NEW m \in Nat, NEW a \in 0 .. m, NEW b \in 0 .. m,
         NEW f \in Nat, NEW g \in Nat, NEW c \in Nat, NEW d \in Nat,
         NEW u \in 0 .. 2, NEW v \in 0 .. 2
  PROVE  LET before == 5 * (m - a) + 2 * (f + c) + u
             after == 5 * (m - b) + 2 * (g + d) + v
         IN  /\ before \in Nat /\ after \in Nat
             /\ after = before - 5 * (b - a) + 2 * (g - f) + 2 * (d - c) + (v - u)
  OBVIOUS

\* A step that moves at most worker w changes the measure by what it does to w
\* and to the row.
LEMMA MeasureOfOne ==
  ASSUME IsFiniteSet(Workers), TypeOK, TypeOK', NEW w \in Workers, NEW j \in Jobs,
         \A v \in Workers \ {w} : pc'[v] = pc[v] /\ job'[v] = job[v]
  PROVE  /\ WritesLeft(j) \in Nat /\ WritesLeft(j)' \in Nat
         /\ MayFail(w, j) \in 0 .. 1 /\ MayFail(w, j)' \in 0 .. 1
         /\ MayComplete(w, j) \in 0 .. 1 /\ MayComplete(w, j)' \in 0 .. 1
         /\ Unsettled(j) \in 0 .. 2 /\ Unsettled(j)' \in 0 .. 2
         /\ attempts[j] \in Nat /\ attempts'[j] \in Nat
         /\ WritesLeft(j)' = WritesLeft(j) - 5 * (attempts'[j] - attempts[j])
                               + 2 * (MayFail(w, j)' - MayFail(w, j))
                               + 2 * (MayComplete(w, j)' - MayComplete(w, j))
                               + (Unsettled(j)' - Unsettled(j))
  <1>1. IsFiniteSet(Failing(j)) /\ IsFiniteSet(Completing(j))
    <2>1. Failing(j) \subseteq Workers /\ Completing(j) \subseteq Workers
      BY DEF Failing, Completing
    <2>2. QED BY <2>1, FS_Subset
  <1>2. /\ Failing(j)' \ {w} = Failing(j) \ {w}
        /\ Completing(j)' \ {w} = Completing(j) \ {w}
    BY DEF Failing, Completing
  <1>3. /\ MayFail(w, j) = IF w \in Failing(j) THEN 1 ELSE 0
        /\ MayFail(w, j)' = IF w \in Failing(j)' THEN 1 ELSE 0
        /\ MayComplete(w, j) = IF w \in Completing(j) THEN 1 ELSE 0
        /\ MayComplete(w, j)' = IF w \in Completing(j)' THEN 1 ELSE 0
    BY DEF MayFail, MayComplete, Failing, Completing, FailPlaces, CompletePlaces
  <1> DEFINE f == Cardinality(Failing(j))
             c == Cardinality(Completing(j))
  <1> DEFINE g == Cardinality(Failing(j)')
             d == Cardinality(Completing(j)')
  <1>4. /\ f \in Nat /\ g \in Nat
        /\ g = f + MayFail(w, j)' - MayFail(w, j)
    <2> DEFINE S == Failing(j)
               T == Failing(j)'
    <2>1. IsFiniteSet(S) /\ T \ {w} = S \ {w} BY <1>1, <1>2
    <2> HIDE DEF S, T
    <2>2. /\ Cardinality(S) \in Nat /\ Cardinality(T) \in Nat
          /\ Cardinality(T) = Cardinality(S) + (IF w \in T THEN 1 ELSE 0)
                                            - (IF w \in S THEN 1 ELSE 0)
      BY <2>1, CountOfOne
    <2>3. QED BY <1>3, <2>2 DEF S, T
  <1>5. /\ c \in Nat /\ d \in Nat
        /\ d = c + MayComplete(w, j)' - MayComplete(w, j)
    <2> DEFINE S == Completing(j)
               T == Completing(j)'
    <2>1. IsFiniteSet(S) /\ T \ {w} = S \ {w} BY <1>1, <1>2
    <2> HIDE DEF S, T
    <2>2. /\ Cardinality(S) \in Nat /\ Cardinality(T) \in Nat
          /\ Cardinality(T) = Cardinality(S) + (IF w \in T THEN 1 ELSE 0)
                                            - (IF w \in S THEN 1 ELSE 0)
      BY <2>1, CountOfOne
    <2>3. QED BY <1>3, <2>2 DEF S, T
  <1>6. /\ MayFail(w, j) \in 0 .. 1 /\ MayFail(w, j)' \in 0 .. 1
        /\ MayComplete(w, j) \in 0 .. 1 /\ MayComplete(w, j)' \in 0 .. 1
        /\ Unsettled(j) \in 0 .. 2 /\ Unsettled(j)' \in 0 .. 2
    BY DEF MayFail, MayComplete, Unsettled
  <1>7. /\ attempts[j] \in 0 .. MaxAttempts /\ attempts'[j] \in 0 .. MaxAttempts
        /\ MaxAttempts \in Nat
    BY QueueAssumption DEF TypeOK
  <1>8. /\ WritesLeft(j) = 5 * (MaxAttempts - attempts[j]) + 2 * (f + c) + Unsettled(j)
        /\ WritesLeft(j)' = 5 * (MaxAttempts - attempts'[j]) + 2 * (g + d) + Unsettled(j)'
    BY DEF WritesLeft
  <1> HIDE DEF f, c, g, d
  <1>9. /\ WritesLeft(j) \in Nat /\ WritesLeft(j)' \in Nat
        /\ WritesLeft(j)' = WritesLeft(j) - 5 * (attempts'[j] - attempts[j])
                              + 2 * (g - f) + 2 * (d - c) + (Unsettled(j)' - Unsettled(j))
    <2> DEFINE m == MaxAttempts
               a == attempts[j]
               b == attempts'[j]
               u == Unsettled(j)
               v == Unsettled(j)'
    <2>1. /\ m \in Nat /\ a \in 0 .. m /\ b \in 0 .. m
          /\ u \in 0 .. 2 /\ v \in 0 .. 2
      BY <1>6, <1>7
    <2>2. /\ WritesLeft(j) = 5 * (m - a) + 2 * (f + c) + u
          /\ WritesLeft(j)' = 5 * (m - b) + 2 * (g + d) + v
      BY <1>8
    <2> HIDE DEF m, a, b, u, v
    <2>3. /\ WritesLeft(j) \in Nat /\ WritesLeft(j)' \in Nat
          /\ WritesLeft(j)' = WritesLeft(j) - 5 * (b - a) + 2 * (g - f) + 2 * (d - c) + (v - u)
      BY <1>4, <1>5, <2>1, <2>2, MeasureArithmetic
    <2>4. QED BY <2>3 DEF a, b, u, v
  <1>10. /\ g - f = MayFail(w, j)' - MayFail(w, j)
         /\ d - c = MayComplete(w, j)' - MayComplete(w, j)
    BY <1>4, <1>5, <1>6
  <1>11. QED BY <1>6, <1>7, <1>9, <1>10

\* A row that the step does not write: no worker gets something to write to it.
LEMMA KeptRunsOut ==
  ASSUME IsFiniteSet(Workers), TypeOK, TypeOK', NEW w \in Workers, NEW j \in Jobs,
         \A v \in Workers \ {w} : pc'[v] = pc[v] /\ job'[v] = job[v],
         RowKept(j),
         pc'[w] \in FailPlaces /\ job'[w] = j => pc[w] \in FailPlaces /\ job[w] = j,
         pc'[w] \in CompletePlaces /\ job'[w] = j => pc[w] \in CompletePlaces /\ job[w] = j
  PROVE  RunsOut(j)
  <1>1. MayFail(w, j)' <= MayFail(w, j) /\ MayComplete(w, j)' <= MayComplete(w, j)
    BY DEF MayFail, MayComplete
  <1>2. Unsettled(j)' = Unsettled(j) /\ attempts'[j] = attempts[j]
    BY DEF RowKept, Unsettled
  <1>3. QED BY <1>1, <1>2, MeasureOfOne DEF RunsOut

\* A claim costs an attempt and pays for a fail() and a complete().
LEMMA ClaimRunsOut ==
  ASSUME IsFiniteSet(Workers), TypeOK, TypeOK', NEW w \in Workers, NEW i \in Jobs,
         DeadLetter(w, i) \/ Claim(w, i), NEW j \in Jobs
  PROVE  RunsOut(j)
  <1>1. /\ pc[w] = "claim" /\ Claimable(i, lag[w])
        /\ \A v \in Workers \ {w} : pc'[v] = pc[v] /\ job'[v] = job[v]
    BY DEF DeadLetter, NothingClaimed, Claim, TypeOK, OldestClaimable
  <1>2. CASE j # i
    <2>1. RowKept(j) /\ ~(pc'[w] \in FailPlaces /\ job'[w] = j)
      <3>1. CASE DeadLetter(w, i)
        <4>1. RowKept(j) BY <1>2, <3>1 DEF DeadLetter, Bury, TypeOK, RowKept
        <4>2. pc'[w] \notin FailPlaces
          BY <3>1 DEF DeadLetter, NothingClaimed, TypeOK, FailPlaces
        <4>3. QED BY <4>1, <4>2
      <3>2. CASE Claim(w, i)
        <4>1. RowKept(j) BY <1>2, <3>2 DEF Claim, TypeOK, RowKept
        <4>2. job'[w] # j BY <1>2, <3>2 DEF Claim, TypeOK
        <4>3. QED BY <4>1, <4>2
      <3>3. QED BY <3>1, <3>2
    <2>2. CompletePlaces \subseteq FailPlaces BY DEF CompletePlaces, FailPlaces
    <2>3. QED BY <1>1, <2>1, <2>2, KeptRunsOut
  <1>3. Unsettled(i) = 1
    BY <1>1 DEF Claimable, Unsettled
  <1>4. MayFail(w, i) = 0 /\ MayComplete(w, i) = 0
    BY <1>1 DEF MayFail, MayComplete, FailPlaces, CompletePlaces
  <1>5. CASE j = i /\ DeadLetter(w, i)
    <2>1. /\ Unsettled(i)' = 0 /\ attempts' = attempts
          /\ MayFail(w, i)' = 0 /\ MayComplete(w, i)' = 0
      BY <1>5 DEF DeadLetter, NothingClaimed, Bury, TypeOK, Unsettled, MayFail, MayComplete,
                  FailPlaces, CompletePlaces
    <2>2. QED BY <1>1, <1>3, <1>4, <1>5, <2>1, MeasureOfOne DEF RunsOut
  <1>6. CASE j = i /\ Claim(w, i)
    <2>1. /\ Unsettled(i)' = 1 /\ attempts'[i] = attempts[i] + 1
          /\ MayFail(w, i)' = 1 /\ MayComplete(w, i)' = 1
      BY <1>6 DEF Claim, TypeOK, Unsettled, MayFail, MayComplete, FailPlaces, CompletePlaces
    <2>2. /\ attempts[i] \in Nat /\ WritesLeft(i) \in Nat /\ WritesLeft(i)' \in Nat
          /\ WritesLeft(i)' = WritesLeft(i) - 5 * (attempts'[i] - attempts[i])
                                + 2 * (MayFail(w, i)' - MayFail(w, i))
                                + 2 * (MayComplete(w, i)' - MayComplete(w, i))
                                + (Unsettled(i)' - Unsettled(i))
      BY <1>1, MeasureOfOne
    <2>3. WritesLeft(i)' = WritesLeft(i) - 1
      BY <1>3, <1>4, <2>1, <2>2
    <2>4. QED BY <1>6, <2>2, <2>3 DEF RunsOut
  <1>7. QED BY <1>2, <1>5, <1>6

\* A verdict is paid for by the worker that gives it, which gives it once.
LEMMA VerdictRunsOut ==
  ASSUME IsFiniteSet(Workers), TypeOK, TypeOK', HoldsJob, NEW w \in Workers,
         Complete(w) \/ FailWrite(w), NEW j \in Jobs
  PROVE  RunsOut(j)
  <1>1. /\ pc[w] \in {"complete", "failWrite"} /\ pc'[w] \in {"finish", "report"}
        /\ job' = job /\ attempts' = attempts /\ job[w] \in Jobs
        /\ \A v \in Workers \ {w} : pc'[v] = pc[v]
    BY DEF Complete, FailWrite, Goto, TypeOK, HoldsJob, InRun
  <1>2. CASE j # job[w]
    <2>1. RowKept(j)
      <3>1. CASE Complete(w) BY <1>1, <1>2, <3>1 DEF Complete, TypeOK, RowKept
      <3>2. CASE FailWrite(w) BY <1>1, <1>2, <3>2 DEF FailWrite, TypeOK, RowKept
      <3>3. QED BY <3>1, <3>2
    <2>2. QED BY <1>1, <1>2, <2>1, KeptRunsOut
  <1>3. CASE j = job[w] /\ Complete(w)
    <2>1. /\ MayFail(w, j) = 1 /\ MayFail(w, j)' = 1
          /\ MayComplete(w, j) = 1 /\ MayComplete(w, j)' = 0
      BY <1>1, <1>3 DEF Complete, Goto, TypeOK, MayFail, MayComplete, FailPlaces, CompletePlaces
    <2>2. Unsettled(j)' = 0
      BY <1>3 DEF Complete, TypeOK, Unsettled
    <2>3. QED BY <1>1, <2>1, <2>2, MeasureOfOne DEF RunsOut
  <1>4. CASE j = job[w] /\ FailWrite(w)
    <2>1. /\ MayFail(w, j) = 1 /\ MayFail(w, j)' = 0
          /\ MayComplete(w, j) = 0 /\ MayComplete(w, j)' = 0
      BY <1>1, <1>4 DEF FailWrite, Goto, TypeOK, MayFail, MayComplete, FailPlaces, CompletePlaces
    <2>2. Unsettled(j)' <= 1
      BY <1>4 DEF FailWrite, TypeOK, Unsettled, Verdict
    <2>3. QED BY <1>1, <2>1, <2>2, MeasureOfOne DEF RunsOut
  <1>5. QED BY <1>2, <1>3, <1>4

\* Nothing that the measure counts moves.
LEMMA FrameRunsOut ==
  ASSUME IsFiniteSet(Workers), TypeOK, NEW j \in Jobs, pc' = pc, job' = job, RowKept(j)
  PROVE  RunsOut(j)
  <1>1. Failing(j)' = Failing(j) /\ Completing(j)' = Completing(j)
    BY DEF Failing, Completing
  <1>2. /\ Cardinality(Failing(j)) \in Nat /\ Cardinality(Completing(j)) \in Nat
    <2>1. Failing(j) \subseteq Workers /\ Completing(j) \subseteq Workers
      BY DEF Failing, Completing
    <2>2. QED BY <2>1, FS_Subset, FS_CardinalityType
  <1>3. Unsettled(j)' = Unsettled(j) /\ Unsettled(j) \in 0 .. 2 /\ attempts'[j] = attempts[j]
    BY DEF RowKept, Unsettled
  <1>4. attempts[j] \in 0 .. MaxAttempts /\ MaxAttempts \in Nat
    BY QueueAssumption DEF TypeOK
  <1>5. QED BY <1>1, <1>2, <1>3, <1>4 DEF WritesLeft, RunsOut

\* A job is enqueued once.
LEMMA EnqueueRunsOut ==
  ASSUME IsFiniteSet(Workers), TypeOK, TypeOK', NEW i \in Jobs, Enqueue(i), NEW j \in Jobs
  PROVE  RunsOut(j)
  <1>1. /\ pc' = pc /\ job' = job /\ attempts' = attempts
        /\ result' = result /\ error' = error
    BY DEF Enqueue, workerVars
  <1>2. Failing(j)' = Failing(j) /\ Completing(j)' = Completing(j)
    BY <1>1 DEF Failing, Completing
  <1>3. /\ Cardinality(Failing(j)) \in Nat /\ Cardinality(Completing(j)) \in Nat
    <2>1. Failing(j) \subseteq Workers /\ Completing(j) \subseteq Workers
      BY DEF Failing, Completing
    <2>2. QED BY <2>1, FS_Subset, FS_CardinalityType
  <1>4. IF j = i THEN Unsettled(j) = 2 /\ Unsettled(j)' = 1
                 ELSE RowKept(j) /\ Unsettled(j)' = Unsettled(j) /\ Unsettled(j) \in 0 .. 2
    BY <1>1 DEF Enqueue, TypeOK, Unsettled, RowKept
  <1>5. attempts[j] \in 0 .. MaxAttempts /\ MaxAttempts \in Nat
    BY QueueAssumption DEF TypeOK
  <1>6. QED BY <1>1, <1>2, <1>3, <1>4, <1>5 DEF WritesLeft, RunsOut

\* Everything else writes no verdict and starts no attempt.
LEMMA QuietRunsOut ==
  ASSUME IsFiniteSet(Workers), TypeOK, TypeOK', NEW w \in Workers, NEW j \in Jobs,
         \/ Start(w) \/ Poll(w) \/ ClaimNone(w) \/ Begin(w) \/ Plan(w) \/ Finish(w)
         \/ Raise(w) \/ FailRead(w) \/ Report(w) \/ Beat(w) \/ Sigterm(w) \/ Crash(w)
  PROVE  RunsOut(j)
  <1> USE DEF TypeOK, FailPlaces, CompletePlaces, RowKept, tableVars, workerVars
  <1> DEFINE Still ==
               /\ \A v \in Workers \ {w} : pc'[v] = pc[v] /\ job'[v] = job[v]
               /\ RowKept(j)
               /\ pc'[w] \in FailPlaces /\ job'[w] = j => pc[w] \in FailPlaces /\ job[w] = j
               /\ pc'[w] \in CompletePlaces /\ job'[w] = j
                    => pc[w] \in CompletePlaces /\ job[w] = j
  <1>1. CASE Start(w) \/ Poll(w) \/ ClaimNone(w)
    <2>1. CASE Start(w)
      <3>1. Still BY <2>1 DEF Start
      <3>2. QED BY <3>1, KeptRunsOut
    <2>2. CASE Poll(w)
      <3>1. Still BY <2>2 DEF Poll
      <3>2. QED BY <3>1, KeptRunsOut
    <2>3. CASE ClaimNone(w)
      <3>1. Still BY <2>3 DEF ClaimNone, NothingClaimed
      <3>2. QED BY <3>1, KeptRunsOut
    <2>4. QED BY <1>1, <2>1, <2>2, <2>3
  <1>2. CASE Begin(w) \/ Plan(w) \/ FailRead(w)
    <2>1. Still BY <1>2 DEF Begin, Plan, FailRead, Goto
    <2>2. QED BY <2>1, KeptRunsOut
  <1>3. CASE Raise(w)
    <2>1. Still BY <1>3 DEF Raise
    <2>2. QED BY <2>1, KeptRunsOut
  <1>4. CASE Finish(w) \/ Report(w)
    <2>1. Still BY <1>4 DEF Finish, Report, Release
    <2>2. QED BY <2>1, KeptRunsOut
  <1>5. CASE Crash(w)
    <2>1. Still BY <1>5 DEF Crash
    <2>2. QED BY <2>1, KeptRunsOut
  <1>6. CASE Beat(w) \/ Sigterm(w)
    <2>1. pc' = pc /\ job' = job /\ RowKept(j)
      BY <1>6 DEF Beat, Heartbeat, HeartbeatDies, Sigterm
    <2>2. QED BY <2>1, FrameRunsOut
  <1>7. QED BY <1>1, <1>2, <1>3, <1>4, <1>5, <1>6

\* Whatever is killed, raises or comes late, the row of a job is written a
\* bounded number of times: a claim pays for the verdicts of the worker that it
\* gives the job to, and there are at most MaxAttempts claims.
THEOREM VerdictsAlwaysRunOut ==
  ASSUME IsFiniteSet(Workers)
  PROVE  Spec => VerdictsRunOut
  <1>1. ASSUME TypeOK, TypeOK', HoldsJob, [Next]_vars, NEW j \in Jobs
        PROVE  RunsOut(j)
    <2>1. CASE \E i \in Jobs : Enqueue(i)
      BY <1>1, <2>1, EnqueueRunsOut
    <2>2. ASSUME NEW w \in Workers, Work(w) \/ Beat(w) \/ Sigterm(w) \/ Crash(w)
          PROVE  RunsOut(j)
      BY <1>1, <2>2, ClaimRunsOut, VerdictRunsOut, QuietRunsOut DEF Work
    <2>3. CASE Tick \/ UNCHANGED vars
      <3>1. pc' = pc /\ job' = job /\ RowKept(j)
        BY <2>3 DEF Tick, vars, tableVars, workerVars, RowKept
      <3>2. QED BY <1>1, <3>1, FrameRunsOut
    <2>4. QED BY <1>1, <2>1, <2>2, <2>3 DEF Next
  <1>2. ASSUME TypeOK, TypeOK', HoldsJob, [Next]_vars
        PROVE  \A j \in Jobs :
                 /\ 0 <= WritesLeft(j)' /\ WritesLeft(j)' <= WritesLeft(j)
                 /\ <<status[j], attempts[j], result[j], error[j]>>'
                       # <<status[j], attempts[j], result[j], error[j]>>
                      => WritesLeft(j)' < WritesLeft(j)
    BY <1>1, <1>2 DEF RunsOut, RowKept
  <1>3. QED
    BY <1>2, TypeCorrect, PTL DEF Spec, VerdictsRunOut
=============================================================================
