---------------------------- MODULE JobContract ----------------------------
(***************************************************************************)
(* What the queue promises to whoever submits a job (the docstring of      *)
(* jobs.py: at-least-once delivery, visibility timeout, attempt cap and    *)
(* dead letter), without workers, leases, clocks or transactions.          *)
(***************************************************************************)
EXTENDS Naturals

CONSTANTS Jobs, MaxAttempts

VARIABLES
    phase,   \* what GET /plans/{id} reports as status
    tries,   \* how often the job has been handed to a worker
    lost     \* the worker that had the job is gone

contractVars == <<phase, tries, lost>>

Init ==
    /\ phase = [j \in Jobs |-> "absent"]
    /\ tries = [j \in Jobs |-> 0]
    /\ lost = [j \in Jobs |-> FALSE]

Submit(j) ==
    /\ phase[j] = "absent"
    /\ phase' = [phase EXCEPT ![j] = "queued"]
    /\ UNCHANGED <<tries, lost>>

\* A job is handed out if it waits, or again if the worker that had it is
\* gone, and never more than MaxAttempts times.
HandOut(j) ==
    /\ phase[j] = "queued" \/ (phase[j] = "running" /\ lost[j])
    /\ tries[j] < MaxAttempts
    /\ phase' = [phase EXCEPT ![j] = "running"]
    /\ tries' = [tries EXCEPT ![j] = @ + 1]
    /\ lost' = [lost EXCEPT ![j] = FALSE]

Lose(j) ==
    /\ phase[j] = "running"
    /\ ~lost[j]
    /\ lost' = [lost EXCEPT ![j] = TRUE]
    /\ UNCHANGED <<phase, tries>>

\* The worker that has the job ends the attempt, well or badly.
Finish(j) ==
    /\ phase[j] = "running"
    /\ ~lost[j]
    /\ phase' = [phase EXCEPT ![j] = "done"]
    /\ UNCHANGED <<tries, lost>>

Retry(j) ==
    /\ phase[j] = "running"
    /\ ~lost[j]
    /\ tries[j] < MaxAttempts
    /\ phase' = [phase EXCEPT ![j] = "queued"]
    /\ UNCHANGED <<tries, lost>>

\* The last attempt failed, or was lost with its worker.
GiveUp(j) ==
    /\ phase[j] = "running"
    /\ tries[j] = MaxAttempts
    /\ phase' = [phase EXCEPT ![j] = "dead"]
    /\ lost' = [lost EXCEPT ![j] = FALSE]
    /\ UNCHANGED tries

Next ==
    \E j \in Jobs :
        \/ Submit(j) \/ HandOut(j) \/ Lose(j)
        \/ Finish(j) \/ Retry(j) \/ GiveUp(j)

Spec == Init /\ [][Next]_contractVars
=============================================================================
