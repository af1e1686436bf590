------------------------------ MODULE EventFeed ------------------------------
(***************************************************************************)
(* What somebody who watches a job is promised: the progress events of the *)
(* job, each once and in the order they were published, until a verdict is *)
(* shown.  The verdict is the one the job settled on, and a job that has   *)
(* settled publishes nothing more.                                         *)
(*                                                                         *)
(* Here are no connections, cursors, batches or polls, and nothing of the  *)
(* workers: all of that is EventStream, which implements this module.      *)
(*                                                                         *)
(* Not promised, because the code does not: that all events have been      *)
(* delivered when the verdict is shown.  The server reads the events first *)
(* and the status afterwards, and the job may do its last work in between. *)
(***************************************************************************)
EXTENDS Integers, Sequences

VARIABLES
    published, \* the ids of the job's progress events
    verdict,   \* "open", "done" or "dead"
    seen,      \* the ids delivered, in that order
    shown      \* "nothing", then a verdict or "stalled"

vars == <<published, verdict, seen, shown>>

Init ==
    /\ published = {}
    /\ verdict = "open"
    /\ seen = <<>>
    /\ shown = "nothing"

Publish(i) ==
    /\ verdict = "open"
    /\ \A k \in published : k < i
    /\ published' = published \cup {i}
    /\ UNCHANGED <<verdict, seen, shown>>

Settle ==
    /\ verdict = "open"
    /\ verdict' \in {"done", "dead"}
    /\ UNCHANGED <<published, seen, shown>>

Delivered == {seen[n] : n \in DOMAIN seen}

\* The oldest event that has not been delivered.
Deliver(i) ==
    /\ shown = "nothing"
    /\ i \in published \ Delivered
    /\ \A k \in published : k < i => k \in Delivered
    /\ seen' = Append(seen, i)
    /\ UNCHANGED <<published, verdict, shown>>

Show ==
    /\ shown = "nothing"
    /\ verdict # "open"
    /\ shown' = verdict
    /\ UNCHANGED <<published, verdict, seen>>

\* Nothing has moved for too long.
GiveUp ==
    /\ shown = "nothing"
    /\ shown' = "stalled"
    /\ UNCHANGED <<published, verdict, seen>>

Next ==
    \/ \E i \in published' : Publish(i)
    \/ \E i \in published : Deliver(i)
    \/ Settle \/ Show \/ GiveUp

Spec == Init /\ [][Next]_vars
=============================================================================
