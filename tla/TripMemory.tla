----------------------------- MODULE TripMemory -----------------------------
(***************************************************************************)
(* What the checkpoint of a trip promises to its runs, when they come one  *)
(* after the other: each entry is written once, by the run that paid for   *)
(* it and before that run shows its plan, and every plan made with the     *)
(* memory shows exactly what the memory holds.                             *)
(***************************************************************************)
EXTENDS Naturals

CONSTANTS
    Runs,
    Forgetful,     \* the runs that make a plan without the memory
    NoRun,
    Entries        \* the results that are remembered

VARIABLES
    memory,        \* the run that produced each entry
    plans          \* what each run that is done shows, by producer

vars == <<memory, plans>>

Init ==
    /\ memory = [e \in Entries |-> NoRun]
    /\ plans = [r \in {} |-> memory]

Unwritten == {e \in Entries : memory[e] = NoRun}

\* A run adds results of its own.
Record(r) ==
    /\ r \notin Forgetful \cup DOMAIN plans
    /\ \E new \in SUBSET Unwritten :
          memory' = [e \in Entries |-> IF e \in new THEN r ELSE memory[e]]
    /\ UNCHANGED plans

Shows(r) == IF r \in Forgetful THEN [Entries -> {r, NoRun}] ELSE {memory}

Publish(r) ==
    /\ r \notin DOMAIN plans
    /\ \E plan \in Shows(r) :
          plans' = [q \in DOMAIN plans \cup {r} |-> IF q = r THEN plan ELSE plans[q]]
    /\ UNCHANGED memory

Next == \E r \in Runs : Record(r) \/ Publish(r)

Spec == Init /\ [][Next]_vars
=============================================================================
