------------------------------ MODULE Gateway ------------------------------
(***************************************************************************)
(* gateway/: what happens to a metered request.  GatewayMiddleware asks    *)
(* ConcurrencyLimiter for a slot, charges the global bucket, charges the   *)
(* caller's bucket, runs the application, and returns the charge of work   *)
(* that was not done.                                                      *)
(*                                                                         *)
(* One uvicorn worker runs all of this on one event loop (Dockerfile,      *)
(* CMD).  The charges are synchronous SQLite transactions, so a request    *)
(* keeps the loop from its arrival to call_next and from the return of     *)
(* call_next to its own; a crash may come between two transactions.        *)
(*                                                                         *)
(* Unmetered routes and refused keys leave before any state is touched     *)
(* (dispatch, 77-90) and have no action.                                   *)
(***************************************************************************)
EXTENDS TokenBucket, Sequences, FiniteSets, FiniteSetsExt

CONSTANTS
    Requests,       \* the requests of a behaviour
    Callers,        \* the principals they are made by
    Global,         \* GLOBAL_KEY
    Nobody,         \* the caller of a request that has not arrived
    Backend,        \* GATEWAY_LIMITER: "bucket", or "limits" on memory://
    Capacity, Rate, \* the bucket of each key
    MaxConcurrent,  \* of each caller's tier
    Routes,         \* those of policy.ROUTES that are asked for
    PlanCost, ChatCost, \* credits of policy.ROUTES
    SignalsFree,    \* does the application send X-Work-Performed: none?
    MaxClock,       \* bound
    MaxFaults       \* bound on crashes and exceptions of the store

Keys == Callers \cup {Global}

ASSUME CallersAssumption == Global \notin Callers /\ Nobody \notin Callers
ASSUME BucketAssumption ==
    /\ Capacity \in [Keys -> Nat]
    /\ Rate \in [Keys -> Nat]
    /\ MaxConcurrent \in [Callers -> Nat \ {0}]
ASSUME PolicyAssumption ==
    /\ PlanCost \in Nat \ {0} /\ ChatCost \in Nat \ {0}
    /\ Routes \subseteq {"plan", "stream", "chat"} /\ Routes # {}
    /\ SignalsFree \in BOOLEAN
    /\ Backend \in {"bucket", "limits"}
ASSUME BoundAssumption == MaxClock \in Nat /\ MaxFaults \in Nat

VARIABLES
    clock,   \* the wall clock
    rows,    \* BucketStore: the row of each key
    hits,    \* LimitsBackend: the charges of each key it remembers
    active,  \* ConcurrencyLimiter._active
    phase,   \* how far each request is
    caller, route, \* who made it and what it asks for
    paid,    \* the keys it has been charged to and not refunded (history)
    billed,  \* credits charged to each key, less those refunded (history)
    faults   \* crashes, and exceptions of the store

vars == <<clock, rows, hits, active, phase, caller, route, paid, billed, faults>>
-----------------------------------------------------------------------------
(* policy.py: "plan" is POST /plans, "stream" GET /api/plan, "chat"        *)
(* POST /api/chat.  They are metered alike but for what follows.           *)
CostOf(p) == IF p = "chat" THEN ChatCost ELSE PlanCost

Concurrency(p) == p # "chat"

Refundable(p) == p # "chat"

\* api.plan answers with a StreamingResponse.
Streams(p) == p = "stream"

Bucket(k) == [capacity |-> Capacity[k], rate |-> Rate[k]]

(* The moving window of `limits`: as long as it takes to refill a bucket,  *)
(* with a bound in place of the 1e-9 when nothing is refilled.             *)
Window(k) == IF Rate[k] = 0 THEN MaxClock + 1 ELSE Capacity[k] \div Rate[k]

Live(k) == {i \in DOMAIN hits[k] : hits[k][i].at >= clock - Window(k)}

Spent(k) == MapThenSumSet(LAMBDA i : hits[k][i].cost, Live(k))

Has(k, cost) ==
    IF Backend = "bucket" THEN Fits(rows[k], clock, Bucket(k), cost)
                          ELSE Spent(k) + cost =< Capacity[k]

(* Phases that hold the event loop, that wait for the application or send  *)
(* its answer, and that are over.  "returned" means to the caller's own    *)
(* bucket, the global one comes next.                                      *)
LoopPhases == {"admitted", "charged", "refused",
               "raised", "raisedReturned", "free", "freeReturned"}
OpenPhases == {"upstream", "streaming"}
OverPhases == {"idle", "rejected", "failed", "answered", "lost"}

LoopFree == \A r \in Requests : phase[r] \notin LoopPhases

Ours(r) == {Global, caller[r]}

TypeOK ==
    /\ clock \in 0..MaxClock
    /\ faults \in 0..MaxFaults
    /\ rows \in [Keys -> [tokens : Nat, last : 0..clock]]
    /\ hits \in [Keys -> Seq([at : 0..clock, cost : Nat])]
    /\ active \in [Callers -> Nat]
    /\ phase \in [Requests -> LoopPhases \cup OpenPhases \cup OverPhases]
    /\ caller \in [Requests -> Callers \cup {Nobody}]
    /\ route \in [Requests -> Routes]
    /\ paid \in [Requests -> SUBSET Keys]
    /\ billed \in [Keys -> Int]
    /\ \A r \in Requests : phase[r] # "idle" => caller[r] \in Callers

Init ==
    /\ clock = 0
    /\ faults = 0
    /\ rows = [k \in Keys |-> Full(Bucket(k))]
    /\ hits = [k \in Keys |-> << >>]
    /\ active = [c \in Callers |-> 0]
    /\ phase = [r \in Requests |-> "idle"]
    /\ caller = [r \in Requests |-> Nobody]
    /\ route = [r \in Requests |-> CHOOSE p \in Routes : TRUE]
    /\ paid = [r \in Requests |-> {}]
    /\ billed = [k \in Keys |-> 0]
-----------------------------------------------------------------------------
(* The two operations of a Limiter, whichever the backend.                 *)
Charge(r, k) ==
    LET cost == CostOf(route[r]) IN
    /\ rows' = IF Backend = "bucket"
               THEN [rows EXCEPT ![k] = Taken(@, clock, Bucket(k), cost)]
               ELSE rows
    /\ IF Has(k, cost)
       THEN /\ hits' = IF Backend = "limits"
                       THEN [hits EXCEPT ![k] = Append(@, [at |-> clock, cost |-> cost])]
                       ELSE hits
            /\ paid' = [paid EXCEPT ![r] = @ \cup {k}]
            /\ billed' = [billed EXCEPT ![k] = @ + cost]
       ELSE UNCHANGED <<hits, paid, billed>>

\* `limits` cannot return one charge: the whole key is forgotten.
Refund(r, k) ==
    LET cost == CostOf(route[r]) IN
    /\ rows' = IF Backend = "bucket"
               THEN [rows EXCEPT ![k] = Refunded(@, clock, Bucket(k), cost)]
               ELSE rows
    /\ hits' = IF Backend = "limits" THEN [hits EXCEPT ![k] = << >>] ELSE hits
    /\ paid' = [paid EXCEPT ![r] = @ \ {k}]
    /\ billed' = [billed EXCEPT ![k] = @ - cost]

Goto(r, p) == phase' = [phase EXCEPT ![r] = p]

\* Mutant: the slot is not released on the way out.
ReleaseMutant(r) == UNCHANGED active

\* The finally of slot(): dispatch is about to return or to raise.
Release(r) ==
    active' = [active EXCEPT ![caller[r]] =
                 IF ~Concurrency(route[r]) THEN @ ELSE IF @ > 0 THEN @ - 1 ELSE 0]

\* Mutant: every caller is let in.
AdmitsMutant(c, p) == TRUE

Admits(c, p) == Concurrency(p) => active[c] < MaxConcurrent[c]

(* A request arrives: its identity, and its slot.                          *)
Arrive(r, c, p) ==
    /\ LoopFree
    /\ phase[r] \in OverPhases
    /\ caller' = [caller EXCEPT ![r] = c]
    /\ route' = [route EXCEPT ![r] = p]
    /\ paid' = [paid EXCEPT ![r] = {}]
    /\ IF Admits(c, p)
       THEN /\ Goto(r, "admitted")
            /\ active' = [active EXCEPT ![c] = IF Concurrency(p) THEN @ + 1 ELSE @]
       ELSE /\ Goto(r, "rejected")
            /\ UNCHANGED active
    /\ UNCHANGED <<clock, rows, hits, billed, faults>>

TakeGlobal(r) ==
    /\ phase[r] = "admitted"
    /\ Charge(r, Global)
    /\ IF Has(Global, CostOf(route[r]))
       THEN Goto(r, "charged") /\ UNCHANGED active
       ELSE Goto(r, "rejected") /\ Release(r)
    /\ UNCHANGED <<clock, caller, route, faults>>

\* Mutant: a caller over its own limit leaves the shared budget charged.
RefusedMutant(r) == Goto(r, "rejected") /\ Release(r)

\* Mutant: a caller without credits waits for a refill.
WaitsMutant(r) == Goto(r, "charged") /\ UNCHANGED active

\* The caller has no credits left: the global charge is given back next.
Refused(r) == Goto(r, "refused") /\ UNCHANGED active

TakeOwn(r) ==
    /\ phase[r] = "charged"
    /\ Charge(r, caller[r])
    /\ IF Has(caller[r], CostOf(route[r]))
       THEN Goto(r, "upstream") /\ UNCHANGED active
       ELSE Refused(r)
    /\ UNCHANGED <<clock, caller, route, faults>>

ReturnGlobal(r) ==
    /\ phase[r] = "refused"
    /\ Refund(r, Global)
    /\ Goto(r, "rejected")
    /\ Release(r)
    /\ UNCHANGED <<clock, caller, route, faults>>

\* Where an answered request goes: its body is sent after dispatch.
Answer(r) == Goto(r, IF Streams(route[r]) THEN "streaming" ELSE "answered")

Raised(r) == Goto(r, "raised") /\ UNCHANGED active

(* call_next returns or raises, and the request has the event loop again.  *)
Upstream(r) ==
    /\ LoopFree
    /\ phase[r] = "upstream"
    /\ \/ Raised(r)
       \/ /\ Answer(r)
          /\ Release(r)
       \/ /\ SignalsFree /\ Refundable(route[r])
          /\ Goto(r, "free")
          /\ UNCHANGED active
    /\ UNCHANGED <<clock, rows, hits, caller, route, paid, billed, faults>>

\* Mutant: the shared budget is returned before the caller's.
FirstReturnedMutant(r) == Global

\* The bucket that is returned first.
FirstReturned(r) == caller[r]

SecondReturned(r) == IF FirstReturned(r) = Global THEN caller[r] ELSE Global

RefundFirst(r) ==
    /\ \/ phase[r] = "raised" /\ Goto(r, "raisedReturned")
       \/ phase[r] = "free" /\ Goto(r, "freeReturned")
    /\ Refund(r, FirstReturned(r))
    /\ UNCHANGED <<clock, active, caller, route, faults>>

RefundSecond(r) ==
    /\ \/ phase[r] = "raisedReturned" /\ Goto(r, "failed")
       \/ phase[r] = "freeReturned" /\ Answer(r)
    /\ Refund(r, SecondReturned(r))
    /\ Release(r)
    /\ UNCHANGED <<clock, caller, route, faults>>

(* The transaction of a take or a refund raises, as when the database is   *)
(* locked for five seconds, and changes no row.  The exception leaves      *)
(* dispatch; what was charged before is not given back.                    *)
LimiterRaises(r) ==
    /\ Backend = "bucket"
    /\ phase[r] \in LoopPhases
    /\ faults < MaxFaults
    /\ faults' = faults + 1
    /\ Goto(r, "lost")
    /\ Release(r)
    /\ UNCHANGED <<clock, rows, hits, caller, route, paid, billed>>

(* The last byte of a streamed body, or the client hangs up.               *)
StreamEnds(r) ==
    /\ LoopFree
    /\ phase[r] = "streaming"
    /\ Goto(r, "answered")
    /\ UNCHANGED <<clock, rows, hits, active, caller, route, paid, billed, faults>>

Tick ==
    /\ clock < MaxClock
    /\ clock' = clock + 1
    /\ UNCHANGED <<rows, hits, active, phase, caller, route, paid, billed, faults>>

(* The process dies and is restarted: what is in memory is gone, which is  *)
(* everything but the SQLite file.                                         *)
Crash ==
    /\ faults < MaxFaults
    /\ faults' = faults + 1
    /\ hits' = [k \in Keys |-> << >>]
    /\ active' = [c \in Callers |-> 0]
    /\ phase' = [r \in Requests |->
                   IF phase[r] \in OverPhases THEN phase[r] ELSE "lost"]
    /\ UNCHANGED <<clock, rows, caller, route, paid, billed>>

Metered(r) ==
    \/ TakeGlobal(r) \/ TakeOwn(r) \/ ReturnGlobal(r)
    \/ RefundFirst(r) \/ RefundSecond(r)

Next ==
    \/ \E r \in Requests :
         \/ \E c \in Callers, p \in Routes : Arrive(r, c, p)
         \/ Metered(r)
         \/ LimiterRaises(r)
         \/ Upstream(r)
         \/ StreamEnds(r)
    \/ Tick
    \/ Crash

(* A coroutine that has the loop goes on; one that is ready gets its turn, *)
(* since the loop serves them in order; the application answers.  Nothing  *)
(* is assumed of arrivals, faults, the clock and the end of a stream.      *)
Fairness ==
    \A r \in Requests :
        WF_vars(Metered(r)) /\ SF_vars(Upstream(r))

Spec == Init /\ [][Next]_vars /\ Fairness
-----------------------------------------------------------------------------
(* What the callers of a key have had is within its burst and what was     *)
(* refilled since: take never sells a token twice, whatever is refused,    *)
(* refunded or lost in a fault in between.  Nor is more than a burst saved *)
(* up.                                                                     *)
NeverOversold ==
    \A k \in Keys :
        /\ billed[k] =< Capacity[k] + Rate[k] * clock
        /\ rows[k].tokens =< Capacity[k]

(* No credit disappears either: a key can spend all of its burst but for   *)
(* what it has been billed.  A refusal, a refund that meets the cap or a   *)
(* fault costs nobody anything.                                            *)
NeverOvercharged ==
    \A k \in Keys :
        Refilled(rows[k], clock, Bucket(k)) >= Capacity[k] - billed[k]

(* To a key, its row and the arithmetic of take and refund are a level     *)
(* that a timer raises: a charge is drawn whole or not at all, a refund    *)
(* returns no more than was drawn, and a refused charge, which writes its  *)
(* row back, a refund of work that failed and a crash between the two      *)
(* charges of a request do nothing else to what the key can spend.         *)
Ideal == INSTANCE IdealBucket WITH
            level <- [k \in Keys |-> Refilled(rows[k], clock, Bucket(k))],
            drawn <- billed,
            Costs <- {PlanCost, ChatCost}

ImplementsIdealBucket == Ideal!Spec

(* Every credit a caller is billed for has been taken from the shared      *)
(* budget first and goes back to it last: at no time, so at no crash, have *)
(* the callers been given more work than the shared budget knows of.       *)
SharedCoversCallers ==
    \A r \in Requests : paid[r] # {} => Global \in paid[r]

(* A request that was refused, or whose work failed, has cost nobody       *)
(* anything; one that waits for the application has been paid in full.     *)
Settled ==
    \A r \in Requests :
        /\ phase[r] \in {"rejected", "failed"} => paid[r] = {}
        /\ phase[r] = "upstream" => paid[r] = Ours(r)
        /\ phase[r] \in {"streaming", "answered"} => paid[r] \in {{}, Ours(r)}

Holding(c) ==
    {r \in Requests : /\ phase[r] \in LoopPhases \cup {"upstream"}
                      /\ caller[r] = c
                      /\ Concurrency(route[r])}

(* The counter of a caller is the number of its requests inside dispatch,  *)
(* however they left it, and is never over its limit.                      *)
SlotsExact ==
    \A c \in Callers :
        active[c] = Cardinality(Holding(c)) /\ active[c] =< MaxConcurrent[c]

(* A request that was let in is answered, refused or lost in a crash or an *)
(* exception of the store, so no slot is held for ever.                    *)
RequestAnswered ==
    \A r \in Requests :
        phase[r] = "admitted" ~> phase[r] \in OverPhases \cup {"streaming"}

(* What concurrency.py says of a slot, "Hold a slot for the duration of a  *)
(* request", and the reason it gives for it: a caller has no more requests *)
(* in progress, streams included, than its limit.  The code lets go of the *)
(* slot when the response begins.                                          *)
InFlightWithinLimit ==
    \A c \in Callers :
        Cardinality({r \in Requests : /\ phase[r] \in OpenPhases
                                      /\ caller[r] = c
                                      /\ Concurrency(route[r])})
          =< MaxConcurrent[c]
=============================================================================
