--------------------------- MODULE GatewayProofs ---------------------------
(* Proofs about Gateway, for any number of requests, callers and credits.  *)
EXTENDS Gateway, TLAPS

USE CallersAssumption, BucketAssumption, PolicyAssumption, BoundAssumption

(* Every operation of a bucket keeps a row within its bucket: what is left *)
(* is a natural number that never exceeds the burst.                       *)
LEMMA RowWithinBucket ==
    ASSUME NEW row \in [tokens : Nat, last : Nat], NEW now \in Nat,
           NEW cap \in Nat, NEW rate \in Nat, NEW cost \in Nat,
           row.tokens =< cap
    PROVE  LET b == [capacity |-> cap, rate |-> rate]
               taken == Taken(row, now, b, cost)
               back == Refunded(row, now, b, cost)
           IN  /\ taken \in [tokens : Nat, last : {now}] /\ taken.tokens =< cap
               /\ back \in [tokens : Nat, last : {now}] /\ back.tokens =< cap
<1> DEFINE b == [capacity |-> cap, rate |-> rate]
           gain == Elapsed(row, now) * rate
<1>1. gain \in Nat
  BY SMT DEF Elapsed
<1>2. Refilled(row, now, b) \in Nat /\ Refilled(row, now, b) =< cap
  <2> HIDE DEF gain
  <2>1. Refilled(row, now, b) = IF cap =< row.tokens + gain THEN cap ELSE row.tokens + gain
    BY DEF Refilled, Least, gain
  <2> QED
    BY <2>1, <1>1, SMT
<1>3. Taken(row, now, b, cost) \in [tokens : Nat, last : {now}] /\ Taken(row, now, b, cost).tokens =< cap
  <2> DEFINE left == Refilled(row, now, b)
                       - (IF Fits(row, now, b, cost) THEN cost ELSE 0)
  <2>1. left \in Nat /\ left =< cap
    BY <1>2, SMT DEF Fits
  <2>2. Taken(row, now, b, cost) = [tokens |-> left, last |-> now]
    BY DEF Taken
  <2> HIDE DEF left
  <2> QED
    BY <2>1, <2>2
<1>4. Refunded(row, now, b, cost) \in [tokens : Nat, last : {now}] /\ Refunded(row, now, b, cost).tokens =< cap
  <2> DEFINE left == IF cap =< row.tokens + gain + cost THEN cap ELSE row.tokens + gain + cost
  <2>1. left \in Nat /\ left =< cap
    <3> HIDE DEF gain
    <3> QED
      BY <1>1, SMT
  <2>2. Refunded(row, now, b, cost) = [tokens |-> left, last |-> now]
    BY DEF Refunded, Least
  <2> HIDE DEF left
  <2> QED
    BY <2>1, <2>2
<1> QED
  BY <1>3, <1>4
-----------------------------------------------------------------------------
(* The type invariant, with the burst: a row that holds more than its      *)
(* bucket would be refilled to less than it holds.                         *)
Burst == \A k \in Keys : rows[k].tokens =< Capacity[k]

TInv == TypeOK /\ Burst

(* The elements of a sequence over a set are in every larger set.          *)
LEMMA SeqOfSubset ==
    ASSUME NEW S, NEW T, S \subseteq T, NEW s \in Seq(S)
    PROVE  s \in Seq(T)
OBVIOUS

(* Every route costs something.                                            *)
LEMMA CostIsNat == \A p : CostOf(p) \in Nat \ {0}
BY DEF CostOf

(* A charge writes a row, a hit, and the history of its own key only.      *)
LEMMA ChargeKeepsTypes ==
    ASSUME TInv, NEW r \in Requests, NEW k \in Keys, Charge(r, k), clock' = clock
    PROVE  /\ rows' \in [Keys -> [tokens : Nat, last : 0..clock]]
           /\ \A j \in Keys : rows'[j].tokens =< Capacity[j]
           /\ hits' \in [Keys -> Seq([at : 0..clock, cost : Nat])]
           /\ paid' \in [Requests -> SUBSET Keys]
           /\ billed' \in [Keys -> Int]
<1> DEFINE cost == CostOf(route[r])
           after == Taken(rows[k], clock, Bucket(k), cost)
<1>1. cost \in Nat
  BY CostIsNat
<1>2. clock \in Nat /\ Capacity[k] \in Nat /\ Rate[k] \in Nat
  BY DEF TInv, TypeOK
<1>3. rows[k] \in [tokens : Nat, last : Nat] /\ rows[k].tokens =< Capacity[k]
  BY DEF TInv, TypeOK, Burst
<1>4. after \in [tokens : Nat, last : {clock}] /\ after.tokens =< Capacity[k]
  <2> HIDE DEF cost
  <2> QED
    BY <1>1, <1>2, <1>3, RowWithinBucket DEF Bucket
<1>5. rows' = [rows EXCEPT ![k] = after] \/ rows' = rows
  BY DEF Charge
<1> HIDE DEF after
<1>6. rows' \in [Keys -> [tokens : Nat, last : 0..clock]]
  <2>1. after \in [tokens : Nat, last : 0..clock]
    BY <1>2, <1>4
  <2>2. rows \in [Keys -> [tokens : Nat, last : 0..clock]]
    BY DEF TInv, TypeOK
  <2> QED
    BY <1>5, <2>1, <2>2
<1>7. \A j \in Keys : rows'[j].tokens =< Capacity[j]
  BY <1>4, <1>5 DEF TInv, TypeOK, Burst
<1>8. hits' = hits \/ hits' = [hits EXCEPT ![k] = Append(@, [at |-> clock, cost |-> cost])]
  BY DEF Charge
<1>9. hits' \in [Keys -> Seq([at : 0..clock, cost : Nat])]
  <2> HIDE DEF cost
  <2>1. [at |-> clock, cost |-> cost] \in [at : 0..clock, cost : Nat]
    BY <1>1, <1>2
  <2>2. hits[k] \in Seq([at : 0..clock, cost : Nat])
    BY DEF TInv, TypeOK
  <2>3. Append(hits[k], [at |-> clock, cost |-> cost]) \in Seq([at : 0..clock, cost : Nat])
    BY <2>1, <2>2
  <2> QED
    BY <1>8, <2>3 DEF TInv, TypeOK
<1>10. paid' = paid \/ paid' = [paid EXCEPT ![r] = @ \cup {k}]
  BY DEF Charge
<1>11. billed' = billed \/ billed' = [billed EXCEPT ![k] = @ + cost]
  BY DEF Charge
<1>12. paid' \in [Requests -> SUBSET Keys]
  <2>1. paid \in [Requests -> SUBSET Keys]
    BY DEF TInv, TypeOK
  <2> QED
    BY <1>10, <2>1
<1>13. billed' \in [Keys -> Int]
  BY <1>1, <1>11 DEF TInv, TypeOK
<1> QED
  BY <1>6, <1>7, <1>9, <1>12, <1>13

(* So does a refund.                                                       *)
LEMMA RefundKeepsTypes ==
    ASSUME TInv, NEW r \in Requests, NEW k \in Keys, Refund(r, k), clock' = clock
    PROVE  /\ rows' \in [Keys -> [tokens : Nat, last : 0..clock]]
           /\ \A j \in Keys : rows'[j].tokens =< Capacity[j]
           /\ hits' \in [Keys -> Seq([at : 0..clock, cost : Nat])]
           /\ paid' \in [Requests -> SUBSET Keys]
           /\ billed' \in [Keys -> Int]
<1> DEFINE cost == CostOf(route[r])
           after == Refunded(rows[k], clock, Bucket(k), cost)
<1>1. cost \in Nat
  BY CostIsNat
<1>2. clock \in Nat /\ Capacity[k] \in Nat /\ Rate[k] \in Nat
  BY DEF TInv, TypeOK
<1>3. rows[k] \in [tokens : Nat, last : Nat] /\ rows[k].tokens =< Capacity[k]
  BY DEF TInv, TypeOK, Burst
<1>4. after \in [tokens : Nat, last : {clock}] /\ after.tokens =< Capacity[k]
  <2> HIDE DEF cost
  <2> QED
    BY <1>1, <1>2, <1>3, RowWithinBucket DEF Bucket
<1>5. rows' = [rows EXCEPT ![k] = after] \/ rows' = rows
  BY DEF Refund
<1> HIDE DEF after
<1>6. rows' \in [Keys -> [tokens : Nat, last : 0..clock]]
  <2>1. after \in [tokens : Nat, last : 0..clock]
    BY <1>2, <1>4
  <2>2. rows \in [Keys -> [tokens : Nat, last : 0..clock]]
    BY DEF TInv, TypeOK
  <2> QED
    BY <1>5, <2>1, <2>2
<1>7. \A j \in Keys : rows'[j].tokens =< Capacity[j]
  BY <1>4, <1>5 DEF TInv, TypeOK, Burst
<1>8. hits' = hits \/ hits' = [hits EXCEPT ![k] = << >>]
  BY DEF Refund
<1>9. hits' \in [Keys -> Seq([at : 0..clock, cost : Nat])]
  <2>1. hits \in [Keys -> Seq([at : 0..clock, cost : Nat])]
    BY DEF TInv, TypeOK
  <2>2. << >> \in Seq([at : 0..clock, cost : Nat])
    OBVIOUS
  <2> QED
    BY <1>8, <2>1, <2>2
<1>10. paid' = [paid EXCEPT ![r] = @ \ {k}]
  BY DEF Refund
<1>11. billed' = [billed EXCEPT ![k] = @ - cost]
  BY DEF Refund
<1>12. paid' \in [Requests -> SUBSET Keys]
  <2>1. paid \in [Requests -> SUBSET Keys]
    BY DEF TInv, TypeOK
  <2> QED
    BY <1>10, <2>1
<1>13. billed' \in [Keys -> Int]
  BY <1>1, <1>11 DEF TInv, TypeOK
<1> QED
  BY <1>6, <1>7, <1>9, <1>12, <1>13

(* Leaving dispatch cannot take a counter below zero.                      *)
LEMMA ReleaseKeepsTypes ==
    ASSUME TypeOK, NEW r \in Requests, phase[r] # "idle",
           Release(r) \/ UNCHANGED active
    PROVE  active' \in [Callers -> Nat]
BY DEF TypeOK, Release

(* The types a charge or a refund does not touch.                          *)
LEMMA StepKeepsTypes ==
    ASSUME TInv, NEW r \in Requests, phase[r] # "idle",
           NEW k \in Keys, Charge(r, k) \/ Refund(r, k),
           NEW p \in (LoopPhases \cup OpenPhases \cup OverPhases) \ {"idle"},
           phase' = [phase EXCEPT ![r] = p],
           Release(r) \/ UNCHANGED active,
           UNCHANGED <<clock, caller, route, faults>>
    PROVE  TInv'
<1>1. /\ rows' \in [Keys -> [tokens : Nat, last : 0..clock]]
      /\ \A j \in Keys : rows'[j].tokens =< Capacity[j]
      /\ hits' \in [Keys -> Seq([at : 0..clock, cost : Nat])]
      /\ paid' \in [Requests -> SUBSET Keys]
      /\ billed' \in [Keys -> Int]
  BY ChargeKeepsTypes, RefundKeepsTypes
<1>2. active' \in [Callers -> Nat]
  BY ReleaseKeepsTypes DEF TInv
<1>3. phase' \in [Requests -> LoopPhases \cup OpenPhases \cup OverPhases]
  BY DEF TInv, TypeOK
<1>4. \A q \in Requests : phase'[q] # "idle" => caller'[q] \in Callers
  BY DEF TInv, TypeOK
<1> QED
  BY <1>1, <1>2, <1>3, <1>4 DEF TInv, TypeOK, Burst

(* TInv is inductive: the operations of the two buckets by the lemmas, the *)
(* other actions by what they assign.                                      *)
LEMMA TInvInit == Init => TInv
<1> SUFFICES ASSUME Init PROVE TInv
  OBVIOUS
<1>1. clock \in 0..MaxClock /\ faults \in 0..MaxFaults
  BY DEF Init
<1>2. /\ rows \in [Keys -> [tokens : Nat, last : 0..clock]]
      /\ \A k \in Keys : rows[k].tokens =< Capacity[k]
  BY DEF Init, Full, Bucket
<1>3. hits \in [Keys -> Seq([at : 0..clock, cost : Nat])]
  <2>1. << >> \in Seq([at : 0..clock, cost : Nat])
    OBVIOUS
  <2> QED
    BY <2>1 DEF Init
<1>4. route \in [Requests -> Routes]
  BY DEF Init
<1>5. /\ active \in [Callers -> Nat]
      /\ phase \in [Requests -> LoopPhases \cup OpenPhases \cup OverPhases]
      /\ caller \in [Requests -> Callers \cup {Nobody}]
      /\ paid \in [Requests -> SUBSET Keys]
      /\ billed \in [Keys -> Int]
      /\ \A r \in Requests : phase[r] # "idle" => caller[r] \in Callers
  BY DEF Init, OverPhases
<1> QED
  BY <1>1, <1>2, <1>3, <1>4, <1>5 DEF TInv, TypeOK, Burst

LEMMA TInvNext == TInv /\ [Next]_vars => TInv'
<1> SUFFICES ASSUME TInv, [Next]_vars PROVE TInv'
  OBVIOUS
<1>1. ASSUME NEW r \in Requests, NEW c \in Callers, NEW p \in Routes, Arrive(r, c, p)
      PROVE  TInv'
  <2>1. active' \in [Callers -> Nat]
    <3>1. active \in [Callers -> Nat]
      BY DEF TInv, TypeOK
    <3>2. UNCHANGED active \/ active' = [active EXCEPT ![c] = IF Concurrency(p) THEN @ + 1 ELSE @]
      BY <1>1 DEF Arrive
    <3> QED
      BY <3>1, <3>2
  <2>2. phase' \in [Requests -> LoopPhases \cup OpenPhases \cup OverPhases]
    BY <1>1 DEF Arrive, Goto, TInv, TypeOK, LoopPhases, OverPhases
  <2>3. \A q \in Requests : phase'[q] # "idle" => caller'[q] \in Callers
    BY <1>1 DEF Arrive, Goto, TInv, TypeOK
  <2>4. /\ caller' \in [Requests -> Callers \cup {Nobody}]
        /\ route' \in [Requests -> Routes]
        /\ paid' \in [Requests -> SUBSET Keys]
    BY <1>1 DEF Arrive, TInv, TypeOK
  <2>5. UNCHANGED <<clock, rows, hits, billed, faults>>
    BY <1>1 DEF Arrive
  <2> QED
    BY <2>1, <2>2, <2>3, <2>4, <2>5 DEF TInv, TypeOK, Burst
<1>2. ASSUME NEW r \in Requests, TakeGlobal(r)
      PROVE  TInv'
  <2>1. phase[r] # "idle" /\ Global \in Keys
    BY <1>2 DEF TakeGlobal, Keys
  <2>2. PICK p \in {"charged", "rejected"} : phase' = [phase EXCEPT ![r] = p]
    BY <1>2 DEF TakeGlobal, Goto
  <2>3. Charge(r, Global) /\ (Release(r) \/ UNCHANGED active)
        /\ UNCHANGED <<clock, caller, route, faults>>
    BY <1>2 DEF TakeGlobal
  <2> QED
    BY <2>1, <2>2, <2>3, StepKeepsTypes DEF LoopPhases, OverPhases
<1>3. ASSUME NEW r \in Requests, TakeOwn(r)
      PROVE  TInv'
  <2>1. phase[r] # "idle" /\ caller[r] \in Keys
    BY <1>3 DEF TakeOwn, Keys, TInv, TypeOK
  <2>2. PICK p \in {"upstream", "refused"} : phase' = [phase EXCEPT ![r] = p]
    BY <1>3 DEF TakeOwn, Refused, Goto
  <2>3. Charge(r, caller[r]) /\ UNCHANGED active
        /\ UNCHANGED <<clock, caller, route, faults>>
    BY <1>3 DEF TakeOwn, Refused
  <2> QED
    BY <2>1, <2>2, <2>3, StepKeepsTypes DEF LoopPhases, OpenPhases
<1>4. ASSUME NEW r \in Requests, ReturnGlobal(r)
      PROVE  TInv'
  <2>1. phase[r] # "idle" /\ Global \in Keys
    BY <1>4 DEF ReturnGlobal, Keys
  <2>2. phase' = [phase EXCEPT ![r] = "rejected"]
    BY <1>4 DEF ReturnGlobal, Goto
  <2>3. Refund(r, Global) /\ Release(r) /\ UNCHANGED <<clock, caller, route, faults>>
    BY <1>4 DEF ReturnGlobal
  <2> QED
    BY <2>1, <2>2, <2>3, StepKeepsTypes DEF OverPhases
<1>5. ASSUME NEW r \in Requests, RefundFirst(r)
      PROVE  TInv'
  <2>1. phase[r] # "idle" /\ caller[r] \in Keys
    BY <1>5 DEF RefundFirst, Keys, TInv, TypeOK
  <2>2. PICK p \in {"raisedReturned", "freeReturned"} : phase' = [phase EXCEPT ![r] = p]
    BY <1>5 DEF RefundFirst, Goto
  <2>3. Refund(r, caller[r]) /\ UNCHANGED active /\ UNCHANGED <<clock, caller, route, faults>>
    BY <1>5 DEF RefundFirst, FirstReturned
  <2> QED
    BY <2>1, <2>2, <2>3, StepKeepsTypes DEF LoopPhases
<1>6. ASSUME NEW r \in Requests, RefundSecond(r)
      PROVE  TInv'
  <2>1. phase[r] # "idle" /\ SecondReturned(r) \in Keys
    BY <1>6 DEF RefundSecond, SecondReturned, FirstReturned, Keys, TInv, TypeOK
  <2>2. PICK p \in {"failed", "streaming", "answered"} : phase' = [phase EXCEPT ![r] = p]
    BY <1>6 DEF RefundSecond, Answer, Goto
  <2>3. Refund(r, SecondReturned(r)) /\ Release(r) /\ UNCHANGED <<clock, caller, route, faults>>
    BY <1>6 DEF RefundSecond
  <2> QED
    BY <2>1, <2>2, <2>3, StepKeepsTypes DEF OpenPhases, OverPhases
<1>7. ASSUME NEW r \in Requests, Upstream(r)
      PROVE  TInv'
  <2>1. PICK p \in {"raised", "streaming", "answered", "free"} : phase' = [phase EXCEPT ![r] = p]
    BY <1>7 DEF Upstream, Raised, Answer, Goto
  <2>2. phase' \in [Requests -> LoopPhases \cup OpenPhases \cup OverPhases]
    BY <2>1 DEF TInv, TypeOK, LoopPhases, OpenPhases, OverPhases
  <2>3. phase[r] # "idle"
    BY <1>7 DEF Upstream
  <2>4. active' \in [Callers -> Nat]
    <3>1. Release(r) \/ UNCHANGED active
      BY <1>7 DEF Upstream, Raised
    <3> QED
      BY <3>1, <2>3, ReleaseKeepsTypes DEF TInv
  <2>5. UNCHANGED <<clock, rows, hits, caller, route, paid, billed, faults>>
    BY <1>7 DEF Upstream
  <2>6. \A q \in Requests : phase'[q] # "idle" => caller'[q] \in Callers
    BY <2>1, <2>3, <2>5 DEF TInv, TypeOK
  <2> QED
    BY <2>2, <2>4, <2>5, <2>6 DEF TInv, TypeOK, Burst
<1>8. ASSUME NEW r \in Requests, StreamEnds(r)
      PROVE  TInv'
  <2>1. phase' = [phase EXCEPT ![r] = "answered"] /\ phase[r] # "idle"
    BY <1>8 DEF StreamEnds, Goto
  <2>2. phase' \in [Requests -> LoopPhases \cup OpenPhases \cup OverPhases]
    BY <2>1 DEF TInv, TypeOK, OverPhases
  <2>3. UNCHANGED <<clock, rows, hits, active, caller, route, paid, billed, faults>>
    BY <1>8 DEF StreamEnds
  <2>4. \A q \in Requests : phase'[q] # "idle" => caller'[q] \in Callers
    BY <2>1, <2>3 DEF TInv, TypeOK
  <2> QED
    BY <2>2, <2>3, <2>4 DEF TInv, TypeOK, Burst
<1>9. CASE Tick
  <2>1. clock' \in 0..MaxClock /\ clock' = clock + 1 /\ clock \in Nat
    BY <1>9 DEF Tick, TInv, TypeOK
  <2>2. rows \in [Keys -> [tokens : Nat, last : 0..clock']]
    <3>1. 0..clock \subseteq 0..clock'
      BY <2>1
    <3>2. rows \in [Keys -> [tokens : Nat, last : 0..clock]]
      BY DEF TInv, TypeOK
    <3> QED
      BY <3>1, <3>2
  <2>3. hits \in [Keys -> Seq([at : 0..clock', cost : Nat])]
    <3>1. [at : 0..clock, cost : Nat] \subseteq [at : 0..clock', cost : Nat]
      BY <2>1
    <3>2. hits \in [Keys -> Seq([at : 0..clock, cost : Nat])]
      BY DEF TInv, TypeOK
    <3>3. ASSUME NEW k \in Keys PROVE hits[k] \in Seq([at : 0..clock', cost : Nat])
      <4> DEFINE S == [at : 0..clock, cost : Nat]
                 T == [at : 0..clock', cost : Nat]
      <4>1. hits[k] \in Seq(S) /\ S \subseteq T
        BY <3>1, <3>2
      <4> HIDE DEF S, T
      <4>2. hits[k] \in Seq(T)
        BY <4>1, SeqOfSubset
      <4> QED
        BY <4>2 DEF T
    <3> QED
      BY <3>2, <3>3
  <2>4. UNCHANGED <<rows, hits, active, phase, caller, route, paid, billed, faults>>
    BY <1>9 DEF Tick
  <2> QED
    BY <2>1, <2>2, <2>3, <2>4 DEF TInv, TypeOK, Burst
<1>10. CASE Crash
  <2>1. /\ hits' \in [Keys -> Seq([at : 0..clock, cost : Nat])]
        /\ active' \in [Callers -> Nat]
        /\ faults' \in 0..MaxFaults
    BY <1>10 DEF Crash, TInv, TypeOK
  <2>2. phase' \in [Requests -> LoopPhases \cup OpenPhases \cup OverPhases]
    BY <1>10 DEF Crash, TInv, TypeOK, OverPhases
  <2>3. UNCHANGED <<clock, rows, caller, route, paid, billed>>
    BY <1>10 DEF Crash
  <2>4. \A q \in Requests : phase'[q] # "idle" => caller'[q] \in Callers
    BY <1>10, <2>3 DEF Crash, TInv, TypeOK, OverPhases
  <2> QED
    BY <2>1, <2>2, <2>3, <2>4 DEF TInv, TypeOK, Burst
<1>11. ASSUME NEW r \in Requests, LimiterRaises(r)
       PROVE  TInv'
  <2>1. phase' = [phase EXCEPT ![r] = "lost"] /\ phase[r] # "idle"
    BY <1>11 DEF LimiterRaises, Goto, LoopPhases
  <2>2. phase' \in [Requests -> LoopPhases \cup OpenPhases \cup OverPhases]
    BY <2>1 DEF TInv, TypeOK, OverPhases
  <2>3. active' \in [Callers -> Nat]
    BY <1>11, <2>1, ReleaseKeepsTypes DEF LimiterRaises, TInv
  <2>4. UNCHANGED <<clock, rows, hits, caller, route, paid, billed>> /\ faults' \in 0..MaxFaults
    BY <1>11 DEF LimiterRaises, TInv, TypeOK
  <2>5. \A q \in Requests : phase'[q] # "idle" => caller'[q] \in Callers
    BY <2>1, <2>4 DEF TInv, TypeOK
  <2> QED
    BY <2>2, <2>3, <2>4, <2>5 DEF TInv, TypeOK, Burst
<1>12. CASE UNCHANGED vars
  BY <1>12 DEF vars, TInv, TypeOK, Burst
<1> QED
  BY <1>1, <1>2, <1>3, <1>4, <1>5, <1>6, <1>7, <1>8, <1>9, <1>10, <1>11, <1>12
     DEF Next, Metered

(* Every variable keeps its type: in particular no row is ever written     *)
(* with fewer than zero tokens or with a time that has not come.           *)
THEOREM TypeCorrect == Spec => []TypeOK
<1>1. TInv => TypeOK
  BY DEF TInv
<1> QED
  BY TInvInit, TInvNext, <1>1, PTL DEF Spec
-----------------------------------------------------------------------------
(* With the SQLite bucket: what is left in a row and what was billed add   *)
(* up to no more than the burst and the refills until the row was written. *)
Accounts ==
    \A k \in Keys :
        rows[k].tokens + billed[k] =< Capacity[k] + Rate[k] * rows[k].last

(* Neither operation of a bucket makes tokens: what it leaves is at most   *)
(* what was there, the refill of the time since, and what is given back.   *)
LEMMA NothingMinted ==
    ASSUME NEW row \in [tokens : Nat, last : Nat], NEW now \in Nat, row.last =< now,
           NEW cap \in Nat, NEW rate \in Nat, NEW cost \in Nat
    PROVE  LET b == [capacity |-> cap, rate |-> rate]
           IN  /\ Taken(row, now, b, cost).tokens + (IF Fits(row, now, b, cost) THEN cost ELSE 0)
                    + rate * row.last =< row.tokens + rate * now
               /\ Refunded(row, now, b, cost).tokens - cost + rate * row.last
                    =< row.tokens + rate * now
<1> DEFINE b == [capacity |-> cap, rate |-> rate]
           gain == Elapsed(row, now) * rate
           before == rate * row.last
           after == rate * now
<1>1. gain = after - before /\ before \in Nat /\ after \in Nat /\ gain \in Nat
  <2> DEFINE d == now - row.last
             l == row.last
  <2>1. d \in Nat /\ l \in Nat /\ Elapsed(row, now) = d /\ now = l + d
    BY SMT DEF Elapsed
  <2> HIDE DEF d, l
  <2>2. rate * (l + d) = rate * l + d * rate /\ rate * l \in Nat /\ d * rate \in Nat
    BY <2>1, SMT
  <2>3. before = rate * l /\ after = rate * (l + d) /\ gain = d * rate
    BY <2>1 DEF l
  <2> HIDE DEF before, after, gain
  <2>4. rate * (l + d) \in Nat
    BY <2>2
  <2> QED
    BY <2>2, <2>3, <2>4, SMT
<1> DEFINE filled == IF cap =< row.tokens + gain THEN cap ELSE row.tokens + gain
           back == IF cap =< row.tokens + gain + cost THEN cap ELSE row.tokens + gain + cost
           due == IF Fits(row, now, b, cost) THEN cost ELSE 0
<1>2. Refilled(row, now, b) = filled
  BY DEF Refilled, Least
<1>3. Taken(row, now, b, cost).tokens = filled - due
  BY <1>2 DEF Taken
<1>4. Refunded(row, now, b, cost).tokens = back
  BY DEF Refunded, Least
<1>5. due \in Nat
  OBVIOUS
<1> HIDE DEF gain, before, after, due
<1>6. filled - due + due + before =< row.tokens + after
  BY <1>1, <1>5, SMT
<1>7. back - cost + before =< row.tokens + after
  BY <1>1, SMT
<1> HIDE DEF filled, back
<1> QED
  BY <1>3, <1>4, <1>6, <1>7 DEF due, before, after

(* Seen from the accounts, a charge or a refund moves one key.             *)
LEMMA ChargeKeepsAccounts ==
    ASSUME Backend = "bucket", TInv, Accounts, NEW r \in Requests, NEW k \in Keys,
           Charge(r, k) \/ Refund(r, k)
    PROVE  Accounts'
<1> DEFINE cost == CostOf(route[r])
           row == rows[k]
<1>1. cost \in Nat
  BY CostIsNat
<1>2. /\ clock \in Nat /\ Capacity[k] \in Nat /\ Rate[k] \in Nat
      /\ row \in [tokens : Nat, last : Nat] /\ row.last =< clock /\ billed[k] \in Int
      /\ rows \in [Keys -> [tokens : Nat, last : Nat]]
      /\ billed \in [Keys -> Int]
  BY DEF TInv, TypeOK
<1>3. ASSUME NEW j \in Keys, j # k
      PROVE  rows'[j] = rows[j] /\ billed'[j] = billed[j]
  BY <1>2, <1>3 DEF Charge, Refund
<1> HIDE DEF cost
<1>4. rows'[k].tokens + billed'[k] =< Capacity[k] + Rate[k] * rows'[k].last
  <2> DEFINE taken == Taken(row, clock, Bucket(k), cost)
             back == Refunded(row, clock, Bucket(k), cost)
             due == IF Fits(row, clock, Bucket(k), cost) THEN cost ELSE 0
             before == Rate[k] * row.last
             after == Rate[k] * clock
  <2>1. row.tokens + billed[k] =< Capacity[k] + before
    BY DEF Accounts
  <2>2. /\ taken.tokens + due + before =< row.tokens + after
        /\ back.tokens - cost + before =< row.tokens + after
    BY <1>1, <1>2, NothingMinted DEF Bucket
  <2>3. taken.tokens \in Int /\ back.tokens \in Int /\ taken.last = clock /\ back.last = clock
    <3>1. row.tokens =< Capacity[k]
      BY DEF TInv, Burst
    <3>2. taken \in [tokens : Nat, last : {clock}] /\ back \in [tokens : Nat, last : {clock}]
      BY <1>1, <1>2, <3>1, RowWithinBucket DEF Bucket
    <3> HIDE DEF taken, back
    <3> QED
      BY <3>2
  <2>4. before \in Int /\ after \in Int /\ due \in Int
    BY <1>1, <1>2
  <2>5. CASE Charge(r, k)
    <3>1. rows'[k] = taken /\ billed'[k] = billed[k] + due
      BY <1>1, <1>2, <2>5 DEF Charge, Has, cost
    <3> HIDE DEF taken, due, before
    <3>2. taken.tokens + (billed[k] + due) =< Capacity[k] + after
      BY <1>2, <2>1, <2>2, <2>3, <2>4 DEF after
    <3> QED
      BY <2>3, <3>1, <3>2
  <2>6. CASE Refund(r, k)
    <3>1. rows'[k] = back /\ billed'[k] = billed[k] - cost
      BY <1>2, <2>6 DEF Refund, cost
    <3> HIDE DEF back, due, before
    <3>2. back.tokens + (billed[k] - cost) =< Capacity[k] + after
      BY <1>1, <1>2, <2>1, <2>2, <2>3, <2>4 DEF after
    <3> QED
      BY <2>3, <3>1, <3>2
  <2> QED
    BY <2>5, <2>6
<1> QED
  BY <1>3, <1>4 DEF Accounts

LEMMA AccountsNext ==
    ASSUME Backend = "bucket", TInv, Accounts, [Next]_vars
    PROVE  Accounts'
<1>1. CASE UNCHANGED <<rows, billed>>
  BY <1>1 DEF Accounts
<1>2. ASSUME NEW r \in Requests, Metered(r)
      PROVE  Accounts'
  <2>1. Global \in Keys /\ (phase[r] # "idle" => caller[r] \in Keys)
    BY DEF Keys, TInv, TypeOK
  <2>2. \E k \in Keys : Charge(r, k) \/ Refund(r, k)
    BY <1>2, <2>1 DEF Metered, TakeGlobal, TakeOwn, ReturnGlobal, RefundFirst,
                      RefundSecond, FirstReturned, SecondReturned
  <2> QED
    BY <2>2, ChargeKeepsAccounts
<1>3. UNCHANGED <<rows, billed>> \/ \E r \in Requests : Metered(r)
  BY DEF Next, vars, Arrive, LimiterRaises, Upstream, StreamEnds, Tick, Crash
<1> QED
  BY <1>1, <1>2, <1>3

(* With the bucket that is deployed, no key is ever billed more than its   *)
(* burst and what was refilled since the start, for any buckets, any       *)
(* number of callers and requests, and whatever crashes or raises.         *)
THEOREM BucketNeverOversold ==
    ASSUME Backend = "bucket"
    PROVE  Spec => []NeverOversold
<1> DEFINE IInv == TInv /\ Accounts
<1>1. Init => IInv
  <2> SUFFICES ASSUME Init PROVE Accounts
    BY TInvInit
  <2>1. \A k \in Keys : Capacity[k] \in Nat /\ Rate[k] * 0 = 0
    BY DEF TInv
  <2> QED
    BY <2>1 DEF Init, Accounts, Full, Bucket
<1>2. IInv /\ [Next]_vars => IInv'
  BY TInvNext, AccountsNext
<1>3. IInv => NeverOversold
  <2> SUFFICES ASSUME IInv, NEW k \in Keys
               PROVE  billed[k] =< Capacity[k] + Rate[k] * clock /\ rows[k].tokens =< Capacity[k]
    BY DEF NeverOversold
  <2>1. /\ clock \in Nat /\ Capacity[k] \in Nat /\ Rate[k] \in Nat
        /\ rows[k].tokens \in Nat /\ rows[k].last \in Nat /\ rows[k].last =< clock
        /\ billed[k] \in Int
    BY DEF TInv, TypeOK
  <2> DEFINE t == rows[k].last
             d == clock - t
             n == Rate[k]
  <2>2. t \in Nat /\ d \in Nat /\ n \in Nat /\ clock = t + d
    BY <2>1
  <2>3. rows[k].tokens + billed[k] =< Capacity[k] + n * t
    BY DEF Accounts
  <2> HIDE DEF t, d, n
  <2>4. n * (t + d) = n * t + n * d /\ n * t \in Nat /\ n * d \in Nat
    BY <2>2
  <2>5. n * t =< n * clock /\ n * clock \in Int
    BY <2>2, <2>4
  <2>6. billed[k] =< Capacity[k] + n * clock
    <3> DEFINE x == n * t
               y == n * clock
    <3>1. x \in Int /\ y \in Int /\ x =< y /\ rows[k].tokens + billed[k] =< Capacity[k] + x
      BY <2>3, <2>4, <2>5
    <3> HIDE DEF x, y
    <3>2. billed[k] =< Capacity[k] + y
      BY <2>1, <3>1
    <3> QED
      BY <3>2 DEF y
  <2> QED
    BY <2>6 DEF n, TInv, Burst
<1> QED
  BY <1>1, <1>2, <1>3, PTL DEF Spec
-----------------------------------------------------------------------------
(* What a request has been charged for, phase by phase.                    *)
Ledger ==
    \A r \in Requests :
        /\ phase[r] \in {"idle", "admitted", "rejected", "failed"} => paid[r] = {}
        /\ phase[r] \in {"charged", "refused", "raisedReturned", "freeReturned"}
             => paid[r] = {Global}
        /\ phase[r] \in {"upstream", "raised", "free"} => paid[r] = Ours(r)
        /\ phase[r] \in {"streaming", "answered"} => paid[r] \in {{}, Ours(r)}
        /\ phase[r] = "lost" => paid[r] \in {{}, {Global}, Ours(r)}

(* A step that moves request r only is judged by request r only.           *)
LEMMA LedgerOfOne ==
    ASSUME TInv, Ledger, NEW r \in Requests, NEW p, NEW s,
           phase' = [phase EXCEPT ![r] = p],
           paid' = [paid EXCEPT ![r] = s],
           \A q \in Requests \ {r} : caller'[q] = caller[q],
           /\ p \in {"idle", "admitted", "rejected", "failed"} => s = {}
           /\ p \in {"charged", "refused", "raisedReturned", "freeReturned"} => s = {Global}
           /\ p \in {"upstream", "raised", "free"} => s = Ours(r)'
           /\ p \in {"streaming", "answered"} => s \in {{}, Ours(r)'}
           /\ p = "lost" => s \in {{}, {Global}, Ours(r)'}
    PROVE  Ledger'
<1>1. phase'[r] = p /\ paid'[r] = s
  BY DEF TInv, TypeOK
<1>2. ASSUME NEW q \in Requests, q # r
      PROVE  phase'[q] = phase[q] /\ paid'[q] = paid[q] /\ Ours(q)' = Ours(q)
  BY <1>2 DEF TInv, TypeOK, Ours
<1> QED
  BY <1>1, <1>2 DEF Ledger

LEMMA LedgerNext ==
    ASSUME TInv, Ledger, [Next]_vars
    PROVE  Ledger'
<1> USE DEF Goto
<1>1. ASSUME NEW r \in Requests, NEW c \in Callers, NEW p \in Routes, Arrive(r, c, p)
      PROVE  Ledger'
  <2>1. PICK ph \in {"admitted", "rejected"} : phase' = [phase EXCEPT ![r] = ph]
    BY <1>1 DEF Arrive
  <2>2. paid' = [paid EXCEPT ![r] = {}] /\ \A q \in Requests \ {r} : caller'[q] = caller[q]
    BY <1>1 DEF Arrive, TInv, TypeOK
  <2> QED
    BY <2>1, <2>2, LedgerOfOne
<1>2. ASSUME NEW r \in Requests, TakeGlobal(r)
      PROVE  Ledger'
  <2>1. paid[r] = {} /\ caller' = caller
    BY <1>2 DEF TakeGlobal, Ledger
  <2>2. CASE Has(Global, CostOf(route[r]))
    <3>1. phase' = [phase EXCEPT ![r] = "charged"] /\ paid' = [paid EXCEPT ![r] = {Global}]
      BY <1>2, <2>1, <2>2 DEF TakeGlobal, Charge, TInv, TypeOK
    <3> QED
      BY <2>1, <3>1, LedgerOfOne
  <2>3. CASE ~Has(Global, CostOf(route[r]))
    <3>1. phase' = [phase EXCEPT ![r] = "rejected"] /\ paid' = [paid EXCEPT ![r] = {}]
      BY <1>2, <2>1, <2>3 DEF TakeGlobal, Charge, TInv, TypeOK
    <3> QED
      BY <2>1, <3>1, LedgerOfOne
  <2> QED
    BY <2>2, <2>3
<1>3. ASSUME NEW r \in Requests, TakeOwn(r)
      PROVE  Ledger'
  <2>1. paid[r] = {Global} /\ caller' = caller
    BY <1>3 DEF TakeOwn, Ledger
  <2>2. CASE Has(caller[r], CostOf(route[r]))
    <3>1. phase' = [phase EXCEPT ![r] = "upstream"] /\ paid' = [paid EXCEPT ![r] = Ours(r)]
      BY <1>3, <2>1, <2>2 DEF TakeOwn, Charge, Ours, TInv, TypeOK
    <3> QED
      BY <2>1, <3>1, LedgerOfOne DEF Ours
  <2>3. CASE ~Has(caller[r], CostOf(route[r]))
    <3>1. phase' = [phase EXCEPT ![r] = "refused"] /\ paid' = [paid EXCEPT ![r] = {Global}]
      BY <1>3, <2>1, <2>3 DEF TakeOwn, Refused, Charge, TInv, TypeOK
    <3> QED
      BY <2>1, <3>1, LedgerOfOne
  <2> QED
    BY <2>2, <2>3
<1>4. ASSUME NEW r \in Requests, ReturnGlobal(r)
      PROVE  Ledger'
  <2>1. paid[r] = {Global} /\ caller' = caller
    BY <1>4 DEF ReturnGlobal, Ledger
  <2>2. phase' = [phase EXCEPT ![r] = "rejected"] /\ paid' = [paid EXCEPT ![r] = {}]
    BY <1>4, <2>1 DEF ReturnGlobal, Refund
  <2> QED
    BY <2>1, <2>2, LedgerOfOne
<1>5. ASSUME NEW r \in Requests, RefundFirst(r)
      PROVE  Ledger'
  <2>1. paid[r] = {Global, caller[r]} /\ caller' = caller /\ caller[r] # Global
    BY <1>5 DEF RefundFirst, Ledger, Ours, TInv, TypeOK
  <2>2. paid' = [paid EXCEPT ![r] = {Global}]
    BY <1>5, <2>1 DEF RefundFirst, Refund, FirstReturned
  <2>3. PICK ph \in {"raisedReturned", "freeReturned"} : phase' = [phase EXCEPT ![r] = ph]
    BY <1>5 DEF RefundFirst
  <2> QED
    BY <2>1, <2>2, <2>3, LedgerOfOne
<1>6. ASSUME NEW r \in Requests, RefundSecond(r)
      PROVE  Ledger'
  <2>1. paid[r] = {Global} /\ caller' = caller /\ SecondReturned(r) = Global
    BY <1>6 DEF RefundSecond, SecondReturned, FirstReturned, Ledger, TInv, TypeOK
  <2>2. paid' = [paid EXCEPT ![r] = {}]
    BY <1>6, <2>1 DEF RefundSecond, Refund
  <2>3. PICK ph \in {"failed", "streaming", "answered"} : phase' = [phase EXCEPT ![r] = ph]
    BY <1>6 DEF RefundSecond, Answer
  <2> QED
    BY <2>1, <2>2, <2>3, LedgerOfOne
<1>7. ASSUME NEW r \in Requests, Upstream(r)
      PROVE  Ledger'
  <2>1. paid[r] = Ours(r) /\ Ours(r)' = Ours(r) /\ caller' = caller
    BY <1>7 DEF Upstream, Ledger, Ours
  <2>2. paid' = [paid EXCEPT ![r] = Ours(r)]
    BY <1>7, <2>1 DEF Upstream, TInv, TypeOK
  <2>3. PICK ph \in {"raised", "streaming", "answered", "free"} : phase' = [phase EXCEPT ![r] = ph]
    BY <1>7 DEF Upstream, Raised, Answer
  <2> QED
    BY <2>1, <2>2, <2>3, LedgerOfOne
<1>8. ASSUME NEW r \in Requests, StreamEnds(r)
      PROVE  Ledger'
  <2>1. phase' = [phase EXCEPT ![r] = "answered"] /\ paid' = [paid EXCEPT ![r] = paid[r]]
    BY <1>8 DEF StreamEnds, TInv, TypeOK
  <2>2. paid[r] \in {{}, Ours(r)} /\ Ours(r)' = Ours(r) /\ caller' = caller
    BY <1>8 DEF StreamEnds, Ledger, Ours
  <2> QED
    BY <2>1, <2>2, LedgerOfOne
<1>9. CASE Tick
  BY <1>9 DEF Tick, Ledger, Ours
<1>10. CASE Crash
  <2>1. ASSUME NEW r \in Requests
        PROVE  /\ \/ phase[r] \in OverPhases /\ phase'[r] = phase[r]
                  \/ phase'[r] = "lost"
               /\ paid'[r] = paid[r] /\ Ours(r)' = Ours(r)
    BY <1>10 DEF Crash, Ours
  <2>2. ASSUME NEW r \in Requests PROVE paid[r] \in {{}, {Global}, Ours(r)}
    <3>1. phase[r] \in LoopPhases \cup OpenPhases \cup OverPhases
      BY DEF TInv, TypeOK
    <3> QED
      BY <3>1 DEF Ledger, LoopPhases, OpenPhases, OverPhases
  <2> QED
    BY <2>1, <2>2 DEF Ledger, OverPhases
<1>11. ASSUME NEW r \in Requests, LimiterRaises(r)
       PROVE  Ledger'
  <2>1. phase' = [phase EXCEPT ![r] = "lost"] /\ paid' = [paid EXCEPT ![r] = paid[r]]
    BY <1>11 DEF LimiterRaises, TInv, TypeOK
  <2>2. paid[r] \in {{}, {Global}, Ours(r)} /\ Ours(r)' = Ours(r) /\ caller' = caller
    BY <1>11 DEF LimiterRaises, LoopPhases, Ledger, Ours
  <2> QED
    BY <2>1, <2>2, LedgerOfOne
<1>12. CASE UNCHANGED vars
  BY <1>12 DEF vars, Ledger, Ours
<1> QED
  BY <1>1, <1>2, <1>3, <1>4, <1>5, <1>6, <1>7, <1>8, <1>9, <1>10, <1>11, <1>12
     DEF Next, Metered

LEMMA LedgerCorrect == Spec => [](TInv /\ Ledger)
<1>1. Init => Ledger
  BY DEF Init, Ledger
<1> QED
  BY <1>1, TInvInit, TInvNext, LedgerNext, PTL DEF Spec

(* Whatever the limiter behind it and wherever the process dies, a request *)
(* that has been charged to its caller is charged to the shared budget.    *)
THEOREM SharedAlwaysCovers == Spec => []SharedCoversCallers
<1>1. TInv /\ Ledger => SharedCoversCallers
  <2> SUFFICES ASSUME TInv, Ledger, NEW r \in Requests, paid[r] # {}
               PROVE  Global \in paid[r]
    BY DEF SharedCoversCallers
  <2>1. phase[r] \in LoopPhases \cup OpenPhases \cup OverPhases
    BY DEF TInv, TypeOK
  <2> QED
    BY <2>1 DEF Ledger, Ours, LoopPhases, OpenPhases, OverPhases
<1> QED
  BY <1>1, LedgerCorrect, PTL

(* A refused or failed request has cost nobody anything, and the work of   *)
(* one that runs has been charged to both budgets.                         *)
THEOREM AlwaysSettled == Spec => []Settled
<1>1. Ledger => Settled
  BY DEF Ledger, Settled
<1> QED
  BY <1>1, LedgerCorrect, PTL
=============================================================================
