------------------------- MODULE GatewaySlotProofs -------------------------
(* What is counted over the requests, for any finite number of them: the   *)
(* slots of a caller, and the bill of a key.                               *)
EXTENDS GatewayProofs, FiniteSetTheorems

USE CallersAssumption, BucketAssumption, PolicyAssumption

Inside == LoopPhases \cup {"upstream"}

(* The requests that hold a slot of c before and after a step that moves   *)
(* r only.                                                                 *)
LEMMA HoldingOfOne ==
    ASSUME TInv, NEW r \in Requests, NEW p,
           phase' = [phase EXCEPT ![r] = p],
           \A q \in Requests \ {r} : caller'[q] = caller[q] /\ route'[q] = route[q],
           NEW c \in Callers
    PROVE  Holding(c)' = (Holding(c) \ {r})
               \cup (IF p \in Inside /\ caller'[r] = c /\ Concurrency(route'[r])
                     THEN {r} ELSE {})
<1>1. phase'[r] = p /\ \A q \in Requests \ {r} : phase'[q] = phase[q]
  BY DEF TInv, TypeOK
<1>2. ASSUME NEW q
      PROVE  q \in Holding(c)' <=>
               \/ q \in Holding(c) /\ q # r
               \/ q = r /\ p \in Inside /\ caller'[r] = c /\ Concurrency(route'[r])
  BY <1>1 DEF Holding, Inside, Concurrency
<1> QED
  BY <1>2

LEMMA HoldingIsFinite ==
    ASSUME IsFiniteSet(Requests), NEW c
    PROVE  IsFiniteSet(Holding(c)) /\ Cardinality(Holding(c)) \in Nat
<1>1. Holding(c) \subseteq Requests
  BY DEF Holding
<1> QED
  BY <1>1, FS_Subset, FS_CardinalityType

(* A request that stays inside dispatch, or outside of it.                 *)
LEMMA StaysKeepsSlots ==
    ASSUME TInv, SlotsExact, NEW r \in Requests, NEW p,
           phase' = [phase EXCEPT ![r] = p],
           p \in Inside <=> phase[r] \in Inside,
           UNCHANGED <<active, caller, route>>
    PROVE  SlotsExact'
<1>1. ASSUME NEW c \in Callers PROVE Holding(c)' = Holding(c)
  <2>1. Holding(c)' = (Holding(c) \ {r})
            \cup (IF p \in Inside /\ caller[r] = c /\ Concurrency(route[r]) THEN {r} ELSE {})
    BY HoldingOfOne
  <2>2. r \in Holding(c) <=> p \in Inside /\ caller[r] = c /\ Concurrency(route[r])
    BY DEF Holding, Inside
  <2> QED
    BY <2>1, <2>2
<1> QED
  BY <1>1 DEF SlotsExact

(* One that leaves dispatch gives its slot back, if it had one.            *)
LEMMA LeavesKeepsSlots ==
    ASSUME IsFiniteSet(Requests), TInv, SlotsExact, NEW r \in Requests, NEW p,
           phase' = [phase EXCEPT ![r] = p],
           p \notin Inside, phase[r] \in Inside, Release(r),
           UNCHANGED <<caller, route>>
    PROVE  SlotsExact'
<1>1. caller[r] \in Callers /\ active \in [Callers -> Nat]
  BY DEF TInv, TypeOK, Inside, LoopPhases
<1>2. ASSUME NEW c \in Callers
      PROVE  active'[c] = Cardinality(Holding(c)') /\ active'[c] =< MaxConcurrent[c]
  <2>1. Holding(c)' = Holding(c) \ {r}
    <3>1. Holding(c)' = (Holding(c) \ {r})
              \cup (IF p \in Inside /\ caller'[r] = c /\ Concurrency(route'[r]) THEN {r} ELSE {})
      BY HoldingOfOne
    <3> QED
      BY <3>1
  <2>2. IsFiniteSet(Holding(c)) /\ Cardinality(Holding(c)) \in Nat
    BY HoldingIsFinite
  <2>3. active[c] = Cardinality(Holding(c)) /\ active[c] =< MaxConcurrent[c]
    BY DEF SlotsExact
  <2>4. MaxConcurrent[c] \in Nat
    OBVIOUS
  <2>5. CASE r \in Holding(c)
    <3>1. caller[r] = c /\ Concurrency(route[r])
      BY <2>5 DEF Holding
    <3>2. Cardinality(Holding(c)') = Cardinality(Holding(c)) - 1
      BY <2>1, <2>2, <2>5, FS_RemoveElement
    <3>3. Cardinality(Holding(c)) > 0
      BY <2>2, <2>5, FS_EmptySet
    <3>4. active'[c] = active[c] - 1
      BY <1>1, <2>2, <2>3, <3>1, <3>3 DEF Release
    <3> QED
      BY <2>2, <2>3, <2>4, <3>2, <3>4
  <2>6. CASE r \notin Holding(c)
    <3>1. ~(caller[r] = c /\ Concurrency(route[r]))
      BY <2>6 DEF Holding, Inside
    <3>2. active'[c] = active[c]
      BY <1>1, <3>1 DEF Release
    <3> QED
      BY <2>1, <2>3, <2>6, <3>2
  <2> QED
    BY <2>5, <2>6
<1> QED
  BY <1>2 DEF SlotsExact

(* One that arrives takes a slot if there is one to take.                  *)
LEMMA ArriveKeepsSlots ==
    ASSUME IsFiniteSet(Requests), TInv, SlotsExact,
           NEW r \in Requests, NEW c \in Callers, NEW p \in Routes, Arrive(r, c, p)
    PROVE  SlotsExact'
<1>1. /\ phase[r] \notin Inside /\ caller'[r] = c /\ route'[r] = p
      /\ \A q \in Requests \ {r} : caller'[q] = caller[q] /\ route'[q] = route[q]
      /\ active \in [Callers -> Nat]
  BY DEF Arrive, TInv, TypeOK, OverPhases, Inside, LoopPhases
<1>2. ASSUME NEW k \in Callers
      PROVE  active'[k] = Cardinality(Holding(k)') /\ active'[k] =< MaxConcurrent[k]
  <2>1. r \notin Holding(k)
    BY <1>1 DEF Holding, Inside
  <2>2. IsFiniteSet(Holding(k)) /\ Cardinality(Holding(k)) \in Nat
    BY HoldingIsFinite
  <2>3. active[k] = Cardinality(Holding(k)) /\ active[k] =< MaxConcurrent[k]
    BY DEF SlotsExact
  <2>4. CASE ~Admits(c, p) \/ ~Concurrency(p) \/ k # c
    <3>1. active'[k] = active[k]
      BY <1>1, <2>4 DEF Arrive
    <3>2. PICK ph \in {"admitted", "rejected"} :
             /\ phase' = [phase EXCEPT ![r] = ph]
             /\ ph = "admitted" => Admits(c, p)
      BY DEF Arrive, Goto
    <3>3. "rejected" \notin Inside
      BY DEF Inside, LoopPhases
    <3>4. Holding(k)' = (Holding(k) \ {r})
              \cup (IF ph \in Inside /\ caller'[r] = k /\ Concurrency(route'[r]) THEN {r} ELSE {})
      BY <1>1, <3>2, HoldingOfOne
    <3>5. Holding(k)' = Holding(k)
      BY <1>1, <2>1, <2>4, <3>2, <3>3, <3>4
    <3> QED
      BY <2>3, <3>1, <3>5
  <2>5. CASE Admits(c, p) /\ Concurrency(p) /\ k = c
    <3>1. active'[k] = active[k] + 1 /\ phase' = [phase EXCEPT ![r] = "admitted"]
      BY <1>1, <2>5 DEF Arrive, Goto
    <3>2. active[k] < MaxConcurrent[k] /\ active[k] \in Nat /\ MaxConcurrent[k] \in Nat
      BY <1>1, <2>5 DEF Admits
    <3>3. "admitted" \in Inside
      BY DEF Inside, LoopPhases
    <3>4. Holding(k)' = (Holding(k) \ {r})
              \cup (IF "admitted" \in Inside /\ caller'[r] = k /\ Concurrency(route'[r])
                    THEN {r} ELSE {})
      BY <1>1, <3>1, HoldingOfOne
    <3>5. Holding(k)' = Holding(k) \cup {r}
      BY <1>1, <2>1, <2>5, <3>3, <3>4
    <3>6. Cardinality(Holding(k)') = Cardinality(Holding(k)) + 1
      BY <2>1, <2>2, <3>5, FS_AddElement
    <3> QED
      BY <2>3, <3>1, <3>2, <3>6
  <2> QED
    BY <2>4, <2>5
<1> QED
  BY <1>2 DEF SlotsExact

LEMMA SlotsNext ==
    ASSUME IsFiniteSet(Requests), TInv, SlotsExact, [Next]_vars
    PROVE  SlotsExact'
<1> USE DEF Goto, Inside, LoopPhases
<1>1. ASSUME NEW r \in Requests, NEW c \in Callers, NEW p \in Routes, Arrive(r, c, p)
      PROVE  SlotsExact'
  BY <1>1, ArriveKeepsSlots
<1>2. ASSUME NEW r \in Requests, TakeGlobal(r) PROVE SlotsExact'
  <2>1. CASE Has(Global, CostOf(route[r]))
    BY <1>2, <2>1, StaysKeepsSlots DEF TakeGlobal
  <2>2. CASE ~Has(Global, CostOf(route[r]))
    BY <1>2, <2>2, LeavesKeepsSlots DEF TakeGlobal
  <2> QED
    BY <2>1, <2>2
<1>3. ASSUME NEW r \in Requests, TakeOwn(r) PROVE SlotsExact'
  BY <1>3, StaysKeepsSlots DEF TakeOwn, Refused
<1>4. ASSUME NEW r \in Requests, ReturnGlobal(r) PROVE SlotsExact'
  BY <1>4, LeavesKeepsSlots DEF ReturnGlobal
<1>5. ASSUME NEW r \in Requests, RefundFirst(r) PROVE SlotsExact'
  BY <1>5, StaysKeepsSlots DEF RefundFirst
<1>6. ASSUME NEW r \in Requests, RefundSecond(r) PROVE SlotsExact'
  <2>1. PICK ph \in {"failed", "streaming", "answered"} : phase' = [phase EXCEPT ![r] = ph]
    BY <1>6 DEF RefundSecond, Answer
  <2> QED
    BY <1>6, <2>1, LeavesKeepsSlots DEF RefundSecond
<1>7. ASSUME NEW r \in Requests, Upstream(r) PROVE SlotsExact'
  <2>1. CASE Raised(r)
    BY <1>7, <2>1, StaysKeepsSlots DEF Upstream, Raised
  <2>2. CASE Answer(r) /\ Release(r)
    <3>1. PICK ph \in {"streaming", "answered"} : phase' = [phase EXCEPT ![r] = ph]
      BY <2>2 DEF Answer
    <3> QED
      BY <1>7, <2>2, <3>1, LeavesKeepsSlots DEF Upstream
  <2>3. CASE Goto(r, "free") /\ UNCHANGED active
    BY <1>7, <2>3, StaysKeepsSlots DEF Upstream
  <2> QED
    BY <1>7, <2>1, <2>2, <2>3 DEF Upstream
<1>8. ASSUME NEW r \in Requests, StreamEnds(r) PROVE SlotsExact'
  BY <1>8, StaysKeepsSlots DEF StreamEnds
<1>9. CASE Tick
  BY <1>9 DEF Tick, SlotsExact, Holding
<1>10. CASE Crash
  <2>1. \A c \in Callers : Holding(c)' = {} /\ active'[c] = 0
    BY <1>10 DEF Crash, Holding, OverPhases
  <2>2. \A c \in Callers : MaxConcurrent[c] \in Nat
    OBVIOUS
  <2>3. \A c \in Callers : Cardinality(Holding(c)') = 0
    BY <2>1, FS_EmptySet
  <2> QED
    BY <2>1, <2>2, <2>3 DEF SlotsExact
<1>11. ASSUME NEW r \in Requests, LimiterRaises(r) PROVE SlotsExact'
  BY <1>11, LeavesKeepsSlots DEF LimiterRaises
<1>12. CASE UNCHANGED vars
  BY <1>12 DEF vars, SlotsExact, Holding
<1> QED
  BY <1>1, <1>2, <1>3, <1>4, <1>5, <1>6, <1>7, <1>8, <1>9, <1>10, <1>11, <1>12
     DEF Next, Metered

(* concurrency.py: the counter of a caller is the number of its requests   *)
(* inside dispatch, however they left it, and is never over its limit.     *)
THEOREM SlotsAlwaysExact ==
    ASSUME IsFiniteSet(Requests)
    PROVE  Spec => []SlotsExact
<1>1. Init => SlotsExact
  <2> SUFFICES ASSUME Init PROVE SlotsExact
    OBVIOUS
  <2>1. \A c \in Callers : Holding(c) = {} /\ active[c] = 0 /\ MaxConcurrent[c] \in Nat
    BY DEF Init, Holding, LoopPhases
  <2> QED
    BY <2>1, FS_EmptySet DEF SlotsExact
<1>2. TInv /\ SlotsExact /\ [Next]_vars => SlotsExact'
  BY SlotsNext
<1> QED
  BY <1>1, <1>2, TInvInit, TInvNext, PTL DEF Spec

(* Where no body is streamed nothing is in progress outside dispatch.      *)
LEMMA NothingStreams ==
    ASSUME "stream" \notin Routes
    PROVE  Spec => [](TInv /\ \A r \in Requests : phase[r] # "streaming")
<1> DEFINE Quiet == \A r \in Requests : phase[r] # "streaming"
<1>1. Init => Quiet
  BY DEF Init
<1>2. ASSUME TInv, Quiet, [Next]_vars PROVE Quiet'
  <2>1. \A r \in Requests : ~Streams(route[r])
    BY <1>2 DEF Streams, TInv, TypeOK
  <2> USE <1>2, <2>1 DEF Goto, TInv, TypeOK
  <2>2. ASSUME NEW r \in Requests, NEW c \in Callers, NEW p \in Routes, Arrive(r, c, p)
        PROVE  Quiet'
    BY <2>2 DEF Arrive
  <2>3. ASSUME NEW r \in Requests, TakeGlobal(r) \/ TakeOwn(r) \/ ReturnGlobal(r)
        PROVE  Quiet'
    BY <2>3 DEF TakeGlobal, TakeOwn, Refused, ReturnGlobal
  <2>4. ASSUME NEW r \in Requests, RefundFirst(r) \/ RefundSecond(r)
        PROVE  Quiet'
    BY <2>4 DEF RefundFirst, RefundSecond, Answer
  <2>5. ASSUME NEW r \in Requests, Upstream(r) PROVE Quiet'
    BY <2>5 DEF Upstream, Raised, Answer
  <2>6. ASSUME NEW r \in Requests, StreamEnds(r) PROVE Quiet'
    BY <2>6 DEF StreamEnds
  <2>7. CASE Crash
    BY <2>7 DEF Crash
  <2>8. ASSUME NEW r \in Requests, LimiterRaises(r) PROVE Quiet'
    BY <2>8 DEF LimiterRaises
  <2>9. CASE UNCHANGED phase
    BY <2>9
  <2> QED
    BY <2>2, <2>3, <2>4, <2>5, <2>6, <2>7, <2>8, <2>9 DEF Next, Metered, Tick, vars
<1> QED
  BY <1>1, <1>2, TInvInit, TInvNext, PTL DEF Spec

(* concurrency.py, 44: where every answer is complete when dispatch        *)
(* returns, a slot is held for the duration of a request, and no caller    *)
(* has more of them in progress than its limit.  Streams are the only      *)
(* requests that outlive their slot.                                       *)
THEOREM InFlightWithoutStreams ==
    ASSUME IsFiniteSet(Requests), "stream" \notin Routes
    PROVE  Spec => []InFlightWithinLimit
<1>1. ASSUME SlotsExact, \A r \in Requests : phase[r] # "streaming"
      PROVE  InFlightWithinLimit
  <2> SUFFICES ASSUME NEW c \in Callers
               PROVE  Cardinality({r \in Requests : /\ phase[r] \in OpenPhases
                                                    /\ caller[r] = c
                                                    /\ Concurrency(route[r])})
                        =< MaxConcurrent[c]
    BY DEF InFlightWithinLimit
  <2> DEFINE running == {r \in Requests : /\ phase[r] \in OpenPhases
                                          /\ caller[r] = c
                                          /\ Concurrency(route[r])}
  <2>1. running \subseteq Holding(c)
    BY <1>1 DEF Holding, OpenPhases
  <2>2. IsFiniteSet(Holding(c)) /\ Cardinality(Holding(c)) \in Nat
    BY HoldingIsFinite
  <2>3. Cardinality(running) \in Nat /\ Cardinality(running) =< Cardinality(Holding(c))
    BY <2>1, <2>2, FS_Subset, FS_CardinalityType
  <2>4. Cardinality(Holding(c)) =< MaxConcurrent[c] /\ MaxConcurrent[c] \in Nat
    BY <1>1 DEF SlotsExact
  <2> QED
    BY <2>2, <2>3, <2>4
<1> QED
  BY <1>1, SlotsAlwaysExact, NothingStreams, PTL
-----------------------------------------------------------------------------
(* The bill of a key, with the SQLite bucket, covers what the requests it  *)
(* has been charged for cost: a refund never makes it negative.            *)
Plans(k) == {q \in Requests : k \in paid[q] /\ route[q] # "chat"}

Chats(k) == {q \in Requests : k \in paid[q] /\ route[q] = "chat"}

Owed(k) == PlanCost * Cardinality(Plans(k)) + ChatCost * Cardinality(Chats(k))

Bills == \A k \in Keys : billed[k] >= Owed(k)

(* Multiplying by a natural number, one step and a bound.                  *)
LEMMA TimesOneMore ==
    ASSUME NEW c \in Nat, NEW n \in Nat
    PROVE  c * n \in Nat /\ c * (n + 1) = c * n + c
BY SMT

LEMMA TimesIsMonotone ==
    ASSUME NEW c \in Nat, NEW m \in Nat, NEW n \in Nat, m =< n
    PROVE  c * m =< c * n
<1>1. PICK d \in Nat : n = m + d
  <2>1. n - m \in Nat /\ n = m + (n - m)
    BY SMT
  <2> QED
    BY <2>1
<1>2. c * m \in Nat /\ c * d \in Nat
  BY SMT
<1>3. c * (m + d) = c * m + c * d
  BY SMT
<1> QED
  BY <1>1, <1>2, <1>3, SMT

LEMMA CountsAreNat ==
    ASSUME IsFiniteSet(Requests), NEW k
    PROVE  /\ IsFiniteSet(Plans(k)) /\ Cardinality(Plans(k)) \in Nat
           /\ IsFiniteSet(Chats(k)) /\ Cardinality(Chats(k)) \in Nat
           /\ Owed(k) \in Nat
<1>1. Plans(k) \subseteq Requests /\ Chats(k) \subseteq Requests
  BY DEF Plans, Chats
<1>2. /\ IsFiniteSet(Plans(k)) /\ Cardinality(Plans(k)) \in Nat
      /\ IsFiniteSet(Chats(k)) /\ Cardinality(Chats(k)) \in Nat
  BY <1>1, FS_Subset, FS_CardinalityType
<1>3. /\ PlanCost * Cardinality(Plans(k)) \in Nat
      /\ ChatCost * Cardinality(Chats(k)) \in Nat
  BY <1>2, TimesOneMore
<1> QED
  BY <1>2, <1>3 DEF Owed

(* A key that is charged to fewer requests owes less.                      *)
LEMMA FewerOweLess ==
    ASSUME IsFiniteSet(Requests), NEW k,
           Plans(k)' \subseteq Plans(k), Chats(k)' \subseteq Chats(k)
    PROVE  Owed(k)' \in Nat /\ Owed(k)' =< Owed(k)
<1>1. /\ Cardinality(Plans(k)) \in Nat /\ Cardinality(Chats(k)) \in Nat
      /\ IsFiniteSet(Plans(k)) /\ IsFiniteSet(Chats(k))
  BY CountsAreNat
<1>2. /\ Cardinality(Plans(k)') \in Nat /\ Cardinality(Plans(k)') =< Cardinality(Plans(k))
      /\ Cardinality(Chats(k)') \in Nat /\ Cardinality(Chats(k)') =< Cardinality(Chats(k))
  BY <1>1, FS_Subset, FS_CardinalityType
<1>3. /\ PlanCost * Cardinality(Plans(k)') =< PlanCost * Cardinality(Plans(k))
      /\ ChatCost * Cardinality(Chats(k)') =< ChatCost * Cardinality(Chats(k))
  BY <1>1, <1>2, TimesIsMonotone
<1>4. /\ PlanCost * Cardinality(Plans(k)') \in Nat /\ PlanCost * Cardinality(Plans(k)) \in Nat
      /\ ChatCost * Cardinality(Chats(k)') \in Nat /\ ChatCost * Cardinality(Chats(k)) \in Nat
  BY <1>1, <1>2, TimesOneMore
<1>5. /\ Owed(k)' = PlanCost * Cardinality(Plans(k)') + ChatCost * Cardinality(Chats(k)')
      /\ Owed(k) = PlanCost * Cardinality(Plans(k)) + ChatCost * Cardinality(Chats(k))
  BY DEF Owed
<1> QED
  BY <1>3, <1>4, <1>5

(* What a key owes is more by a request's cost when it is charged for it,  *)
(* and less by as much when that is returned.                              *)
LEMMA ChargeOwes ==
    ASSUME IsFiniteSet(Requests), TInv, NEW r \in Requests, NEW k \in Keys,
           k \notin paid[r], paid' = [paid EXCEPT ![r] = @ \cup {k}], UNCHANGED route
    PROVE  /\ Owed(k)' = Owed(k) + CostOf(route[r])
           /\ \A j \in Keys \ {k} : Owed(j)' = Owed(j)
<1>1. /\ IsFiniteSet(Plans(k)) /\ Cardinality(Plans(k)) \in Nat
      /\ IsFiniteSet(Chats(k)) /\ Cardinality(Chats(k)) \in Nat
  BY CountsAreNat
<1>2. /\ PlanCost * Cardinality(Plans(k)) \in Nat
      /\ ChatCost * Cardinality(Chats(k)) \in Nat
      /\ PlanCost * (Cardinality(Plans(k)) + 1) = PlanCost * Cardinality(Plans(k)) + PlanCost
      /\ ChatCost * (Cardinality(Chats(k)) + 1) = ChatCost * Cardinality(Chats(k)) + ChatCost
  BY <1>1, TimesOneMore
<1>3. \A j \in Keys \ {k} : Plans(j)' = Plans(j) /\ Chats(j)' = Chats(j)
  BY DEF Plans, Chats, TInv, TypeOK
<1>4. r \notin Plans(k) /\ r \notin Chats(k)
  BY DEF Plans, Chats
<1>5. Owed(k)' = PlanCost * Cardinality(Plans(k)') + ChatCost * Cardinality(Chats(k)')
  BY DEF Owed
<1>6. CASE route[r] = "chat"
  <2>1. Plans(k)' = Plans(k) /\ Chats(k)' = Chats(k) \cup {r}
    BY <1>6 DEF Plans, Chats, TInv, TypeOK
  <2>2. Cardinality(Chats(k)') = Cardinality(Chats(k)) + 1
    BY <1>1, <1>4, <2>1, FS_AddElement
  <2> QED
    BY <1>1, <1>2, <1>3, <1>5, <1>6, <2>1, <2>2 DEF Owed, CostOf
<1>7. CASE route[r] # "chat"
  <2>1. Chats(k)' = Chats(k) /\ Plans(k)' = Plans(k) \cup {r}
    BY <1>7 DEF Plans, Chats, TInv, TypeOK
  <2>2. Cardinality(Plans(k)') = Cardinality(Plans(k)) + 1
    BY <1>1, <1>4, <2>1, FS_AddElement
  <2> QED
    BY <1>1, <1>2, <1>3, <1>5, <1>7, <2>1, <2>2 DEF Owed, CostOf
<1> QED
  BY <1>6, <1>7

LEMMA RefundOwes ==
    ASSUME IsFiniteSet(Requests), TInv, NEW r \in Requests, NEW k \in Keys,
           k \in paid[r], paid' = [paid EXCEPT ![r] = @ \ {k}], UNCHANGED route
    PROVE  /\ Owed(k)' = Owed(k) - CostOf(route[r])
           /\ Owed(k)' \in Nat
           /\ \A j \in Keys \ {k} : Owed(j)' = Owed(j)
<1>1. /\ IsFiniteSet(Plans(k)) /\ Cardinality(Plans(k)) \in Nat
      /\ IsFiniteSet(Chats(k)) /\ Cardinality(Chats(k)) \in Nat
  BY CountsAreNat
<1>2. Plans(k)' \subseteq Plans(k) /\ Chats(k)' \subseteq Chats(k)
  BY DEF Plans, Chats, TInv, TypeOK
<1>3. /\ Cardinality(Plans(k)') \in Nat /\ Cardinality(Chats(k)') \in Nat
      /\ Owed(k)' \in Nat
  BY <1>1, <1>2, FS_Subset, FS_CardinalityType, FewerOweLess
<1>4. /\ PlanCost * Cardinality(Plans(k)') \in Nat
      /\ ChatCost * Cardinality(Chats(k)') \in Nat
      /\ PlanCost * (Cardinality(Plans(k)') + 1) = PlanCost * Cardinality(Plans(k)') + PlanCost
      /\ ChatCost * (Cardinality(Chats(k)') + 1) = ChatCost * Cardinality(Chats(k)') + ChatCost
  BY <1>3, TimesOneMore
<1>5. \A j \in Keys \ {k} : Plans(j)' = Plans(j) /\ Chats(j)' = Chats(j)
  BY DEF Plans, Chats, TInv, TypeOK
<1>6. Owed(k)' = PlanCost * Cardinality(Plans(k)') + ChatCost * Cardinality(Chats(k)')
  BY DEF Owed
<1>7. CASE route[r] = "chat"
  <2>1. Plans(k)' = Plans(k) /\ Chats(k)' = Chats(k) \ {r} /\ r \in Chats(k)
    BY <1>7 DEF Plans, Chats, TInv, TypeOK
  <2>2. Cardinality(Chats(k)') = Cardinality(Chats(k)) - 1
    <3>1. Cardinality(Chats(k) \ {r}) = Cardinality(Chats(k)) - 1
      BY <1>1, <2>1, FS_RemoveElement
    <3> QED
      BY <2>1, <3>1
  <2>3. Cardinality(Chats(k)) = Cardinality(Chats(k)') + 1
    BY <1>1, <1>3, <2>2
  <2> QED
    BY <1>1, <1>3, <1>4, <1>5, <1>6, <1>7, <2>1, <2>3 DEF Owed, CostOf
<1>8. CASE route[r] # "chat"
  <2>1. Chats(k)' = Chats(k) /\ Plans(k)' = Plans(k) \ {r} /\ r \in Plans(k)
    BY <1>8 DEF Plans, Chats, TInv, TypeOK
  <2>2. Cardinality(Plans(k)') = Cardinality(Plans(k)) - 1
    <3>1. Cardinality(Plans(k) \ {r}) = Cardinality(Plans(k)) - 1
      BY <1>1, <2>1, FS_RemoveElement
    <3> QED
      BY <2>1, <3>1
  <2>3. Cardinality(Plans(k)) = Cardinality(Plans(k)') + 1
    BY <1>1, <1>3, <2>2
  <2> QED
    BY <1>1, <1>3, <1>4, <1>5, <1>6, <1>8, <2>1, <2>3 DEF Owed, CostOf
<1> QED
  BY <1>7, <1>8

(* A row and a bill: an operation of the bucket loses nothing, unless it   *)
(* returns more than was billed.                                           *)
LEMMA NothingLost ==
    ASSUME NEW row \in [tokens : Nat, last : Nat], NEW now \in Nat,
           NEW cap \in Nat, NEW rate \in Nat, NEW cost \in Nat, NEW bill \in Int,
           Refilled(row, now, [capacity |-> cap, rate |-> rate]) >= cap - bill
    PROVE  LET b == [capacity |-> cap, rate |-> rate]
           IN  /\ Refilled(Taken(row, now, b, cost), now, b)
                     >= cap - (bill + (IF Fits(row, now, b, cost) THEN cost ELSE 0))
               /\ bill >= cost =>
                    Refilled(Refunded(row, now, b, cost), now, b) >= cap - (bill - cost)
               /\ Refilled(row, now + 1, b) >= cap - bill
<1> DEFINE b == [capacity |-> cap, rate |-> rate]
           gain == Elapsed(row, now) * rate
           held == Refilled(row, now, b)
<1>1. gain \in Nat
  BY SMT DEF Elapsed
<1>2. held = (IF cap =< row.tokens + gain THEN cap ELSE row.tokens + gain) /\ held \in Nat
  <2>1. held = IF cap =< row.tokens + gain THEN cap ELSE row.tokens + gain
    BY DEF Refilled, Least
  <2> QED
    BY <1>1, <2>1
<1>3. held =< cap /\ held >= cap - bill
  <2> HIDE DEF gain
  <2> QED
    BY <1>1, <1>2
<1>4. \A left \in Int :
         Refilled([tokens |-> left, last |-> now], now, b) = IF cap =< left THEN cap ELSE left
  <2> TAKE left \in Int
  <2>1. Elapsed([tokens |-> left, last |-> now], now) * rate = 0
    BY SMT DEF Elapsed
  <2> QED
    BY <2>1 DEF Refilled, Least
<1>5. Refilled(Taken(row, now, b, cost), now, b)
        >= cap - (bill + (IF Fits(row, now, b, cost) THEN cost ELSE 0))
  <2> DEFINE left == held - (IF Fits(row, now, b, cost) THEN cost ELSE 0)
  <2>1. Taken(row, now, b, cost) = [tokens |-> left, last |-> now] /\ left \in Int
    BY <1>2 DEF Taken
  <2>2. Refilled(Taken(row, now, b, cost), now, b) = IF cap =< left THEN cap ELSE left
    BY <1>4, <2>1
  <2> HIDE DEF held
  <2>3. (IF Fits(row, now, b, cost) THEN cost ELSE 0) \in Nat
    OBVIOUS
  <2> QED
    BY <1>2, <1>3, <2>2, <2>3
<1>6. ASSUME bill >= cost
      PROVE  Refilled(Refunded(row, now, b, cost), now, b) >= cap - (bill - cost)
  <2> DEFINE left == IF cap =< row.tokens + gain + cost THEN cap ELSE row.tokens + gain + cost
  <2>1. Refunded(row, now, b, cost) = [tokens |-> left, last |-> now]
    BY DEF Refunded, Least
  <2>2. left \in Int
    <3> HIDE DEF gain
    <3> QED
      BY <1>1
  <2>3. Refilled(Refunded(row, now, b, cost), now, b) = IF cap =< left THEN cap ELSE left
    BY <1>4, <2>1, <2>2
  <2> HIDE DEF gain, held
  <2> QED
    BY <1>1, <1>2, <1>3, <1>6, <2>3
<1>7. Refilled(row, now + 1, b) >= cap - bill
  <2> DEFINE more == Elapsed(row, now + 1) * rate
  <2>1. more \in Nat /\ more >= gain
    <3>1. /\ Elapsed(row, now + 1) \in Nat /\ Elapsed(row, now) \in Nat
          /\ Elapsed(row, now) =< Elapsed(row, now + 1)
      BY DEF Elapsed
    <3>2. rate * Elapsed(row, now) =< rate * Elapsed(row, now + 1)
      BY <3>1, TimesIsMonotone
    <3> QED
      BY <3>1, <3>2, SMT
  <2>2. Refilled(row, now + 1, b) = IF cap =< row.tokens + more THEN cap ELSE row.tokens + more
    BY DEF Refilled, Least
  <2> HIDE DEF gain, held, more
  <2> QED
    BY <1>1, <1>2, <1>3, <2>1, <2>2
<1> QED
  BY <1>5, <1>6, <1>7

(* A charge and the refund of a charge.                                    *)
LEMMA ChargeLosesNothing ==
    ASSUME IsFiniteSet(Requests), Backend = "bucket", TInv, NeverOvercharged, Bills,
           NEW r \in Requests, NEW k \in Keys, k \notin paid[r],
           Charge(r, k), UNCHANGED <<clock, route>>
    PROVE  NeverOvercharged' /\ Bills'
<1> DEFINE cost == CostOf(route[r])
<1>1. /\ cost \in Nat /\ clock \in Nat /\ billed \in [Keys -> Int]
      /\ Capacity[k] \in Nat /\ Rate[k] \in Nat
      /\ rows[k] \in [tokens : Nat, last : Nat]
      /\ rows \in [Keys -> [tokens : Nat, last : 0..clock]]
  BY CostIsNat, BoundAssumption DEF TInv, TypeOK
<1> HIDE DEF cost
<1>2. \A j \in Keys \ {k} : rows'[j] = rows[j] /\ billed'[j] = billed[j]
  BY <1>1 DEF Charge
<1>3. /\ rows'[k] = Taken(rows[k], clock, Bucket(k), cost)
      /\ billed'[k] = billed[k] + (IF Fits(rows[k], clock, Bucket(k), cost) THEN cost ELSE 0)
  BY <1>1 DEF Charge, Has, cost
<1>4. Refilled(rows[k], clock, Bucket(k)) >= Capacity[k] - billed[k]
  BY DEF NeverOvercharged
<1>5. Refilled(rows'[k], clock, Bucket(k)) >= Capacity[k] - billed'[k]
  BY <1>1, <1>3, <1>4, NothingLost DEF Bucket
<1>6. NeverOvercharged'
  BY <1>2, <1>5 DEF NeverOvercharged, Bucket
<1>7. Bills'
  <2>1. \A j \in Keys : Owed(j) \in Nat /\ billed[j] >= Owed(j) /\ billed[j] \in Int
    BY <1>1, CountsAreNat DEF Bills
  <2>2. CASE Has(k, cost)
    <3>1. paid' = [paid EXCEPT ![r] = @ \cup {k}] /\ billed'[k] = billed[k] + cost
      BY <1>1, <2>2 DEF Charge, cost
    <3>2. Owed(k)' = Owed(k) + cost /\ \A j \in Keys \ {k} : Owed(j)' = Owed(j)
      BY <3>1, ChargeOwes DEF cost
    <3> QED
      BY <1>1, <1>2, <2>1, <3>1, <3>2 DEF Bills
  <2>3. CASE ~Has(k, cost)
    <3>1. UNCHANGED <<paid, billed, route>>
      BY <2>3 DEF Charge, cost
    <3> QED
      BY <2>1, <3>1 DEF Bills, Owed, Plans, Chats
  <2> QED
    BY <2>2, <2>3
<1> QED
  BY <1>6, <1>7

LEMMA RefundLosesNothing ==
    ASSUME IsFiniteSet(Requests), Backend = "bucket", TInv, NeverOvercharged, Bills,
           NEW r \in Requests, NEW k \in Keys, k \in paid[r],
           Refund(r, k), UNCHANGED <<clock, route>>
    PROVE  NeverOvercharged' /\ Bills'
<1> DEFINE cost == CostOf(route[r])
<1>1. /\ cost \in Nat /\ clock \in Nat /\ billed \in [Keys -> Int]
      /\ Capacity[k] \in Nat /\ Rate[k] \in Nat
      /\ rows[k] \in [tokens : Nat, last : Nat]
      /\ rows \in [Keys -> [tokens : Nat, last : 0..clock]]
  BY CostIsNat, BoundAssumption DEF TInv, TypeOK
<1>2. paid' = [paid EXCEPT ![r] = @ \ {k}] /\ UNCHANGED route
  BY DEF Refund
<1>3. /\ Owed(k)' = Owed(k) - cost /\ Owed(k)' \in Nat
      /\ \A j \in Keys \ {k} : Owed(j)' = Owed(j)
  BY <1>2, RefundOwes
<1> HIDE DEF cost
<1>4. \A j \in Keys \ {k} : rows'[j] = rows[j] /\ billed'[j] = billed[j]
  BY <1>1 DEF Refund
<1>5. /\ rows'[k] = Refunded(rows[k], clock, Bucket(k), cost)
      /\ billed'[k] = billed[k] - cost
  BY <1>1 DEF Refund, cost
<1>6. \A j \in Keys : Owed(j) \in Nat /\ billed[j] >= Owed(j) /\ billed[j] \in Int
  BY <1>1, CountsAreNat DEF Bills
<1>7. billed[k] >= cost
  BY <1>1, <1>3, <1>6
<1>8. Refilled(rows[k], clock, Bucket(k)) >= Capacity[k] - billed[k]
  BY DEF NeverOvercharged
<1>9. Refilled(rows'[k], clock, Bucket(k)) >= Capacity[k] - billed'[k]
  BY <1>1, <1>5, <1>6, <1>7, <1>8, NothingLost DEF Bucket
<1>10. NeverOvercharged'
  BY <1>4, <1>9 DEF NeverOvercharged, Bucket
<1>11. Bills'
  BY <1>1, <1>3, <1>4, <1>5, <1>6 DEF Bills
<1> QED
  BY <1>10, <1>11

LEMMA BillsNext ==
    ASSUME IsFiniteSet(Requests), Backend = "bucket", TInv, Ledger,
           NeverOvercharged, Bills, [Next]_vars
    PROVE  NeverOvercharged' /\ Bills'
<1>1. ASSUME NEW r \in Requests, NEW c \in Callers, NEW p \in Routes, Arrive(r, c, p)
      PROVE  NeverOvercharged' /\ Bills'
  <2>1. \A k \in Keys : Plans(k)' \subseteq Plans(k) /\ Chats(k)' \subseteq Chats(k)
    BY <1>1 DEF Arrive, Plans, Chats, TInv, TypeOK
  <2>2. \A k \in Keys : Owed(k) \in Nat /\ Owed(k)' \in Nat /\ Owed(k)' =< Owed(k)
    BY <2>1, FewerOweLess, CountsAreNat
  <2>3. UNCHANGED <<rows, clock, billed>> /\ billed \in [Keys -> Int]
    BY <1>1 DEF Arrive, TInv, TypeOK
  <2>4. Bills'
    BY <2>2, <2>3 DEF Bills
  <2> QED
    BY <2>3, <2>4 DEF NeverOvercharged
<1>2. ASSUME NEW r \in Requests, TakeGlobal(r)
      PROVE  NeverOvercharged' /\ Bills'
  <2>1. paid[r] = {}
    BY <1>2 DEF TakeGlobal, Ledger
  <2> QED
    BY <1>2, <2>1, ChargeLosesNothing DEF TakeGlobal, Keys
<1>3. ASSUME NEW r \in Requests, TakeOwn(r)
      PROVE  NeverOvercharged' /\ Bills'
  <2>1. paid[r] = {Global} /\ caller[r] \in Callers
    BY <1>3 DEF TakeOwn, Ledger, TInv, TypeOK
  <2> QED
    BY <1>3, <2>1, ChargeLosesNothing DEF TakeOwn, Keys
<1>4. ASSUME NEW r \in Requests, ReturnGlobal(r)
      PROVE  NeverOvercharged' /\ Bills'
  <2>1. paid[r] = {Global}
    BY <1>4 DEF ReturnGlobal, Ledger
  <2> QED
    BY <1>4, <2>1, RefundLosesNothing DEF ReturnGlobal, Keys
<1>5. ASSUME NEW r \in Requests, RefundFirst(r)
      PROVE  NeverOvercharged' /\ Bills'
  <2>1. paid[r] = Ours(r) /\ caller[r] \in Callers
    BY <1>5 DEF RefundFirst, Ledger, TInv, TypeOK
  <2> QED
    BY <1>5, <2>1, RefundLosesNothing DEF RefundFirst, FirstReturned, Ours, Keys
<1>6. ASSUME NEW r \in Requests, RefundSecond(r)
      PROVE  NeverOvercharged' /\ Bills'
  <2>1. paid[r] = {Global} /\ caller[r] \in Callers
    BY <1>6 DEF RefundSecond, Ledger, TInv, TypeOK
  <2>2. SecondReturned(r) = Global
    BY <2>1 DEF SecondReturned, FirstReturned
  <2> QED
    BY <1>6, <2>1, <2>2, RefundLosesNothing DEF RefundSecond, Keys
<1>7. CASE Tick
  <2>1. UNCHANGED <<rows, billed, paid, route>> /\ clock' = clock + 1
    BY <1>7 DEF Tick
  <2>2. ASSUME NEW k \in Keys
        PROVE  Refilled(rows[k], clock + 1, Bucket(k)) >= Capacity[k] - billed[k]
    <3>1. /\ clock \in Nat /\ billed[k] \in Int /\ rows[k] \in [tokens : Nat, last : Nat]
          /\ Capacity[k] \in Nat /\ Rate[k] \in Nat
      BY BoundAssumption DEF TInv, TypeOK
    <3>2. Refilled(rows[k], clock, Bucket(k)) >= Capacity[k] - billed[k]
      BY DEF NeverOvercharged
    <3> QED
      BY <3>1, <3>2, NothingLost DEF Bucket
  <2> QED
    BY <2>1, <2>2 DEF NeverOvercharged, Bills, Owed, Plans, Chats, Bucket
<1>8. CASE UNCHANGED <<rows, clock, billed, paid, route>>
  BY <1>8 DEF NeverOvercharged, Bills, Owed, Plans, Chats, Bucket
<1> QED
  BY <1>1, <1>2, <1>3, <1>4, <1>5, <1>6, <1>7, <1>8
     DEF Next, Metered, LimiterRaises, Upstream, StreamEnds, Crash, vars

(* Every row is full at the start.                                         *)
LEMMA FullAtStart ==
    ASSUME Init, NEW k \in Keys
    PROVE  Refilled(rows[k], clock, Bucket(k)) = Capacity[k]
<1>1. /\ rows[k] = [tokens |-> Capacity[k], last |-> 0] /\ clock = 0
      /\ Capacity[k] \in Nat /\ Rate[k] \in Nat
  BY DEF Init, Full, Bucket
<1>2. Elapsed(rows[k], clock) * Rate[k] = 0
  BY <1>1, SMT DEF Elapsed
<1> QED
  BY <1>1, <1>2 DEF Refilled, Least, Bucket

LEMMA BillsCorrect ==
    ASSUME IsFiniteSet(Requests), Backend = "bucket"
    PROVE  Spec => [](TInv /\ Ledger /\ NeverOvercharged /\ Bills)
<1>1. Init => NeverOvercharged /\ Bills
  <2> SUFFICES ASSUME Init PROVE NeverOvercharged /\ Bills
    OBVIOUS
  <2>1. \A k \in Keys : Refilled(rows[k], clock, Bucket(k)) = Capacity[k] /\ billed[k] = 0
    BY FullAtStart DEF Init
  <2>2. \A k \in Keys : Plans(k) = {} /\ Chats(k) = {}
    BY DEF Init, Plans, Chats
  <2>3. \A k \in Keys : Owed(k) = 0
    <3>1. \A k \in Keys : Cardinality(Plans(k)) = 0 /\ Cardinality(Chats(k)) = 0
      BY <2>2, FS_EmptySet
    <3>2. PlanCost * 0 + ChatCost * 0 = 0
      BY SMT
    <3> QED
      BY <3>1, <3>2 DEF Owed
  <2>4. \A k \in Keys : Capacity[k] \in Nat
    OBVIOUS
  <2> QED
    BY <2>1, <2>3, <2>4 DEF NeverOvercharged, Bills
<1>2. TInv /\ Ledger /\ NeverOvercharged /\ Bills /\ [Next]_vars => NeverOvercharged' /\ Bills'
  BY BillsNext
<1> QED
  BY <1>1, <1>2, LedgerCorrect, PTL DEF Spec

(* buckets.py, take() and refund(): a key can spend all of its burst but   *)
(* what it has been billed, whatever is refused, refunded or lost in a     *)
(* crash; a refund that meets the cap takes nothing away.                  *)
THEOREM BucketNeverOvercharges ==
    ASSUME IsFiniteSet(Requests), Backend = "bucket"
    PROVE  Spec => []NeverOvercharged
BY BillsCorrect, PTL
-----------------------------------------------------------------------------
(* The level of the ideal bucket a row stands for.                         *)
Level(k) == Refilled(rows[k], clock, Bucket(k))

(* What an operation does to the level of a row whose time is past: a take *)
(* that fits draws its cost, one that does not leaves the level as it is   *)
(* though it writes the row, a refund adds up to the burst, and so does    *)
(* the clock.                                                              *)
LEMMA LevelArithmetic ==
    ASSUME NEW now \in Nat, NEW row \in [tokens : Nat, last : 0..now],
           NEW cap \in Nat, NEW rate \in Nat, NEW cost \in Nat
    PROVE  LET b == [capacity |-> cap, rate |-> rate]
               held == Refilled(row, now, b)
           IN  /\ held \in Nat /\ held =< cap
               /\ Refilled(Taken(row, now, b, cost), now, b)
                     = held - (IF Fits(row, now, b, cost) THEN cost ELSE 0)
               /\ Refilled(Refunded(row, now, b, cost), now, b) = Least(cap, held + cost)
               /\ Refilled(row, now + 1, b) = Least(cap, held + rate)
<1> DEFINE b == [capacity |-> cap, rate |-> rate]
           gain == Elapsed(row, now) * rate
           held == Refilled(row, now, b)
<1>1. gain \in Nat /\ row.tokens \in Nat
  BY SMT DEF Elapsed
<1>2. held = (IF cap =< row.tokens + gain THEN cap ELSE row.tokens + gain)
      /\ held \in Nat /\ held =< cap
  <2>1. held = IF cap =< row.tokens + gain THEN cap ELSE row.tokens + gain
    BY DEF Refilled, Least
  <2> HIDE DEF gain, held
  <2> QED
    BY <1>1, <2>1
<1>3. \A left \in Int :
         Refilled([tokens |-> left, last |-> now], now, b) = IF cap =< left THEN cap ELSE left
  <2> TAKE left \in Int
  <2>1. Elapsed([tokens |-> left, last |-> now], now) * rate = 0
    BY SMT DEF Elapsed
  <2> QED
    BY <2>1 DEF Refilled, Least
<1>4. Refilled(Taken(row, now, b, cost), now, b)
        = held - (IF Fits(row, now, b, cost) THEN cost ELSE 0)
  <2> DEFINE left == held - (IF Fits(row, now, b, cost) THEN cost ELSE 0)
  <2>1. Taken(row, now, b, cost) = [tokens |-> left, last |-> now]
    BY DEF Taken
  <2>2. left \in Int /\ left =< cap
    <3> HIDE DEF held
    <3> QED
      BY <1>2
  <2>3. Refilled(Taken(row, now, b, cost), now, b) = IF cap =< left THEN cap ELSE left
    BY <1>3, <2>1, <2>2
  <2> HIDE DEF left
  <2>4. (IF cap =< left THEN cap ELSE left) = left
    BY <2>2
  <2> QED
    BY <2>3, <2>4 DEF left
<1>5. Refilled(Refunded(row, now, b, cost), now, b) = Least(cap, held + cost)
  <2> DEFINE left == IF cap =< row.tokens + gain + cost THEN cap ELSE row.tokens + gain + cost
  <2>1. Refunded(row, now, b, cost) = [tokens |-> left, last |-> now]
    BY DEF Refunded, Least
  <2>2. left \in Int
    <3> HIDE DEF gain
    <3> QED
      BY <1>1
  <2>3. Refilled(Refunded(row, now, b, cost), now, b) = IF cap =< left THEN cap ELSE left
    BY <1>3, <2>1, <2>2
  <2> HIDE DEF gain, held
  <2> QED
    BY <1>1, <1>2, <2>3 DEF Least
<1>6. Refilled(row, now + 1, b) = Least(cap, held + rate)
  <2> DEFINE more == Elapsed(row, now + 1) * rate
  <2>1. more = gain + rate
    <3>1. Elapsed(row, now) \in Nat /\ Elapsed(row, now + 1) = Elapsed(row, now) + 1
      BY DEF Elapsed
    <3>2. rate * (Elapsed(row, now) + 1) = rate * Elapsed(row, now) + rate
      BY <3>1, TimesOneMore
    <3> QED
      BY <3>1, <3>2, SMT
  <2>2. Refilled(row, now + 1, b) = IF cap =< row.tokens + more THEN cap ELSE row.tokens + more
    BY DEF Refilled, Least
  <2> HIDE DEF gain, held, more
  <2> QED
    BY <1>1, <1>2, <2>1, <2>2 DEF Least
<1> QED
  BY <1>2, <1>4, <1>5, <1>6

(* The facts about one key that the arithmetic needs.                      *)
LEMMA KeyTypes ==
    ASSUME TInv, NEW k \in Keys
    PROVE  /\ clock \in Nat /\ rows[k] \in [tokens : Nat, last : 0..clock]
           /\ Capacity[k] \in Nat /\ Rate[k] \in Nat /\ billed[k] \in Int
           /\ Bucket(k) = [capacity |-> Capacity[k], rate |-> Rate[k]]
BY BoundAssumption DEF TInv, TypeOK, Bucket

LEMMA CostIsACost == \A p : CostOf(p) \in {PlanCost, ChatCost}
BY DEF CostOf

(* A charge is a draw, or nothing when it is refused.                      *)
LEMMA ChargeIsDraw ==
    ASSUME Backend = "bucket", TInv, NEW r \in Requests, NEW k \in Keys,
           Charge(r, k), UNCHANGED clock
    PROVE  [Ideal!Next]_<<[j \in Keys |-> Level(j)], billed>>
<1> DEFINE cost == CostOf(route[r])
<1>1. cost \in Nat /\ cost \in {PlanCost, ChatCost}
  BY CostIsNat, CostIsACost
<1>2. /\ billed \in [Keys -> Int]
      /\ rows \in [Keys -> [tokens : Nat, last : 0..clock]]
  BY DEF TInv, TypeOK
<1>3. rows' = [rows EXCEPT ![k] = Taken(rows[k], clock, Bucket(k), cost)]
  BY DEF Charge
<1>4. Has(k, cost) <=> Fits(rows[k], clock, Bucket(k), cost)
  BY DEF Has
<1>5. \A j \in Keys \ {k} : Level(j)' = Level(j)
  BY <1>2, <1>3 DEF Level, Bucket
<1>6. Level(k)' = Refilled(Taken(rows[k], clock, Bucket(k), cost), clock, Bucket(k))
  BY <1>2, <1>3 DEF Level, Bucket
<1>7. Level(k)' = Level(k) - (IF Has(k, cost) THEN cost ELSE 0)
  <2> HIDE DEF cost
  <2> QED
    BY <1>1, <1>4, <1>6, KeyTypes, LevelArithmetic DEF Level
<1>8. Level(k) \in Nat
  BY <1>1, KeyTypes, LevelArithmetic DEF Level
<1>9. CASE Has(k, cost)
  <2>1. billed' = [billed EXCEPT ![k] = @ + cost]
    BY <1>9 DEF Charge
  <2>2. cost =< Level(k)
    BY <1>1, <1>4, <1>8, <1>9 DEF Fits, Level
  <2>3. [j \in Keys |-> Level(j)]' = [[j \in Keys |-> Level(j)] EXCEPT ![k] = @ - cost]
    BY <1>5, <1>7, <1>9
  <2>4. Ideal!Draw(k, cost)
    BY <2>1, <2>2, <2>3 DEF Ideal!Draw, Level
  <2> QED
    BY <1>1, <2>4 DEF Ideal!Next
<1>10. CASE ~Has(k, cost)
  <2>1. UNCHANGED billed
    BY <1>10 DEF Charge
  <2>2. [j \in Keys |-> Level(j)]' = [j \in Keys |-> Level(j)]
    BY <1>5, <1>7, <1>8, <1>10
  <2> QED
    BY <2>1, <2>2
<1> QED
  BY <1>9, <1>10

(* A refund returns what was drawn.                                        *)
LEMMA RefundIsReturn ==
    ASSUME IsFiniteSet(Requests), Backend = "bucket", TInv, Bills,
           NEW r \in Requests, NEW k \in Keys, k \in paid[r],
           Refund(r, k), UNCHANGED <<clock, route>>
    PROVE  [Ideal!Next]_<<[j \in Keys |-> Level(j)], billed>>
<1> DEFINE cost == CostOf(route[r])
<1>1. cost \in Nat /\ cost \in {PlanCost, ChatCost}
  BY CostIsNat, CostIsACost
<1>2. /\ billed \in [Keys -> Int]
      /\ rows \in [Keys -> [tokens : Nat, last : 0..clock]]
  BY DEF TInv, TypeOK
<1>3. /\ rows' = [rows EXCEPT ![k] = Refunded(rows[k], clock, Bucket(k), cost)]
      /\ billed' = [billed EXCEPT ![k] = @ - cost]
  BY DEF Refund
<1>4. cost =< billed[k]
  <2>1. paid' = [paid EXCEPT ![r] = @ \ {k}] /\ UNCHANGED route
    BY DEF Refund
  <2>2. Owed(k)' = Owed(k) - cost /\ Owed(k)' \in Nat
    BY <2>1, RefundOwes
  <2>3. Owed(k) \in Nat /\ billed[k] \in Int /\ billed[k] >= Owed(k)
    BY <1>2, CountsAreNat DEF Bills
  <2> HIDE DEF cost
  <2> QED
    BY <1>1, <2>2, <2>3
<1>5. \A j \in Keys \ {k} : Level(j)' = Level(j)
  BY <1>2, <1>3 DEF Level, Bucket
<1>6. Level(k)' = Refilled(Refunded(rows[k], clock, Bucket(k), cost), clock, Bucket(k))
  BY <1>2, <1>3 DEF Level, Bucket
<1>7. Level(k)' = Least(Capacity[k], Level(k) + cost)
  <2> HIDE DEF cost
  <2> QED
    BY <1>1, <1>6, KeyTypes, LevelArithmetic DEF Level
<1>8. [j \in Keys |-> Level(j)]'
        = [[j \in Keys |-> Level(j)] EXCEPT ![k] = Least(Capacity[k], @ + cost)]
  BY <1>5, <1>7
<1>9. Ideal!Return(k, cost)
  BY <1>3, <1>4, <1>8 DEF Ideal!Return, Ideal!Least, Least, Level
<1> QED
  BY <1>1, <1>9 DEF Ideal!Next

LEMMA IdealNext ==
    ASSUME IsFiniteSet(Requests), Backend = "bucket", TInv, Ledger, Bills, [Next]_vars
    PROVE  [Ideal!Next]_<<[j \in Keys |-> Level(j)], billed>>
<1>1. ASSUME NEW r \in Requests, TakeGlobal(r)
      PROVE  [Ideal!Next]_<<[j \in Keys |-> Level(j)], billed>>
  BY <1>1, ChargeIsDraw DEF TakeGlobal, Keys
<1>2. ASSUME NEW r \in Requests, TakeOwn(r)
      PROVE  [Ideal!Next]_<<[j \in Keys |-> Level(j)], billed>>
  <2>1. caller[r] \in Keys
    BY <1>2 DEF TakeOwn, TInv, TypeOK, Keys
  <2> QED
    BY <1>2, <2>1, ChargeIsDraw DEF TakeOwn
<1>3. ASSUME NEW r \in Requests, ReturnGlobal(r)
      PROVE  [Ideal!Next]_<<[j \in Keys |-> Level(j)], billed>>
  <2>1. paid[r] = {Global}
    BY <1>3 DEF ReturnGlobal, Ledger
  <2> QED
    BY <1>3, <2>1, RefundIsReturn DEF ReturnGlobal, Keys
<1>4. ASSUME NEW r \in Requests, RefundFirst(r)
      PROVE  [Ideal!Next]_<<[j \in Keys |-> Level(j)], billed>>
  <2>1. paid[r] = Ours(r) /\ caller[r] \in Callers
    BY <1>4 DEF RefundFirst, Ledger, TInv, TypeOK
  <2> QED
    BY <1>4, <2>1, RefundIsReturn DEF RefundFirst, FirstReturned, Ours, Keys
<1>5. ASSUME NEW r \in Requests, RefundSecond(r)
      PROVE  [Ideal!Next]_<<[j \in Keys |-> Level(j)], billed>>
  <2>1. paid[r] = {Global} /\ caller[r] \in Callers
    BY <1>5 DEF RefundSecond, Ledger, TInv, TypeOK
  <2>2. SecondReturned(r) = Global
    BY <2>1 DEF SecondReturned, FirstReturned
  <2> QED
    BY <1>5, <2>1, <2>2, RefundIsReturn DEF RefundSecond, Keys
<1>6. CASE Tick
  <2>1. UNCHANGED <<rows, billed>> /\ clock' = clock + 1
    BY <1>6 DEF Tick
  <2>2. \A k \in Keys : Level(k)' = Least(Capacity[k], Level(k) + Rate[k])
    <3> TAKE k \in Keys
    <3>1. Level(k)' = Refilled(rows[k], clock + 1, Bucket(k))
      BY <2>1 DEF Level, Bucket
    <3> QED
      BY <3>1, KeyTypes, LevelArithmetic DEF Level
  <2>3. [k \in Keys |-> Level(k)]'
          = [k \in Keys |-> Least(Capacity[k], Level(k) + Rate[k])]
    BY <2>2
  <2>4. Ideal!Refill
    BY <2>1, <2>3 DEF Ideal!Refill, Ideal!Least, Least, Level
  <2> QED
    BY <2>4 DEF Ideal!Next
<1>7. CASE UNCHANGED <<rows, clock, billed>>
  BY <1>7 DEF Level, Bucket
<1> QED
  BY <1>1, <1>2, <1>3, <1>4, <1>5, <1>6, <1>7
     DEF Next, Metered, Arrive, LimiterRaises, Upstream, StreamEnds, Crash, vars

(* buckets.py, 30-32: a row and the time it was written are a bucket that  *)
(* a timer fills.  Whatever the requests do and whenever the process dies, *)
(* to each key the gateway is a bucket whose draws fit and whose returns   *)
(* were drawn.                                                             *)
THEOREM RowsAreIdealBuckets ==
    ASSUME IsFiniteSet(Requests), Backend = "bucket"
    PROVE  Spec => ImplementsIdealBucket
<1>1. Init => Ideal!Init
  <2> SUFFICES ASSUME Init PROVE Ideal!Init
    OBVIOUS
  <2>1. \A k \in Keys : Level(k) = Capacity[k]
    BY FullAtStart DEF Level
  <2> QED
    BY <2>1 DEF Init, Ideal!Init, Level
<1>2. TInv /\ Ledger /\ Bills /\ [Next]_vars
         => [Ideal!Next]_(Ideal!vars)
  BY IdealNext DEF Ideal!vars, Level
<1> QED
  BY <1>1, <1>2, BillsCorrect, PTL DEF Spec, ImplementsIdealBucket, Ideal!Spec
=============================================================================
