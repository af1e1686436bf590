-------------------------- MODULE EventStreamProofs -------------------------
(***************************************************************************)
(* A browser sees its job's events once, in order and without gaps, over   *)
(* any number of dropped connections, for any jobs and workers, and        *)
(* whatever fails on the workers' side.  That the verdict it shows is      *)
(* final needs what the queue needs to keep its contract.                  *)
(***************************************************************************)
EXTENDS EventStream, JobQueueProofs

FrameKinds == Kinds \cup {"result", "timeout"}
Verdicts == {"nothing", "done", "dead", "stalled"}

\* What is left of a read is in order: no row of the job between the cursor and
\* a row that is still to be yielded is missing.
BatchInv ==
    serve = "yield" =>
        /\ batch \subseteq EventsSince(Watched, cursor)
        /\ \A i \in batch, k \in EventsSince(Watched, cursor) : k < i => k \in batch

\* The events on the wire are rows of the job between what the browser has and
\* the cursor, in order.
WireInv ==
    /\ \A i \in DOMAIN wire : wire[i].kind \in Kinds =>
          /\ lastId < wire[i].id /\ wire[i].id <= cursor
          /\ log[wire[i].id].job = Watched
          /\ log[wire[i].id].kind = wire[i].kind
    /\ \A i, k \in DOMAIN wire :
          i < k /\ wire[i].kind \in Kinds /\ wire[k].kind \in Kinds => wire[i].id < wire[k].id

\* The browser is never ahead of the server.
CursorAhead == lastId <= cursor

StreamInv ==
    StreamTypeOK /\ BatchInv /\ WireInv /\ CursorAhead /\ SeenIsLogPrefix /\ NothingSkipped

----------------------------------------------------------------------------
(* Progress and the log *)

LEMMA SeqIn == ASSUME NEW S, NEW T, S \subseteq T PROVE Seq(S) \subseteq Seq(T)
  <1> SUFFICES ASSUME NEW s \in Seq(S) PROVE s \in Seq(T)
    OBVIOUS
  <1>1. s \in [1 .. Len(s) -> S] /\ Len(s) \in Nat
    OBVIOUS
  <1> QED BY <1>1

LEMMA Element ==
  ASSUME NEW S, NEW s \in Seq(S)
  PROVE  \A i \in 1 .. Len(s) : s[i] \in S
  OBVIOUS

Frames(n) == [kind : FrameKinds, id : 0 .. n, status : Verdicts]

LEMMA Typed ==
  ASSUME StreamTypeOK
  PROVE  /\ Len(log) \in Nat /\ cursor \in 0 .. Len(log) /\ lastId \in 0 .. Len(log)
         /\ \A i \in 1 .. Len(log) : log[i].job \in Jobs /\ log[i].kind \in Kinds
         /\ wire \in Seq(Frames(Len(log)))
         /\ \A i \in DOMAIN wire : wire[i] \in Frames(Len(log)) /\ wire[i].id \in 0 .. Len(log)
         /\ \A i \in DOMAIN seen : seen[i] \in 1 .. Len(log)
  <1>1. /\ log \in Seq([job : Jobs, kind : Kinds]) /\ cursor \in 0 .. Len(log)
        /\ lastId \in 0 .. Len(log) /\ wire \in Seq(Frames(Len(log)))
        /\ seen \in Seq(1 .. Len(log))
    BY DEF StreamTypeOK, Frames, FrameKinds, Verdicts
  <1>2. \A i \in 1 .. Len(log) : log[i] \in [job : Jobs, kind : Kinds]
    BY <1>1, Element
  <1>3. \A i \in DOMAIN wire : wire[i] \in Frames(Len(log))
    BY <1>1
  <1>4. \A f \in Frames(Len(log)) : f.id \in 0 .. Len(log)
    BY DEF Frames
  <1> QED BY <1>1, <1>2, <1>3, <1>4

\* A row that is appended changes nothing below it.
LEMMA LogGrows ==
  ASSUME StreamTypeOK, NEW row \in [job : Jobs, kind : Kinds], log' = Append(log, row)
  PROVE  /\ Len(log') = Len(log) + 1 /\ log' \in Seq([job : Jobs, kind : Kinds])
         /\ \A i \in 1 .. Len(log) : log'[i] = log[i]
         /\ \A n \in 0 .. Len(log) : Progress(n)' = Progress(n)
  BY DEF StreamTypeOK, Progress

\* Between a cursor and the next row of the job there is no progress.
LEMMA ProgressStep ==
  ASSUME StreamTypeOK, NEW n \in 0 .. Len(log), NEW i \in EventsSince(Watched, n),
         \A k \in EventsSince(Watched, n) : i <= k
  PROVE  Progress(i) = Progress(n) \cup (IF log[i].kind \in Tracked THEN {i} ELSE {})
  BY DEF StreamTypeOK, EventsSince, Progress

----------------------------------------------------------------------------
(* The steps *)

LEMMA LogKeeps ==
  ASSUME StreamInv, NEW row \in [job : Jobs, kind : Kinds], log' = Append(log, row),
         reported' \in [Workers -> 0 .. AgentEvents],
         UNCHANGED <<serverVars, wire, browserVars, drops>>
  PROVE  StreamInv'
  <1> USE DEF StreamInv, serverVars, browserVars
  <1>1. /\ Len(log') = Len(log) + 1 /\ log' \in Seq([job : Jobs, kind : Kinds])
        /\ \A i \in 1 .. Len(log) : log'[i] = log[i]
        /\ \A n \in 0 .. Len(log) : Progress(n)' = Progress(n)
    BY LogGrows
  <1>2. StreamTypeOK'
    <2>1. Frames(Len(log)) \subseteq Frames(Len(log')) /\ 1 .. Len(log) \subseteq 1 .. Len(log')
      BY <1>1, Typed DEF Frames
    <2>2. wire' \in Seq(Frames(Len(log'))) /\ seen' \in Seq(1 .. Len(log'))
      BY <2>1, Typed, SeqIn DEF StreamTypeOK
    <2> QED BY <1>1, <2>2 DEF StreamTypeOK, Frames, FrameKinds, Verdicts
  <1>3. BatchInv'
    BY <1>1 DEF StreamTypeOK, BatchInv, EventsSince
  <1>4. WireInv' /\ CursorAhead'
    <2>1. \A i \in DOMAIN wire : wire[i].id > lastId => log'[wire[i].id] = log[wire[i].id]
      BY <1>1, Typed
    <2> QED BY <2>1 DEF WireInv, CursorAhead
  <1>5. SeenIsLogPrefix' /\ NothingSkipped'
    BY <1>1 DEF StreamTypeOK, SeenIsLogPrefix, NothingSkipped, OnWire
  <1> QED BY <1>2, <1>3, <1>4, <1>5

LEMMA ReadKeeps == ASSUME StreamInv, ReadEvents PROVE StreamInv'
  <1> USE DEF StreamInv, ReadEvents, browserVars
  <1>1. StreamTypeOK' /\ BatchInv'
    BY DEF StreamTypeOK, BatchInv, EventsSince
  <1>2. WireInv' /\ CursorAhead' /\ SeenIsLogPrefix' /\ NothingSkipped'
    BY DEF WireInv, CursorAhead, SeenIsLogPrefix, NothingSkipped, OnWire, Progress
  <1> QED BY <1>1, <1>2

LEMMA YieldKeeps == ASSUME StreamInv, YieldEvent PROVE StreamInv'
  <1> USE DEF StreamInv
  <1>1. PICK i \in batch :
           /\ \A k \in batch : i <= k
           /\ wire' = Append(wire, Frame(log[i].kind, i, "nothing"))
           /\ cursor' = i /\ batch' = batch \ {i}
    BY DEF YieldEvent
  <1>2. /\ idle' = 0 /\ serve = "yield"
        /\ UNCHANGED <<log, reported, serve, view, lastId, seen, shown, drops>>
    BY DEF YieldEvent, browserVars
  <1>3. /\ i \in 1 .. Len(log) /\ i > cursor /\ log[i].job = Watched /\ log[i].kind \in Kinds
        /\ i \in EventsSince(Watched, cursor)
        /\ \A k \in EventsSince(Watched, cursor) : i <= k
    <2>1. i \in EventsSince(Watched, cursor)
      BY <1>1, <1>2 DEF BatchInv
    <2>2. i \in 1 .. Len(log) /\ i > cursor /\ log[i].job = Watched
      BY <2>1 DEF EventsSince
    <2>3. ASSUME NEW k \in EventsSince(Watched, cursor) PROVE i <= k
      <3>1. k \in Nat
        BY DEF EventsSince
      <3>2. k < i => k \in batch
        BY <1>1, <1>2 DEF BatchInv
      <3> QED BY <1>1, <2>2, <3>1, <3>2
    <2> QED BY <2>1, <2>2, <2>3, Typed
  <1>4. Progress(i) = Progress(cursor) \cup (IF log[i].kind \in Tracked THEN {i} ELSE {})
    BY <1>3, ProgressStep DEF StreamTypeOK
  <1>5. /\ DOMAIN wire' = 1 .. Len(wire) + 1 /\ DOMAIN wire = 1 .. Len(wire)
        /\ \A k \in DOMAIN wire : wire'[k] = wire[k]
        /\ wire'[Len(wire) + 1] = [kind |-> log[i].kind, id |-> i, status |-> "nothing"]
    BY <1>1 DEF StreamTypeOK, Frame
  <1>6. StreamTypeOK'
    BY <1>1, <1>2, <1>3, StreamAssumption DEF StreamTypeOK, Frame
  <1>7. BatchInv'
    BY <1>1, <1>2, <1>3 DEF StreamTypeOK, BatchInv, EventsSince
  <1>8. WireInv' /\ CursorAhead'
    <2>1. \A k \in DOMAIN wire : wire[k].kind \in Kinds => wire[k].id < i
      BY <1>3, Typed DEF WireInv
    <2>2. \A k \in DOMAIN wire' : wire'[k].kind \in Kinds =>
             /\ lastId < wire'[k].id /\ wire'[k].id <= i
             /\ log[wire'[k].id].job = Watched /\ log[wire'[k].id].kind = wire'[k].kind
      <3>1. ASSUME NEW k \in DOMAIN wire, wire[k].kind \in Kinds
            PROVE  /\ lastId < wire[k].id /\ wire[k].id <= i
                   /\ log[wire[k].id].job = Watched /\ log[wire[k].id].kind = wire[k].kind
        BY <1>3, <2>1, <3>1, Typed DEF WireInv
      <3>2. i > lastId
        BY <1>2, <1>3, Typed DEF CursorAhead
      <3> QED BY <1>3, <1>5, <3>1, <3>2, Typed
    <2>3. ASSUME NEW j \in DOMAIN wire', NEW k \in DOMAIN wire', j < k,
                 wire'[j].kind \in Kinds, wire'[k].kind \in Kinds
          PROVE  wire'[j].id < wire'[k].id
      <3>1. Len(wire) \in Nat /\ j \in DOMAIN wire
        BY <1>5, <2>3, Typed
      <3> QED BY <1>5, <2>1, <2>3, <3>1 DEF WireInv
    <2>4. i > lastId
      BY <1>3, Typed DEF CursorAhead
    <2>5. WireInv'
      BY <1>1, <1>2, <2>2, <2>3 DEF WireInv
    <2>6. CursorAhead'
      BY <1>1, <1>2, <1>3, <2>4, Typed DEF CursorAhead
    <2> QED BY <2>5, <2>6
  <1>9. OnWire' = OnWire \cup (IF log[i].kind \in Tracked THEN {i} ELSE {})
    BY <1>5 DEF OnWire
  <1>10. SeenIsLogPrefix' /\ NothingSkipped'
    BY <1>1, <1>2, <1>4, <1>9 DEF SeenIsLogPrefix, NothingSkipped, Progress
  <1> QED BY <1>6, <1>7, <1>8, <1>10

LEMMA StatusKeeps == ASSUME StreamInv, ReadStatus PROVE StreamInv'
  <1> USE DEF StreamInv
  <1>1. /\ serve = "yield" /\ batch = {} /\ serve' \in {"closed", "read"}
        /\ UNCHANGED <<log, reported, cursor, batch, view, lastId, seen, shown, drops>>
    BY DEF ReadStatus, Close, browserVars
  <1>2. \/ wire' = wire
        \/ \E f \in Frames(Len(log)) : f.kind \notin Kinds /\ wire' = Append(wire, f)
    BY DEF ReadStatus, Close, Frame, Frames, FrameKinds, Verdicts, Kinds, Terminal
  <1>3. /\ wire' \in Seq(Frames(Len(log)))
        /\ \A k \in DOMAIN wire' : wire'[k].kind \in Kinds => k \in DOMAIN wire
        /\ \A k \in DOMAIN wire : k \in DOMAIN wire' /\ wire'[k] = wire[k]
    <2>1. CASE wire' = wire
      BY <2>1, Typed
    <2>2. ASSUME NEW f \in Frames(Len(log)), f.kind \notin Kinds, wire' = Append(wire, f)
          PROVE  /\ wire' \in Seq(Frames(Len(log)))
                 /\ \A k \in DOMAIN wire' : wire'[k].kind \in Kinds => k \in DOMAIN wire
                 /\ \A k \in DOMAIN wire : k \in DOMAIN wire' /\ wire'[k] = wire[k]
      <3>1. wire \in Seq(Frames(Len(log)))
        BY Typed
      <3>2. /\ wire' \in Seq(Frames(Len(log))) /\ Len(wire) \in Nat
            /\ DOMAIN wire = 1 .. Len(wire) /\ DOMAIN wire' = 1 .. Len(wire) + 1
            /\ \A k \in 1 .. Len(wire) : wire'[k] = wire[k]
            /\ wire'[Len(wire) + 1] = f
        BY <2>2, <3>1
      <3> QED BY <2>2, <3>2
    <2> QED BY <1>2, <2>1, <2>2
  <1>4. StreamTypeOK'
    <2>1. idle' \in 0 .. MaxIdle
      BY StreamAssumption DEF ReadStatus, Close, GaveUp, StreamTypeOK
    <2> QED BY <1>1, <1>3, <2>1 DEF StreamTypeOK, Frames, FrameKinds, Verdicts
  <1>5. BatchInv'
    BY <1>1 DEF BatchInv
  <1>6. WireInv' /\ CursorAhead'
    BY <1>1, <1>3 DEF WireInv, CursorAhead
  <1>7. OnWire' = OnWire
    BY <1>3 DEF OnWire, Tracked, Kinds
  <1>8. SeenIsLogPrefix' /\ NothingSkipped'
    BY <1>1, <1>7 DEF SeenIsLogPrefix, NothingSkipped, Progress
  <1> QED BY <1>4, <1>5, <1>6, <1>8

\* A new connection, or none.
LEMMA EmptyWireKeeps ==
  ASSUME StreamInv, Connect \/ Drop
  PROVE  StreamInv'
  <1> USE DEF StreamInv
  <1>1. /\ wire' = <<>> /\ batch' = {} /\ idle' = 0 /\ serve' \in {"read", "closed"}
        /\ UNCHANGED <<log, reported, lastId, seen, shown>>
        /\ \/ view' = "watching" /\ cursor' = lastId /\ UNCHANGED drops
           \/ view' = "retry" /\ cursor' = cursor /\ drops' = drops + 1 /\ drops < MaxDrops
    BY DEF Connect, Drop, ResumeFrom
  <1>2. StreamTypeOK'
    BY <1>1, StreamAssumption DEF StreamTypeOK
  <1>3. BatchInv' /\ WireInv' /\ CursorAhead'
    BY <1>1, Typed DEF BatchInv, WireInv, CursorAhead
  <1>4. OnWire' = {}
    BY <1>1 DEF OnWire
  <1>5. SeenIsLogPrefix' /\ NothingSkipped'
    BY <1>1, <1>4 DEF SeenIsLogPrefix, NothingSkipped, Progress
  <1> QED BY <1>2, <1>3, <1>5

\* The first frame is taken off the wire, whatever the browser does with it.
LEMMA WireMoves ==
  ASSUME StreamTypeOK, wire # <<>>, wire' = Tail(wire)
  PROVE  /\ wire' \in Seq(Frames(Len(log))) /\ Head(wire) = wire[1] /\ 1 \in DOMAIN wire
         /\ DOMAIN wire \subseteq Nat
         /\ \A k \in DOMAIN wire' : k + 1 \in DOMAIN wire /\ k > 0 /\ wire'[k] = wire[k + 1]
         /\ \A k \in DOMAIN wire : k > 1 => k - 1 \in DOMAIN wire' /\ wire'[k - 1] = wire[k]
  <1>1. wire \in Seq(Frames(Len(log)))
    BY Typed
  <1> QED BY <1>1

LEMMA WireShrinks ==
  ASSUME StreamTypeOK, wire # <<>>, wire' = Tail(wire)
  PROVE  OnWire = OnWire' \cup (IF Head(wire).kind \in Tracked THEN {Head(wire).id} ELSE {})
  <1>1. /\ Head(wire) = wire[1] /\ 1 \in DOMAIN wire /\ DOMAIN wire \subseteq Nat
        /\ \A k \in DOMAIN wire : k >= 1
        /\ \A k \in DOMAIN wire' : k + 1 \in DOMAIN wire /\ wire'[k] = wire[k + 1]
        /\ \A k \in DOMAIN wire : k > 1 => k - 1 \in DOMAIN wire' /\ wire'[k - 1] = wire[k]
    BY WireMoves, Typed
  <1>2. ASSUME NEW x \in OnWire' PROVE x \in OnWire
    <2>1. PICK k \in DOMAIN wire' : wire'[k].kind \in Tracked /\ wire'[k].id = x
      BY <1>2 DEF OnWire
    <2> QED BY <1>1, <2>1 DEF OnWire
  <1>3. ASSUME NEW x \in OnWire
        PROVE  x \in OnWire' \/ (Head(wire).kind \in Tracked /\ x = Head(wire).id)
    <2>1. PICK k \in DOMAIN wire : wire[k].kind \in Tracked /\ wire[k].id = x
      BY <1>3 DEF OnWire
    <2>2. CASE k = 1
      BY <1>1, <2>1, <2>2
    <2>3. CASE k > 1
      BY <1>1, <2>1, <2>3 DEF OnWire
    <2>4. k = 1 \/ k > 1
      BY <1>1
    <2> QED BY <2>2, <2>3, <2>4
  <1>4. Head(wire).kind \in Tracked => Head(wire).id \in OnWire
    BY <1>1 DEF OnWire
  <1> QED BY <1>2, <1>3, <1>4

LEMMA ReceiveKeeps == ASSUME StreamInv, Receive PROVE StreamInv'
  <1> USE DEF StreamInv
  <1> DEFINE frame == Head(wire)
  <1>1. /\ view = "watching" /\ wire # <<>> /\ wire' = Tail(wire)
        /\ UNCHANGED <<log, reported, serve, cursor, idle, batch, drops>>
    BY DEF Receive, serverVars
  <1>2. /\ wire' \in Seq(Frames(Len(log))) /\ frame = wire[1] /\ 1 \in DOMAIN wire
        /\ DOMAIN wire \subseteq Nat
        /\ \A k \in DOMAIN wire' : k + 1 \in DOMAIN wire /\ k > 0 /\ wire'[k] = wire[k + 1]
        /\ \A k \in DOMAIN wire : k > 1 => k - 1 \in DOMAIN wire' /\ wire'[k - 1] = wire[k]
    BY <1>1, WireMoves
  <1>3. frame \in Frames(Len(log)) /\ frame.id \in 0 .. Len(log) /\ frame.status \in Verdicts
    BY <1>2, Typed DEF Frames
  <1>4. BatchInv'
    BY <1>1 DEF BatchInv, EventsSince
  <1>5. CASE frame.kind \in Tracked /\ lastId' = frame.id /\ seen' = Append(seen, frame.id)
             /\ UNCHANGED <<view, shown>>
    <2>1. /\ frame.kind \in Kinds /\ lastId < frame.id /\ frame.id <= cursor
          /\ log[frame.id].job = Watched /\ log[frame.id].kind = frame.kind
      BY <1>2, <1>5 DEF WireInv, Tracked, Kinds
    <2>2. frame.id \in 1 .. Len(log)
      BY <1>3, <2>1, Typed
    <2>3. StreamTypeOK'
      BY <1>1, <1>2, <1>5, <2>2 DEF StreamTypeOK, Frames, FrameKinds, Verdicts
    <2>4. \A k \in DOMAIN wire' : wire'[k].kind \in Kinds => frame.id < wire'[k].id
      BY <1>2, <2>1 DEF WireInv
    <2>5. WireInv' /\ CursorAhead'
      <3>1. WireInv'
        BY <1>1, <1>2, <1>5, <2>4 DEF WireInv
      <3> QED BY <1>1, <1>5, <2>1, <3>1 DEF CursorAhead
    <2>6. OnWire = OnWire' \cup {frame.id}
      BY <1>1, <1>5, WireShrinks
    <2>7. Range(seen') = Range(seen) \cup {frame.id}
      <3>1. /\ DOMAIN seen' = 1 .. Len(seen) + 1 /\ DOMAIN seen = 1 .. Len(seen)
            /\ Len(seen) \in Nat /\ seen'[Len(seen) + 1] = frame.id
            /\ \A i \in 1 .. Len(seen) : seen'[i] = seen[i]
        BY <1>5 DEF StreamTypeOK
      <3>2. 1 .. Len(seen) + 1 = (1 .. Len(seen)) \cup {Len(seen) + 1}
        BY <3>1
      <3> QED BY <3>1, <3>2 DEF Range
    <2>8. Progress(frame.id) = Progress(lastId) \cup {frame.id}
      <3>1. \A i \in Progress(cursor) : i <= frame.id => i \in Progress(lastId) \/ i = frame.id
        <4> SUFFICES ASSUME NEW i \in Progress(cursor), i <= frame.id, i # frame.id
                     PROVE  i \in Progress(lastId)
          OBVIOUS
        <4>1. i \in Range(seen) \/ i \in OnWire'
          BY <1>1, <2>6 DEF NothingSkipped
        <4>2. i \notin OnWire'
          BY <1>2, <2>2, <2>4 DEF OnWire, Progress, Tracked, Kinds
        <4> QED BY <4>1, <4>2 DEF SeenIsLogPrefix
      <3> QED BY <1>5, <2>1, <2>2, <3>1, Typed DEF Progress, CursorAhead
    <2>9. \A i, k \in DOMAIN seen' : i < k => seen'[i] < seen'[k]
      <3>1. \A i \in DOMAIN seen : seen[i] < frame.id
        BY <2>1, <2>2, Typed DEF SeenIsLogPrefix, Range, Progress
      <3>2. seen \in Seq(1 .. Len(log))
        BY DEF StreamTypeOK
      <3> QED BY <1>5, <2>2, <3>1, <3>2 DEF SeenIsLogPrefix
    <2>10. SeenIsLogPrefix'
      <3>1. Progress(lastId)' = Progress(frame.id)
        BY <1>1, <1>5 DEF Progress
      <3> QED BY <2>7, <2>8, <2>9, <3>1 DEF SeenIsLogPrefix
    <2>11. NothingSkipped'
      BY <1>1, <1>5, <2>6, <2>7 DEF NothingSkipped, Progress
    <2> QED BY <1>4, <2>3, <2>5, <2>10, <2>11
  <1>6. CASE frame.kind \notin Tracked /\ UNCHANGED <<lastId, seen>>
             /\ view' \in {"watching", "closed"} /\ shown' \in Verdicts
    <2>1. StreamTypeOK'
      BY <1>1, <1>2, <1>6 DEF StreamTypeOK, Frames, FrameKinds, Verdicts
    <2>2. WireInv' /\ CursorAhead'
      BY <1>1, <1>2, <1>6 DEF WireInv, CursorAhead
    <2>3. OnWire = OnWire'
      BY <1>1, <1>6, WireShrinks
    <2>4. SeenIsLogPrefix' /\ NothingSkipped'
      BY <1>1, <1>6, <2>3 DEF SeenIsLogPrefix, NothingSkipped, Progress
    <2> QED BY <1>4, <2>1, <2>2, <2>4
  <1>7. \/ frame.kind \in Tracked /\ lastId' = frame.id /\ seen' = Append(seen, frame.id)
           /\ UNCHANGED <<view, shown>>
        \/ frame.kind \notin Tracked /\ UNCHANGED <<lastId, seen>>
           /\ view' \in {"watching", "closed"} /\ shown' \in Verdicts
    BY <1>1, <1>3 DEF Receive, browserVars, Tracked, StreamTypeOK, Verdicts
  <1> QED BY <1>5, <1>6, <1>7

\* A worker appends its events while it has a job.
LEMMA AppendKeeps ==
  ASSUME TypeOK, HoldsJob, StreamInv, NEW w \in Workers, AppendStep(w) \/ AgentEvent(w)
  PROVE  StreamInv'
  <1>1. pc[w] \in {"begin", "plan", "finish", "report"}
    BY DEF AppendStep, AgentEvent, Begin, Finish, Report, Goto
  <1>2. job[w] \in Jobs
    BY <1>1, EngagedHasJob DEF InRun
  <1>3. PICK kind \in Kinds : Logged(w, kind)
    BY DEF AppendStep, AgentEvent, Kinds
  <1>4. log' = Append(log, [job |-> job[w], kind |-> kind])
    BY <1>3 DEF Logged
  <1>5. /\ reported' \in [Workers -> 0 .. AgentEvents]
        /\ UNCHANGED <<serverVars, wire, browserVars, drops>>
    <2>1. CASE AppendStep(w)
      BY <2>1, StreamAssumption DEF AppendStep, StreamInv, StreamTypeOK
    <2>2. CASE AgentEvent(w)
      BY <2>2, StreamAssumption DEF AgentEvent, StreamInv, StreamTypeOK
    <2> QED BY <2>1, <2>2
  <1> QED BY <1>2, <1>4, <1>5, LogKeeps

LEMMA StreamStutters == ASSUME StreamInv, UNCHANGED streamVars PROVE StreamInv'
  <1>1. UNCHANGED <<log, reported, serve, cursor, idle, batch, wire, view, lastId, seen,
                    shown, drops>>
    BY DEF streamVars, serverVars, browserVars
  <1> USE DEF StreamInv
  <1>2. StreamTypeOK'
    BY <1>1 DEF StreamTypeOK
  <1>3. BatchInv' /\ CursorAhead'
    BY <1>1 DEF BatchInv, EventsSince, CursorAhead
  <1>4. WireInv'
    BY <1>1 DEF WireInv
  <1>5. SeenIsLogPrefix' /\ NothingSkipped'
    BY <1>1 DEF SeenIsLogPrefix, NothingSkipped, OnWire, Progress
  <1> QED BY <1>2, <1>3, <1>4, <1>5

LEMMA StreamStart == StreamInit => StreamInv
  <1> SUFFICES ASSUME StreamInit PROVE StreamInv
    OBVIOUS
  <1>1. StreamTypeOK
    BY StreamAssumption DEF StreamInit, StreamTypeOK
  <1>2. Progress(0) = {} /\ Range(seen) = {} /\ OnWire = {}
    BY DEF StreamInit, Progress, Range, OnWire
  <1>3. /\ DOMAIN wire = {} /\ DOMAIN seen = {} /\ lastId = 0 /\ cursor = 0
        /\ serve = "closed" /\ view = "start"
    BY DEF StreamInit
  <1>4. BatchInv /\ WireInv /\ CursorAhead
    BY <1>3 DEF BatchInv, WireInv, CursorAhead
  <1>5. SeenIsLogPrefix /\ NothingSkipped
    BY <1>2, <1>3 DEF SeenIsLogPrefix, NothingSkipped
  <1> QED BY <1>1, <1>4, <1>5 DEF StreamInv

LEMMA StreamStep ==
  ASSUME TypeOK, HoldsJob, StreamInv, [StreamNext]_allVars
  PROVE  StreamInv'
  <1>1. CASE QuietStep \/ UNCHANGED allVars
    BY <1>1, StreamStutters DEF QuietStep, allVars
  <1>2. ASSUME NEW w \in Workers, AppendStep(w) \/ AgentEvent(w) PROVE StreamInv'
    BY <1>2, AppendKeeps
  <1>3. CASE Server
    BY <1>3, ReadKeeps, YieldKeeps, StatusKeeps DEF Server
  <1>4. CASE Browser \/ Drop
    BY <1>4, EmptyWireKeeps, ReceiveKeeps DEF Browser
  <1> QED BY <1>1, <1>2, <1>3, <1>4 DEF StreamNext

----------------------------------------------------------------------------
(* The queue inside the composition *)

LEMMA QueueInside == StreamSpec => Spec
  <1>1. StreamInit => Init
    BY DEF StreamInit
  <1>2. [StreamNext]_allVars => [Next]_vars
    <2> SUFFICES ASSUME StreamNext \/ UNCHANGED allVars PROVE Next \/ UNCHANGED vars
      OBVIOUS
    <2>1. CASE QuietStep
      BY <2>1 DEF QuietStep, QuietWork, Next, Work
    <2>2. ASSUME NEW w \in Workers, AppendStep(w) PROVE Next
      BY <2>2 DEF AppendStep, Next, Work
    <2>3. ASSUME NEW w \in Workers, AgentEvent(w) PROVE UNCHANGED vars
      BY <2>3 DEF AgentEvent
    <2>4. CASE Server \/ Browser \/ Drop
      BY <2>4 DEF Server, ReadEvents, YieldEvent, ReadStatus, Browser, Connect, Receive, Drop
    <2>5. CASE UNCHANGED allVars
      BY <2>5 DEF allVars
    <2> QED BY <2>1, <2>2, <2>3, <2>4, <2>5 DEF StreamNext
  <1> QED BY <1>1, <1>2, PTL DEF StreamSpec, Spec

LEMMA StreamHolds == StreamSpec => []StreamInv
  <1>1. TypeOK /\ HoldsJob /\ StreamInv /\ [StreamNext]_allVars => StreamInv'
    BY StreamStep
  <1> QED BY <1>1, StreamStart, QueueInside, TypeCorrect, PTL DEF StreamSpec

\* The types of the log, the generator, the wire and the browser are invariant.
THEOREM StreamTyping == StreamSpec => []StreamTypeOK
  <1>1. StreamInv => StreamTypeOK
    BY DEF StreamInv
  <1> QED BY <1>1, StreamHolds, PTL

\* However often the connection drops, whatever fails, the browser has seen the
\* progress of its job up to lastId, once and in order.
THEOREM EventsSeenInOrder == StreamSpec => []SeenIsLogPrefix
  <1>1. StreamInv => SeenIsLogPrefix
    BY DEF StreamInv
  <1> QED BY <1>1, StreamHolds, PTL

\* What the server has sent on the present connection is seen or on the wire.
THEOREM NoEventSkipped == StreamSpec => []NothingSkipped
  <1>1. StreamInv => NothingSkipped
    BY DEF StreamInv
  <1> QED BY <1>1, StreamHolds, PTL

----------------------------------------------------------------------------
(* The verdict *)

\* A job that the contract calls settled is left alone.
LEMMA TerminalStays ==
  ASSUME LeaseOutlastsBeats, ~BeatFaults, ~AppendFaults, QueueInv, RunningInv, [Next]_vars,
         NEW j \in Jobs, Terminal(j)
  PROVE  status'[j] = status[j]
  <1>1. CASE Next
    <2>1. Contract!Next \/ UNCHANGED <<status, attempts, lost>>
      BY <1>1, ContractStep
    <2>2. status \in [Jobs -> Statuses]
      BY DEF QueueInv, TypeOK
    <2> QED BY <2>1, <2>2
          DEF Contract!Next, Contract!Submit, Contract!HandOut, Contract!Lose,
              Contract!Finish, Contract!Retry, Contract!GiveUp, Terminal
  <1>2. CASE UNCHANGED vars
    BY <1>2, Stutter
  <1> QED BY <1>1, <1>2

Framed(f, verdict) ==
    /\ f.kind = "result" => verdict \in {"done", "dead"} /\ f.status = verdict
    /\ f.kind = "timeout" => f.status = "stalled"

\* The verdict on the wire is the one in the table, and so is the one shown.
VerdictInv == ShownIsFinal /\ \A i \in DOMAIN wire : Framed(wire[i], status[Watched])

LEMMA VerdictStep ==
  ASSUME StreamInv, VerdictInv, [StreamNext]_allVars,
         Terminal(Watched) => status'[Watched] = status[Watched]
  PROVE  VerdictInv'
  <1> USE DEF VerdictInv, StreamInv
  <1>1. \A f : Framed(f, status[Watched]) => Framed(f, status'[Watched])
    BY DEF Framed, Terminal
  <1>2. ShownIsFinal /\ shown' = shown => ShownIsFinal'
    BY DEF ShownIsFinal, Terminal, StreamTypeOK
  <1>3. wire \in Seq(Frames(Len(log)))
    BY Typed
  <1>4. CASE UNCHANGED <<wire, shown>>
    BY <1>1, <1>2, <1>4
  <1>5. ASSUME NEW f \in Frames(Len(log)), wire' = Append(wire, f),
               Framed(f, status'[Watched]), shown' = shown
        PROVE  VerdictInv'
    <2>1. \A i \in DOMAIN wire' : wire'[i] = f \/ (i \in DOMAIN wire /\ wire'[i] = wire[i])
      BY <1>3, <1>5
    <2> QED BY <1>1, <1>2, <1>5, <2>1
  <1>6. CASE YieldEvent
    <2>1. PICK i \in batch : wire' = Append(wire, Frame(log[i].kind, i, "nothing"))
      BY <1>6 DEF YieldEvent
    <2>2. i \in 1 .. Len(log) /\ log[i].kind \in Kinds
      BY <2>1, Typed DEF StreamTypeOK
    <2>3. Frame(log[i].kind, i, "nothing") \in Frames(Len(log))
      BY <2>2 DEF Frame, Frames, FrameKinds, Verdicts
    <2>4. Framed(Frame(log[i].kind, i, "nothing"), status'[Watched])
      BY <1>6, <2>2 DEF Framed, Frame, Kinds, YieldEvent
    <2> QED BY <1>5, <1>6, <2>1, <2>3, <2>4 DEF YieldEvent, browserVars
  <1>7. CASE ReadStatus
    <2>1. /\ shown' = shown /\ status' = status
          /\ \/ wire' = wire
             \/ Terminal(Watched) /\ wire' = Append(wire, Frame("result", 0, status[Watched]))
             \/ wire' = Append(wire, Frame("timeout", 0, "stalled"))
      BY <1>7, Stutter DEF ReadStatus, Close, browserVars
    <2>2. CASE wire' = wire
      BY <1>4, <2>1, <2>2
    <2>3. CASE Terminal(Watched) /\ wire' = Append(wire, Frame("result", 0, status[Watched]))
      <3>1. Frame("result", 0, status[Watched]) \in Frames(Len(log))
        BY <2>3, Typed DEF Frame, Frames, FrameKinds, Verdicts, Terminal
      <3>2. Framed(Frame("result", 0, status[Watched]), status[Watched])
        BY <2>3 DEF Framed, Frame, Terminal
      <3> QED BY <1>1, <1>5, <2>1, <2>3, <3>1, <3>2
    <2>4. CASE wire' = Append(wire, Frame("timeout", 0, "stalled"))
      <3>1. Frame("timeout", 0, "stalled") \in Frames(Len(log))
        BY Typed DEF Frame, Frames, FrameKinds, Verdicts
      <3>2. Framed(Frame("timeout", 0, "stalled"), status[Watched])
        BY DEF Framed, Frame
      <3> QED BY <1>1, <1>5, <2>1, <2>4, <3>1, <3>2
    <2> QED BY <2>1, <2>2, <2>3, <2>4
  <1>8. CASE Receive
    <2>1. /\ Head(wire) = wire[1] /\ 1 \in DOMAIN wire
          /\ \A k \in DOMAIN wire' : k + 1 \in DOMAIN wire /\ wire'[k] = wire[k + 1]
      BY <1>8, WireMoves DEF Receive
    <2>2. \A k \in DOMAIN wire' : Framed(wire'[k], status'[Watched])
      BY <1>1, <2>1
    <2>3. ShownIsFinal'
      <3>1. CASE shown' = shown
        BY <1>2, <3>1
      <3>2. CASE shown' # shown
        <4>1. Head(wire).kind \in {"result", "timeout"} /\ shown' = Head(wire).status
          BY <1>8, <3>2 DEF Receive, browserVars
        <4>2. Framed(Head(wire), status'[Watched])
          BY <1>1, <2>1
        <4> QED BY <4>1, <4>2 DEF Framed, ShownIsFinal
      <3> QED BY <3>1, <3>2
    <2> QED BY <2>2, <2>3
  <1>9. CASE Connect \/ Drop
    BY <1>2, <1>9 DEF Connect, Drop
  <1>10. CASE ReadEvents \/ QuietStep \/ UNCHANGED allVars
    BY <1>4, <1>10 DEF ReadEvents, QuietStep, allVars, streamVars, browserVars
  <1>11. ASSUME NEW w \in Workers, AppendStep(w) \/ AgentEvent(w) PROVE VerdictInv'
    BY <1>4, <1>11 DEF AppendStep, AgentEvent, browserVars
  <1> QED BY <1>6, <1>7, <1>8, <1>9, <1>10, <1>11 DEF StreamNext, Server, Browser

\* While heartbeats and the appends of "finished" succeed and a lease outlasts
\* the heartbeats, no retry and no late writer changes the verdict on the screen.
THEOREM VerdictsAreFinal ==
  ASSUME LeaseOutlastsBeats, ~BeatFaults, ~AppendFaults
  PROVE  StreamSpec => []ShownIsFinal
  <1>1. StreamInit => VerdictInv
    BY DEF StreamInit, VerdictInv, ShownIsFinal
  <1>2. QueueInv /\ RunningInv /\ StreamInv /\ VerdictInv
        /\ [StreamNext]_allVars /\ [Next]_vars => VerdictInv'
    BY VerdictStep, TerminalStays, StreamAssumption
  <1>3. VerdictInv => ShownIsFinal
    BY DEF VerdictInv
  <1> QED BY <1>1, <1>2, <1>3, QueueRuns, StreamHolds, QueueInside, PTL DEF StreamSpec, Spec

----------------------------------------------------------------------------
(* The feed *)

Published == Progress(Len(log))

Outcome == IF Settled THEN status[Watched] ELSE "open"

\* Once something is shown the browser has closed its connection for good.
ClosedInv == shown # "nothing" => view = "closed"

LEMMA ClosedStep ==
  ASSUME ClosedInv, [StreamNext]_allVars
  PROVE  ClosedInv'
  <1>1. CASE UNCHANGED <<view, shown>>
    BY <1>1 DEF ClosedInv
  <1>2. CASE QuietStep \/ Server \/ UNCHANGED allVars
    BY <1>1, <1>2 DEF QuietStep, Server, ReadEvents, YieldEvent, ReadStatus, allVars,
                      streamVars, browserVars
  <1>3. ASSUME NEW w \in Workers, AppendStep(w) \/ AgentEvent(w) PROVE ClosedInv'
    BY <1>1, <1>3 DEF AppendStep, AgentEvent, browserVars
  <1>4. CASE Connect \/ Drop
    BY <1>4 DEF Connect, Disconnected, Drop, ClosedInv
  <1>5. CASE Receive
    BY <1>5 DEF Receive, browserVars, ClosedInv
  <1> QED BY <1>2, <1>3, <1>4, <1>5 DEF StreamNext, Browser

\* The log grows by one progress event of the job, or its progress stays.
LEMMA ProgressGrows ==
  ASSUME StreamTypeOK, NEW row \in [job : Jobs, kind : Kinds], log' = Append(log, row)
  PROVE  Published' = Published \cup
             (IF row.job = Watched /\ row.kind \in Tracked THEN {Len(log) + 1} ELSE {})
  <1>1. /\ Len(log') = Len(log) + 1 /\ Len(log) \in Nat
        /\ \A i \in 1 .. Len(log) : log'[i] = log[i]
        /\ log'[Len(log) + 1] = row
    BY LogGrows DEF StreamTypeOK
  <1>2. 1 .. Len(log') = (1 .. Len(log)) \cup {Len(log) + 1}
    BY <1>1
  <1>3. Published' = {i \in 1 .. Len(log') : log'[i].job = Watched /\ log'[i].kind \in Tracked}
    BY DEF Published, Progress, Tracked
  <1> QED BY <1>1, <1>2, <1>3 DEF Published, Progress

\* A worker appends progress of a job only while the row of the job is its own.
LEMMA AppendFeeds ==
  ASSUME QueueInv, RunningInv, StreamInv, NEW w \in Workers, AppendStep(w) \/ AgentEvent(w)
  PROVE  \/ \E i \in Published' : Feed!Publish(i)
         \/ UNCHANGED <<Published, Outcome, seen, shown>>
  <1>1. pc[w] \in {"begin", "plan", "finish", "report"}
    BY DEF AppendStep, AgentEvent, Begin, Finish, Report, Goto
  <1>2. job[w] \in Jobs
    BY <1>1, EngagedHasJob DEF InRun, QueueInv
  <1>3. PICK kind \in Kinds : Logged(w, kind) /\ (kind \in Tracked => pc[w] \in {"begin", "plan"})
    BY DEF AppendStep, AgentEvent, Begin, Finish, Report, Goto, Kinds, Tracked
  <1>4. /\ log' = Append(log, [job |-> job[w], kind |-> kind])
        /\ [job |-> job[w], kind |-> kind] \in [job : Jobs, kind : Kinds]
    BY <1>2, <1>3 DEF Logged
  <1>5. UNCHANGED <<status, seen, shown>>
    BY DEF AppendStep, AgentEvent, Begin, Finish, Report, browserVars, tableVars, vars
  <1>6. Outcome' = Outcome
    BY <1>5 DEF Outcome, Settled
  <1>7. Published' = Published \cup
            (IF job[w] = Watched /\ kind \in Tracked THEN {Len(log) + 1} ELSE {})
    BY <1>4, ProgressGrows DEF StreamInv
  <1>8. CASE job[w] = Watched /\ kind \in Tracked
    <2>1. status[Watched] = "running"
      BY <1>3, <1>8 DEF RunningInv, Executing
    <2>2. Outcome = "open"
      BY <2>1 DEF Outcome, Settled
    <2>3. \A k \in Published : k < Len(log) + 1
      BY Typed DEF Published, Progress, StreamInv
    <2>4. Feed!Publish(Len(log) + 1)
      BY <1>5, <1>6, <1>7, <1>8, <2>2, <2>3 DEF Feed!Publish, Published, Outcome
    <2> QED BY <1>7, <1>8, <2>4
  <1> QED BY <1>5, <1>6, <1>7, <1>8

\* The browser takes a frame: an event is the oldest it does not have, because
\* what it has is the progress up to lastId before the step and after it.
LEMMA ReceiveFeeds ==
  ASSUME StreamInv, StreamInv', VerdictInv, ClosedInv, Receive
  PROVE  \/ \E i \in Published : Feed!Deliver(i)
         \/ Feed!Show \/ Feed!GiveUp
         \/ UNCHANGED <<Published, Outcome, seen, shown>>
  <1> DEFINE frame == Head(wire)
  <1>1. /\ view = "watching" /\ wire # <<>> /\ frame = wire[1] /\ 1 \in DOMAIN wire
        /\ UNCHANGED <<log, status>>
    BY WireMoves DEF Receive, StreamInv, vars, tableVars
  <1>2. shown = "nothing"
    BY <1>1 DEF ClosedInv
  <1>3. Published' = Published /\ Outcome' = Outcome
    BY <1>1 DEF Published, Progress, Outcome, Settled
  <1>4. CASE frame.kind \in Tracked /\ lastId' = frame.id /\ seen' = Append(seen, frame.id)
             /\ UNCHANGED shown
    <2>1. lastId < frame.id /\ frame.id \in 1 .. Len(log)
      BY <1>1, <1>4, Typed DEF StreamInv, WireInv, Tracked, Kinds
    <2>2. Range(seen) = Progress(lastId) /\ Range(seen') = Progress(frame.id)
      <3>1. Progress(lastId)' = Progress(frame.id)
        BY <1>1, <1>4 DEF Progress
      <3> QED BY <3>1 DEF StreamInv, SeenIsLogPrefix
    <2>3. Range(seen') = Range(seen) \cup {frame.id}
      <3>1. seen \in Seq(1 .. Len(log))
        BY DEF StreamInv, StreamTypeOK
      <3>2. /\ DOMAIN seen' = 1 .. Len(seen) + 1 /\ DOMAIN seen = 1 .. Len(seen)
            /\ Len(seen) \in Nat /\ seen'[Len(seen) + 1] = frame.id
            /\ \A i \in 1 .. Len(seen) : seen'[i] = seen[i]
        BY <1>4, <2>1, <3>1
      <3>3. 1 .. Len(seen) + 1 = (1 .. Len(seen)) \cup {Len(seen) + 1}
        BY <3>2
      <3> QED BY <3>2, <3>3 DEF Range
    <2>4. frame.id \in Published /\ frame.id \notin Range(seen)
      <3>1. frame.id \in Progress(frame.id)
        BY <2>2, <2>3
      <3>2. frame.id \notin Progress(lastId)
        BY <2>1, Typed DEF Progress, StreamInv
      <3> QED BY <2>1, <2>2, <3>1, <3>2 DEF Published, Progress
    <2>5. ASSUME NEW k \in Published, k < frame.id PROVE k \in Range(seen)
      <3>1. k \in Progress(frame.id)
        BY <2>1, <2>5 DEF Published, Progress
      <3> QED BY <2>1, <2>2, <2>3, <2>5, <3>1 DEF Published, Progress
    <2>6. Feed!Delivered = Range(seen)
      BY DEF Feed!Delivered, Range
    <2>7. Feed!Deliver(frame.id)
      BY <1>2, <1>3, <1>4, <2>4, <2>5, <2>6 DEF Feed!Deliver, Published, Outcome
    <2> QED BY <2>4, <2>7
  <1>5. CASE frame.kind \in {"finished", "failed"} /\ UNCHANGED <<seen, shown>>
    BY <1>3, <1>5
  <1>6. CASE frame.kind \in {"result", "timeout"} /\ shown' = frame.status /\ UNCHANGED seen
    <2>1. Framed(frame, status[Watched])
      BY <1>1 DEF VerdictInv
    <2>2. CASE frame.kind = "result"
      <3>1. Outcome \in {"done", "dead"} /\ shown' = Outcome
        BY <1>6, <2>1, <2>2 DEF Framed, Outcome, Settled
      <3>2. Feed!Show
        BY <1>2, <1>3, <1>6, <3>1 DEF Feed!Show, Published, Outcome
      <3> QED BY <3>2
    <2>3. CASE frame.kind = "timeout"
      <3>1. Feed!GiveUp
        BY <1>2, <1>3, <1>6, <2>1, <2>3 DEF Feed!GiveUp, Framed, Published, Outcome
      <3> QED BY <3>1
    <2> QED BY <1>6, <2>2, <2>3
  <1> QED BY <1>4, <1>5, <1>6 DEF Receive, browserVars

\* A step of the queue settles the job or leaves the feed alone: what is settled
\* stays as it is.
LEMMA QueueFeeds ==
  ASSUME LeaseOutlastsBeats, ~BeatFaults, ~AppendFaults, QueueInv, RunningInv, [Next]_vars,
         QuietStep \/ UNCHANGED allVars
  PROVE  Feed!Settle \/ UNCHANGED <<Published, Outcome, seen, shown>>
  <1>1. UNCHANGED <<log, seen, shown>>
    BY DEF QuietStep, allVars, streamVars, browserVars
  <1>2. Published' = Published
    BY <1>1 DEF Published, Progress
  <1>3. CASE Settled
    <2>1. status'[Watched] = status[Watched]
      BY <1>3, TerminalStays, StreamAssumption DEF Settled, Terminal
    <2> QED BY <1>1, <1>2, <2>1 DEF Outcome, Settled
  <1>4. CASE ~Settled /\ ~Settled'
    BY <1>1, <1>2, <1>4 DEF Outcome
  <1>5. CASE ~Settled /\ Settled'
    <2>1. Outcome = "open" /\ Outcome' \in {"done", "dead"}
      BY <1>5 DEF Outcome, Settled
    <2>2. Feed!Settle
      BY <1>1, <1>2, <2>1 DEF Feed!Settle, Published, Outcome
    <2> QED BY <2>2
  <1> QED BY <1>3, <1>4, <1>5

LEMMA FeedStep ==
  ASSUME LeaseOutlastsBeats, ~BeatFaults, ~AppendFaults, QueueInv, RunningInv, [Next]_vars,
         StreamInv, StreamInv', VerdictInv, ClosedInv, [StreamNext]_allVars
  PROVE  [Feed!Next]_<<Published, Outcome, seen, shown>>
  <1>1. CASE QuietStep \/ UNCHANGED allVars
    BY <1>1, QueueFeeds DEF Feed!Next
  <1>2. ASSUME NEW w \in Workers, AppendStep(w) \/ AgentEvent(w)
        PROVE  [Feed!Next]_<<Published, Outcome, seen, shown>>
    BY <1>2, AppendFeeds DEF Feed!Next, Published
  <1>3. CASE Server \/ Connect \/ Drop
    <2>1. UNCHANGED <<log, status, seen, shown>>
      BY <1>3 DEF Server, ReadEvents, YieldEvent, ReadStatus, Connect, Drop, browserVars,
                  vars, tableVars
    <2> QED BY <2>1 DEF Published, Progress, Outcome, Settled
  <1>4. CASE Receive
    BY <1>4, ReceiveFeeds DEF Feed!Next, Published
  <1> QED BY <1>1, <1>2, <1>3, <1>4 DEF StreamNext, Browser

\* api.plan_events and watchJob(): over any number of connections, polls, jobs,
\* workers and crashes, the browser is a reader of the abstract feed.  It needs
\* what the queue needs to keep its contract: with a dead heartbeat a job that
\* is done could publish again.
THEOREM StreamImplementsFeed ==
  ASSUME LeaseOutlastsBeats, ~BeatFaults, ~AppendFaults
  PROVE  StreamSpec => ImplementsFeed
  <1>1. StreamInit => VerdictInv /\ ClosedInv
    BY DEF StreamInit, VerdictInv, ShownIsFinal, ClosedInv
  <1>2. StreamInit => Feed!Init
    <2> SUFFICES ASSUME StreamInit PROVE Feed!Init
      OBVIOUS
    <2>1. Len(log) = 0 /\ status[Watched] = "absent"
      BY StreamAssumption DEF StreamInit, Init
    <2>2. Progress(Len(log)) = {} /\ ~Settled
      BY <2>1 DEF Progress, Settled
    <2> QED BY <2>2 DEF Feed!Init, StreamInit
  <1>3. QueueInv /\ RunningInv /\ StreamInv /\ VerdictInv
        /\ [StreamNext]_allVars /\ [Next]_vars => VerdictInv'
    BY VerdictStep, TerminalStays, StreamAssumption
  <1>4. ClosedInv /\ [StreamNext]_allVars => ClosedInv'
    BY ClosedStep
  <1>5. QueueInv /\ RunningInv /\ StreamInv /\ StreamInv' /\ VerdictInv /\ ClosedInv
        /\ [StreamNext]_allVars /\ [Next]_vars => [Feed!Next]_(Feed!vars)
    BY FeedStep DEF Feed!vars, Published, Outcome
  <1> QED
    BY <1>1, <1>2, <1>3, <1>4, <1>5, QueueRuns, StreamHolds, QueueInside, PTL
       DEF StreamSpec, Spec, ImplementsFeed, Feed!Spec
=============================================================================
