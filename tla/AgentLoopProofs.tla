-------------------------- MODULE AgentLoopProofs --------------------------
(* What TLAPS proves of AgentLoop, for every chain of profiles, limit and   *)
(* time budget.                                                             *)
EXTENDS AgentLoop, TLAPS

\* While a retry loop runs, its calls are its rotations and its malformed
\* replies, and both are bounded.
Counting ==
    /\ phase = "gather" =>
          /\ calls <= 2 * Chain
          /\ pc = "model" => calls = attempt /\ attempt < 2 * Chain
    /\ phase = "answer" =>
          /\ calls <= MostAnswering
          /\ pc = "model" =>
                /\ calls = attempt + method /\ method < Methods
                /\ attempt < Chain + naps /\ naps <= MaxThrottled

\* The attempts before this one have gone round the chain from its first profile.
Rotation ==
    /\ \A p \in Profiles : p < attempt => p \in tried
    /\ naps > 0 => attempt >= Chain

Budget ==
    /\ total <= MaxTotalCalls
    /\ \A s \in Signatures : invoked[s] <= repeats[s] /\ invoked[s] <= MaxRepeats

\* Inside a reply the overrun grows by one tool at a time.
Overrun ==
    /\ OverrunBounded
    /\ pc = "tool" =>
          /\ kind = "tools"
          /\ left >= -Slack - (MaxCalls - Len(pending)) * ToolTime
    /\ pc = "round" \/ (phase = "gather" /\ pc = "model") => kind = "tools"

Ending ==
    /\ pc # "end" => outcome = "pending" /\ error = FALSE
    /\ pc \notin {"entry", "end"} => result = FALSE
    /\ OutcomeIsTrue \/ TimeoutUnrecorded

IInv == LoopTypeOK /\ Counting /\ Rotation /\ Budget /\ Overrun /\ Ending

----------------------------------------------------------------------------
LEMMA ModSmall ==
    ASSUME NEW n \in Nat, NEW c \in Nat \ {0}
    PROVE  n % c \in 0 .. c - 1 /\ (n < c => n % c = n)
  BY SMT

LEMMA OneMore ==
    ASSUME NEW a \in Nat, NEW b \in Nat, NEW t \in Nat, b <= a, b > 0
    PROVE  (a - (b - 1)) * t = (a - b) * t + t
  BY SMT

LEMMA NoLess ==
    ASSUME NEW a \in Nat, NEW t \in Nat
    PROVE  a * t \in Nat
  BY SMT

LEMMA Bounds ==
    ASSUME LoopAssumption, LoopTypeOK
    PROVE  /\ Profile \in Profiles
           /\ attempt < Chain => Profile = attempt
           /\ MaxCalls * ToolTime \in Nat
           /\ MostAnswering \in Nat /\ MostCalls \in Nat
           /\ MostAnswering <= MostCalls /\ 2 * Chain <= MostCalls
  <1>1. attempt \in Nat /\ Chain \in Nat \ {0} BY DEF LoopAssumption, LoopTypeOK
  <1>2. Profile \in Profiles /\ (attempt < Chain => Profile = attempt)
    BY <1>1, ModSmall DEF Profile, Profiles
  <1>3. MaxCalls * ToolTime \in Nat BY NoLess DEF LoopAssumption
  <1>4. MostAnswering \in Nat /\ MostCalls \in Nat /\ MostAnswering <= MostCalls /\ 2 * Chain <= MostCalls
    BY DEF LoopAssumption, MostAnswering, MostCalls
  <1> QED BY <1>2, <1>3, <1>4

LEMMA InitInv == ASSUME LoopAssumption, Init PROVE IInv
  <1>1. LoopTypeOK
    <2>1. pending \in Seq(Signatures) /\ Len(pending) <= MaxCalls
      BY DEF LoopAssumption, Init
    <2>2. unset \subseteq Profiles /\ tried \subseteq Profiles
      BY DEF LoopAssumption, Init, Profiles
    <2>3. repeats \in [Signatures -> Nat] /\ invoked \in [Signatures -> Nat]
      BY DEF Init
    <2>4. /\ left \in Int /\ attempt \in Nat /\ naps \in Nat /\ calls \in Nat /\ total \in Nat
          /\ method \in 0 .. Methods /\ round \in 0 .. MaxRounds
      BY DEF LoopAssumption, Init
    <2> QED BY <2>1, <2>2, <2>3, <2>4 DEF Init, LoopTypeOK
  <1>2. Counting BY <1>1, Bounds DEF LoopAssumption, Init, Counting
  <1>3. Rotation BY DEF LoopAssumption, Init, Rotation, Profiles
  <1>4. Budget BY DEF LoopAssumption, Init, Budget
  <1>5. Overrun BY <1>1, Bounds DEF LoopAssumption, Init, Overrun, OverrunBounded
  <1>6. Ending BY DEF Init, Ending, OutcomeIsTrue, TimeoutUnrecorded
  <1> QED BY <1>1, <1>2, <1>3, <1>4, <1>5, <1>6 DEF IInv

\* Entering a retry loop starts its counters again, whatever they were.
LEMMA InvokeInv ==
    ASSUME LoopAssumption, IInv, NEW p \in {"gather", "answer"}, Invoke(p),
           pc \in {"entry", "round", "tool"}, ~result,
           p = "gather" => kind = "tools",
           UNCHANGED <<timeVars, pending, repeats, total, invoked, endVars>>,
           round' \in 0 .. MaxRounds
    PROVE  IInv'
  <1> USE DEF LoopAssumption, IInv, Invoke, timeVars, fixed, endVars
  <1>1. LoopTypeOK' BY DEF LoopTypeOK, Profiles
  <1>2. Counting' BY Bounds DEF Counting, MostAnswering
  <1>3. Rotation' BY DEF Rotation, Profiles
  <1>4. Budget' BY DEF Budget
  <1>5. Overrun' BY DEF Overrun, OverrunBounded
  <1>6. Ending' BY DEF Ending, OutcomeIsTrue, TimeoutUnrecorded, LoopTypeOK
  <1> QED BY <1>1, <1>2, <1>3, <1>4, <1>5, <1>6

\* Leaving a retry loop by an exception reports an error and no result.
LEMMA FailureEnds ==
    ASSUME LoopAssumption, IInv, pc = "model", TimedOut \/ Raised, kind' = kind
    PROVE  Ending' /\ pc' = "end"
  <1>1. result = FALSE /\ outcome = "pending" BY DEF IInv, Ending
  <1>2. pc' = "end" /\ result' = FALSE /\ error' = TRUE
    BY <1>1 DEF TimedOut, Raised, End
  <1>3. \/ outcome' = "failed"
        \/ outcome' = "timeout" /\ kind' # "tools"
        \/ outcome' = "pending" /\ kind' = "tools"
    BY <1>1 DEF TimedOut, Raised, End
  <1>5. CASE outcome' = "pending" /\ kind' = "tools"
    BY <1>2, <1>5 DEF Ending, TimeoutUnrecorded
  <1>6. CASE outcome' \in {"failed", "timeout"}
    <2>1. (outcome' \in {"done", "skipped"}) = FALSE BY <1>6
    <2>2. OutcomeIsTrue' BY <1>2, <1>6, <2>1 DEF OutcomeIsTrue
    <2> QED BY <1>2, <2>2 DEF Ending
  <1> QED BY <1>2, <1>3, <1>5, <1>6

\* The ways out of a retry loop before the model is called.
LEMMA LeaveInv ==
    ASSUME LoopAssumption, IInv, pc = "model", TimedOut \/ Raised,
           UNCHANGED <<timeVars, modelVars, toolVars>>
    PROVE  IInv'
  <1> USE DEF LoopAssumption, IInv, timeVars, fixed, modelVars, toolVars, TimedOut, Raised, End
  <1>1. LoopTypeOK' BY DEF LoopTypeOK, Profiles
  <1>2. Counting' BY DEF Counting, MostAnswering
  <1>3. Rotation' BY DEF Rotation, Profiles
  <1>4. Budget' BY DEF Budget
  <1>5. Overrun' BY DEF Overrun, OverrunBounded
  <1>6. Ending' BY FailureEnds
  <1> QED BY <1>1, <1>2, <1>3, <1>4, <1>5, <1>6

\* What a call of the model does to the counters, whatever comes of it.
LEMMA CallFacts ==
    ASSUME LoopAssumption, IInv, NEW d \in Durations, Call(d)
    PROVE  /\ pc = "model" /\ left > 0 /\ left - d >= -Slack /\ left - d \in Int
           /\ calls' = calls + 1 /\ calls' \in Nat
           /\ tried' \subseteq Profiles
           /\ \A p \in Profiles : p < attempt + 1 => p \in tried'
           /\ result = FALSE /\ error = FALSE /\ outcome = "pending"
           /\ phase = "gather" => kind = "tools" /\ calls' = attempt + 1 /\ calls' <= 2 * Chain
           /\ phase = "answer" => calls' = attempt + 1 + method /\ calls' <= MostAnswering
  <1> USE DEF Call
  <1>1. Profile \in Profiles /\ (attempt < Chain => Profile = attempt) BY Bounds DEF IInv
  <1>2. left > 0 /\ left - d >= -Slack /\ left - d \in Int
    BY DEF Durations, LoopAssumption, IInv, LoopTypeOK
  <1>3. calls <= MostCalls
    BY Bounds DEF IInv, Counting, LoopTypeOK, LoopAssumption
  <1>4. calls' = calls + 1 /\ calls' \in Nat
    BY <1>3, Bounds DEF IInv, LoopTypeOK
  <1>5. tried' \subseteq Profiles BY <1>1 DEF IInv, LoopTypeOK
  <1>6. \A p \in Profiles : p < attempt + 1 => p \in tried'
    <2> SUFFICES ASSUME NEW p \in Profiles, p < attempt + 1 PROVE p \in tried' OBVIOUS
    <2>1. CASE p < attempt BY <2>1 DEF IInv, Rotation
    <2>2. CASE p = attempt BY <1>1, <2>2 DEF Profiles, LoopAssumption
    <2> QED BY <2>1, <2>2 DEF IInv, LoopTypeOK, Profiles, LoopAssumption
  <1>7. result = FALSE /\ error = FALSE /\ outcome = "pending" BY DEF IInv, Ending
  <1>8. phase = "gather" => kind = "tools" /\ calls' = attempt + 1 /\ calls' <= 2 * Chain
    BY <1>4 DEF IInv, Counting, Overrun, LoopTypeOK, LoopAssumption
  <1>9. phase = "answer" => calls' = attempt + 1 + method /\ calls' <= MostAnswering
    BY <1>4 DEF IInv, Counting, LoopTypeOK, LoopAssumption, MostAnswering
  <1> QED BY <1>1, <1>2, <1>4, <1>5, <1>6, <1>7, <1>8, <1>9

\* The conjuncts that no call of the model can disturb.
LEMMA CallKeeps ==
    ASSUME LoopAssumption, IInv, NEW d \in Durations, Call(d),
           left' \in Int, left' >= -Slack, UNCHANGED <<fixed, repeats, total, invoked>>,
           pc' = "tool" => phase = "gather", pc' # "round",
           phase' = phase, Len(pending') <= MaxCalls, pending' \in Seq(Signatures)
    PROVE  Budget' /\ Overrun'
  <1> USE DEF fixed
  <1>1. Budget' BY DEF IInv, Budget
  <1>2. kind' = kind /\ MaxCalls * ToolTime \in Nat BY NoLess DEF LoopAssumption
  <1>3. OverrunBounded' BY <1>2 DEF OverrunBounded, LoopAssumption
  <1>4. pc' = "tool" => left' >= -Slack - (MaxCalls - Len(pending')) * ToolTime
    <2>1. Len(pending') \in Nat /\ MaxCalls - Len(pending') \in Nat BY DEF LoopAssumption
    <2>2. (MaxCalls - Len(pending')) * ToolTime \in Nat BY <2>1, NoLess DEF LoopAssumption
    <2> QED BY <2>2 DEF LoopAssumption
  <1>5. phase = "gather" => kind = "tools" BY CallFacts
  <1> QED BY <1>1, <1>2, <1>3, <1>4, <1>5 DEF Overrun

----------------------------------------------------------------------------
LEMMA BrokenInv ==
    ASSUME LoopAssumption, IInv, NEW d \in Durations, Broken(d)
    PROVE  IInv'
  <1> USE DEF Broken, toolVars, fixed
  <1>1. Call(d) /\ pc = "model" BY CallFacts
  <1>2. Ending' /\ pc' = "end" BY <1>1, FailureEnds
  <1>3. LoopTypeOK' BY <1>1, CallFacts DEF IInv, LoopTypeOK, Profiles, Raised, End
  <1>4. Counting' BY <1>1, <1>2, CallFacts DEF Counting, MostAnswering
  <1>5. Rotation' BY <1>1, CallFacts DEF IInv, Rotation, Profiles, Call
  <1>6. Budget' /\ Overrun'
    BY <1>1, <1>2, CallFacts, CallKeeps DEF IInv, LoopTypeOK
  <1> QED BY <1>2, <1>3, <1>4, <1>5, <1>6 DEF IInv

LEMMA MalformedInv ==
    ASSUME LoopAssumption, IInv, NEW d \in Durations, Malformed(d)
    PROVE  IInv'
  <1> USE DEF Malformed, toolVars, fixed
  <1>1. Call(d) /\ pc = "model" BY CallFacts
  <1>2. method < Methods BY <1>1 DEF IInv, Counting
  <1>3. Ending'
    <2>1. CASE LastMethod BY <1>1, <2>1, FailureEnds
    <2>2. CASE ~LastMethod BY <1>1, <2>2 DEF IInv, Ending, OutcomeIsTrue, TimeoutUnrecorded, endVars
    <2> QED BY <2>1, <2>2
  <1>4. pc' \in {"model", "end"} BY <1>1 DEF Raised, End
  <1>5. LoopTypeOK'
    <2>1. outcome' \in {"pending", "failed"} /\ error' \in BOOLEAN /\ result' \in BOOLEAN
      BY <1>1, CallFacts DEF Raised, End, endVars
    <2>2. method' \in 0 .. Methods /\ left' \in Int
      BY <1>1, <1>2, CallFacts DEF IInv, LoopTypeOK, LoopAssumption
    <2> QED BY <1>1, <1>4, <2>1, <2>2, CallFacts DEF IInv, LoopTypeOK, Profiles
  <1>6. Counting'
    <2>1. phase' = "answer" /\ calls' = attempt' + method' /\ calls' <= MostAnswering
      <3>1. attempt \in Nat /\ method \in Nat BY DEF IInv, LoopTypeOK, LoopAssumption
      <3>2. calls' = attempt + 1 + method /\ calls' <= MostAnswering BY <1>1, CallFacts
      <3> QED BY <3>1, <3>2
    <2>2. pc' = "model" => method' < Methods
      BY <1>1, <1>2 DEF LastMethod, Raised, End, IInv, LoopTypeOK, LoopAssumption
    <2>3. attempt' < Chain + naps' /\ naps' <= MaxThrottled BY <1>1 DEF IInv, Counting
    <2>4. MostAnswering' = MostAnswering BY DEF MostAnswering
    <2> QED BY <2>1, <2>2, <2>3, <2>4 DEF Counting
  <1>7. Rotation' BY <1>1, CallFacts DEF IInv, Rotation, Profiles, Call
  <1>8. Budget' /\ Overrun'
    BY <1>1, <1>4, CallFacts, CallKeeps DEF IInv, LoopTypeOK
  <1> QED BY <1>3, <1>5, <1>6, <1>7, <1>8 DEF IInv

LEMMA ReplyInv ==
    ASSUME LoopAssumption, IInv, NEW d \in Durations, NEW asked \in Replies, Reply(d, asked)
    PROVE  IInv'
  <1> USE DEF Reply, endVars, fixed
  <1>1. Call(d) /\ pc = "model" /\ phase = "gather" BY CallFacts
  <1>2. pending' \in Seq(Signatures) /\ Len(pending') <= MaxCalls
    BY DEF Replies, LoopAssumption
  <1>3. LoopTypeOK' BY <1>1, <1>2, CallFacts DEF IInv, LoopTypeOK, Profiles
  <1>4. Counting' BY <1>1, CallFacts DEF Counting
  <1>5. Rotation' BY <1>1, CallFacts DEF IInv, Rotation, Profiles, Call
  <1>6. Budget' /\ Overrun'
    BY <1>1, <1>2, CallFacts, CallKeeps DEF IInv, LoopTypeOK
  <1>7. Ending' BY <1>1 DEF IInv, Ending, OutcomeIsTrue, TimeoutUnrecorded
  <1> QED BY <1>3, <1>4, <1>5, <1>6, <1>7 DEF IInv

LEMMA AnswerInv ==
    ASSUME LoopAssumption, IInv, NEW d \in Durations, NEW verified \in BOOLEAN,
           Answer(d, verified)
    PROVE  IInv'
  <1> USE DEF Answer, toolVars, fixed
  <1>1. Call(d) /\ pc = "model" BY CallFacts
  <1>2. pc' = "end" BY DEF Raised, End
  <1>3. Ending'
    <2>1. CASE verified
      <3>1. outcome' = "done" /\ result' = TRUE /\ error' = FALSE
        BY <1>1, <2>1, CallFacts DEF End
      <3>2. (outcome' \in {"done", "skipped"}) = result' BY <3>1
      <3> QED BY <1>2, <3>1, <3>2 DEF Ending, OutcomeIsTrue, TimeoutUnrecorded
    <2>2. CASE ~verified BY <1>1, <2>2, FailureEnds
    <2> QED BY <2>1, <2>2
  <1>4. LoopTypeOK'
    <2>1. outcome' \in {"done", "failed"} /\ error' \in BOOLEAN /\ result' \in BOOLEAN
      BY <1>1, CallFacts DEF Raised, End
    <2> QED BY <1>1, <1>2, <2>1, CallFacts DEF IInv, LoopTypeOK, Profiles
  <1>5. Counting' BY <1>1, <1>2, CallFacts DEF Counting, MostAnswering
  <1>6. Rotation' BY <1>1, CallFacts DEF IInv, Rotation, Profiles, Call
  <1>7. Budget' /\ Overrun'
    BY <1>1, <1>2, CallFacts, CallKeeps DEF IInv, LoopTypeOK
  <1> QED BY <1>3, <1>4, <1>5, <1>6, <1>7 DEF IInv

\* The next profile: the count of attempts grows with that of calls, and the
\* first sleep comes when the attempts have gone round the chain.
LEMMA RotateInv ==
    ASSUME LoopAssumption, IInv, NEW d \in Durations, NEW w \in Waits, Rotate(d, w)
    PROVE  IInv'
  <1> USE DEF Rotate, NextAttempt, Exhausted, toolVars, fixed
  <1>1. Call(d) /\ pc = "model" BY CallFacts
  <1>2. /\ attempt' = attempt + 1 /\ attempt \in Nat /\ naps \in Nat /\ Chain \in Nat \ {0}
        /\ w \in Nat \ {0}
    BY DEF IInv, LoopTypeOK, LoopAssumption
  <1>3. pc' \in {"model", "end"} BY <1>1 DEF TimedOut, Raised, End
  <1>4. left' \in Int /\ left' >= -Slack
    <2>1. left - d \in Int /\ left - d >= -Slack /\ Slack \in Nat
      BY <1>1, CallFacts DEF LoopAssumption
    <2>2. left' = left - d \/ (left' = left - d - w /\ w < left - d)
      BY <1>2, <2>1 DEF Outlasts
    <2> QED BY <1>2, <2>1, <2>2
  <1>5. naps' \in Nat /\ (naps' = naps \/ (naps' = naps + 1 /\ attempt + 1 >= Chain))
    BY <1>2
  <1>6. Ending'
    <2>1. CASE TimedOut \/ Raised BY <1>1, <2>1, FailureEnds
    <2>2. CASE UNCHANGED <<pc, endVars>>
      BY <1>1, <2>2 DEF IInv, Ending, OutcomeIsTrue, TimeoutUnrecorded, endVars
    <2> QED BY <2>1, <2>2
  <1>7. LoopTypeOK'
    <2>1. /\ outcome' \in {"pending", "failed", "timeout"}
          /\ error' \in BOOLEAN /\ result' \in BOOLEAN
      BY <1>1, CallFacts DEF TimedOut, Raised, End, endVars
    <2>2. attempt' \in Nat /\ naps' \in Nat /\ left' \in Int BY <1>2, <1>4, <1>5
    <2>3. calls' \in Nat /\ tried' \subseteq Profiles BY <1>1, CallFacts
    <2> QED BY <1>3, <2>1, <2>2, <2>3 DEF IInv, LoopTypeOK, Profiles
  <1>8. Counting'
    <2>1. CASE phase = "gather"
      <3>1. calls' = attempt' /\ calls' <= 2 * Chain BY <1>1, <1>2, <2>1, CallFacts
      <3>2. pc' = "model" => attempt' < 2 * Chain
        BY <1>1, <1>2, <2>1, <3>1 DEF GivesUp, TimedOut, Raised, End
      <3> QED BY <2>1, <3>1, <3>2 DEF Counting
    <2>2. CASE phase = "answer"
      <3>1. calls' = attempt' + method' /\ calls' <= MostAnswering /\ method' < Methods
        BY <1>1, <1>2, <2>2, CallFacts DEF IInv, Counting, LoopTypeOK
      <3>2. attempt < Chain + naps /\ naps <= MaxThrottled
        BY <1>1, <2>2 DEF IInv, Counting
      <3>3. pc' = "model" => attempt' < Chain + naps' /\ naps' <= MaxThrottled
        BY <1>1, <1>2, <2>2, <3>2 DEF GivesUp, TimedOut, Raised, End, LoopAssumption
      <3>4. MostAnswering' = MostAnswering BY DEF MostAnswering
      <3> QED BY <2>2, <3>1, <3>3, <3>4 DEF Counting
    <2> QED BY <2>1, <2>2 DEF IInv, LoopTypeOK
  <1>9. Rotation'
    <2>1. \A p \in Profiles : p < attempt' => p \in tried' BY <1>1, <1>2, CallFacts
    <2>2. naps' > 0 => attempt' >= Chain BY <1>2, <1>5 DEF IInv, Rotation
    <2> QED BY <2>1, <2>2 DEF Rotation, Profiles
  <1>10. Budget' /\ Overrun'
    BY <1>1, <1>3, <1>4, CallKeeps DEF IInv, LoopTypeOK
  <1> QED BY <1>6, <1>7, <1>8, <1>9, <1>10 DEF IInv

----------------------------------------------------------------------------
LEMMA SkipInv == ASSUME LoopAssumption, IInv, Skip PROVE IInv'
  <1> USE DEF Skip, End, timeVars, fixed, modelVars, toolVars
  <1>1. LoopTypeOK' BY DEF IInv, LoopTypeOK, Profiles
  <1>2. Counting' BY DEF IInv, Counting, MostAnswering
  <1>3. Rotation' BY DEF IInv, Rotation, Profiles
  <1>4. Budget' BY DEF IInv, Budget
  <1>5. Overrun' BY DEF IInv, Overrun, OverrunBounded
  <1>6. Ending'
    <2>1. pc' = "end" /\ outcome' = "skipped" /\ error' = FALSE /\ result' = TRUE
      BY DEF IInv, Ending, LoopTypeOK
    <2>2. (outcome' \in {"done", "skipped"}) = result' BY <2>1
    <2> QED BY <2>1, <2>2 DEF Ending, OutcomeIsTrue, TimeoutUnrecorded
  <1> QED BY <1>1, <1>2, <1>3, <1>4, <1>5, <1>6 DEF IInv

LEMMA StartToolsInv == ASSUME LoopAssumption, IInv, StartTools PROVE IInv'
  <1> USE DEF StartTools, timeVars, fixed, modelVars, toolVars, endVars
  <1>1. LoopTypeOK' BY DEF IInv, LoopTypeOK, Profiles
  <1>2. Counting' BY DEF IInv, Counting, MostAnswering
  <1>3. Rotation' BY DEF IInv, Rotation, Profiles
  <1>4. Budget' BY DEF IInv, Budget
  <1>5. Overrun' BY DEF IInv, Overrun, OverrunBounded
  <1>6. Ending' BY DEF IInv, Ending, OutcomeIsTrue, TimeoutUnrecorded, LoopTypeOK
  <1> QED BY <1>1, <1>2, <1>3, <1>4, <1>5, <1>6 DEF IInv

\* One tool call handled: its repeats grow whether it is made or not.
LEMMA HandledInv ==
    ASSUME LoopAssumption, IInv, NotMade \/ \E d \in 0 .. ToolTime, r \in BOOLEAN : CallTool(d, r)
    PROVE  IInv'
  <1> DEFINE s == Head(pending)
  <1> USE DEF NotMade, CallTool, Handled, modelVars, endVars, fixed
  <1>0. PICK d \in 0 .. ToolTime :
          /\ pc = "tool" /\ pending # <<>> /\ Handled(s)
          /\ \/ left' = left - d /\ ~Refused(s)
                /\ invoked' = [invoked EXCEPT ![s] = @ + 1] /\ total' \in {total, total + 1}
             \/ UNCHANGED <<left, total, invoked>>
    <2>1. 0 \in 0 .. ToolTime BY DEF LoopAssumption
    <2>2. CASE NotMade BY <2>1, <2>2
    <2>3. CASE \E d \in 0 .. ToolTime, r \in BOOLEAN : CallTool(d, r)
      <3>1. PICK d \in 0 .. ToolTime, r \in BOOLEAN : CallTool(d, r) BY <2>3
      <3>2. total' \in {total, total + 1} BY <3>1
      <3> QED BY <3>1, <3>2
    <2> QED BY <2>2, <2>3
  <1>1. /\ s \in Signatures /\ Len(pending) \in Nat \ {0}
        /\ Tail(pending) \in Seq(Signatures) /\ Len(Tail(pending)) = Len(pending) - 1
    BY <1>0 DEF IInv, LoopTypeOK
  <1>2. pending' = Tail(pending) /\ pc' \in {"round", "tool"} /\ kind' = kind BY <1>0
  <1>3. repeats' = [repeats EXCEPT ![s] = @ + 1] BY <1>0
  <1>4. Budget'
    <2>1. total' <= MaxTotalCalls
      BY <1>0 DEF Refused, IInv, Budget, LoopTypeOK, LoopAssumption
    <2>2. ASSUME NEW t \in Signatures
          PROVE  invoked'[t] <= repeats'[t] /\ invoked'[t] <= MaxRepeats
      <3>1. /\ invoked[t] <= repeats[t] /\ invoked[t] <= MaxRepeats
            /\ invoked[t] \in Nat /\ repeats[t] \in Nat
            /\ invoked \in [Signatures -> Nat] /\ repeats \in [Signatures -> Nat]
        BY DEF IInv, Budget, LoopTypeOK
      <3>2. CASE invoked' = invoked BY <1>1, <1>3, <3>1, <3>2
      <3>3. CASE ~Refused(s) /\ invoked' = [invoked EXCEPT ![s] = @ + 1]
        BY <1>1, <1>3, <3>1, <3>3 DEF Refused, LoopAssumption
      <3> QED BY <1>0, <3>2, <3>3
    <2> QED BY <2>1, <2>2 DEF Budget
  <1>5. LoopTypeOK'
    <2>1. repeats' \in [Signatures -> Nat] BY <1>1, <1>3 DEF IInv, LoopTypeOK
    <2>2. invoked' \in [Signatures -> Nat]
      <3>1. invoked' = invoked \/ invoked' = [invoked EXCEPT ![s] = @ + 1] BY <1>0
      <3>2. invoked \in [Signatures -> Nat] BY DEF IInv, LoopTypeOK
      <3> HIDE DEF s
      <3> QED BY <1>1, <3>1, <3>2
    <2>3. total' \in Nat /\ left' \in Int BY <1>0 DEF IInv, LoopTypeOK, LoopAssumption
    <2>4. Len(pending') <= MaxCalls /\ pending' \in Seq(Signatures)
      BY <1>1, <1>2 DEF IInv, LoopTypeOK, LoopAssumption
    <2> QED BY <1>0, <1>2, <2>1, <2>2, <2>3, <2>4 DEF IInv, LoopTypeOK, Profiles
  <1>6. Counting' BY <1>0 DEF IInv, Counting, MostAnswering
  <1>7. Rotation' BY <1>0 DEF IInv, Rotation, Profiles
  <1>8. Overrun'
    <2> DEFINE n == Len(pending)
    <2>1. left >= -Slack - (MaxCalls - n) * ToolTime /\ kind = "tools"
      BY <1>0 DEF IInv, Overrun
    <2>2. n \in Nat /\ n > 0 /\ n <= MaxCalls /\ MaxCalls \in Nat /\ ToolTime \in Nat /\ Slack \in Nat
      BY <1>1 DEF IInv, LoopTypeOK, LoopAssumption
    <2>3. (MaxCalls - (n - 1)) * ToolTime = (MaxCalls - n) * ToolTime + ToolTime
      BY <2>2, OneMore
    <2>4. (MaxCalls - n) * ToolTime \in Nat /\ (n - 1) * ToolTime \in Nat
      <3>1. MaxCalls - n \in Nat /\ n - 1 \in Nat BY <2>2
      <3> QED BY <2>2, <3>1, NoLess
    <2>5. left' \in Int /\ left \in Int /\ left' >= left - ToolTime
      BY <1>0, <2>2 DEF IInv, LoopTypeOK
    <2>6. Len(pending') = n - 1 BY <1>1, <1>2
    <2>7. left' >= -Slack - (MaxCalls - Len(pending')) * ToolTime
      <3> HIDE DEF n
      <3> QED BY <2>1, <2>2, <2>3, <2>4, <2>5, <2>6
    <2>8. MaxCalls * ToolTime = (MaxCalls - (n - 1)) * ToolTime + (n - 1) * ToolTime
      BY <2>2, SMT
    <2>9. OverrunBounded'
      <3> HIDE DEF n
      <3>1. (MaxCalls - (n - 1)) * ToolTime \in Int BY <2>2, <2>3, <2>4
      <3> QED BY <1>2, <2>1, <2>2, <2>4, <2>5, <2>6, <2>7, <2>8, <3>1 DEF OverrunBounded
    <2> QED BY <1>2, <2>1, <2>7, <2>9 DEF Overrun
  <1>9. Ending' BY <1>0, <1>2 DEF IInv, Ending, OutcomeIsTrue, TimeoutUnrecorded
  <1> QED BY <1>4, <1>5, <1>6, <1>7, <1>8, <1>9 DEF IInv

LEMMA StepInv == ASSUME LoopAssumption, IInv, [Next]_vars PROVE IInv'
  <1>1. CASE Skip BY <1>1, SkipInv
  <1>2. CASE StartPlain
    <2>1. round' \in 0 .. MaxRounds BY <1>2 DEF StartPlain, toolVars, IInv, LoopTypeOK
    <2> QED BY <1>2, <2>1, InvokeInv DEF StartPlain, toolVars, endVars
  <1>3. CASE StartTools BY <1>3, StartToolsInv
  <1>4. CASE Round
    <2>1. round' \in 0 .. MaxRounds
      BY <1>4 DEF Round, MoreRounds, IInv, LoopTypeOK, LoopAssumption
    <2>2. ~result /\ kind = "tools" BY <1>4 DEF Round, IInv, Ending, Overrun
    <2> QED BY <1>4, <2>1, <2>2, InvokeInv DEF Round, endVars
  <1>5. CASE RoundsOver
    <2>1. round' \in 0 .. MaxRounds /\ ~result
      BY <1>5 DEF RoundsOver, toolVars, IInv, LoopTypeOK, Ending
    <2> QED BY <1>5, <2>1, InvokeInv DEF RoundsOver, toolVars, endVars
  <1>6. CASE OutOfTime BY <1>6, LeaveInv DEF OutOfTime
  <1>7. CASE NoKey BY <1>7, LeaveInv DEF NoKey
  <1>8. CASE NothingAsked
    <2>1. round' \in 0 .. MaxRounds /\ ~result
      BY <1>8 DEF NothingAsked, toolVars, IInv, LoopTypeOK, Ending
    <2> QED BY <1>8, <2>1, InvokeInv DEF NothingAsked, toolVars, endVars
  <1>9. CASE NotMade BY <1>9, HandledInv
  <1>10. ASSUME NEW d \in Durations,
                \/ Broken(d) \/ Malformed(d)
                \/ \E w \in Waits : Rotate(d, w)
                \/ \E asked \in Replies : Reply(d, asked)
                \/ \E verified \in BOOLEAN : Answer(d, verified)
         PROVE  IInv'
    BY <1>10, BrokenInv, MalformedInv, RotateInv, ReplyInv, AnswerInv
  <1>11. CASE \E d \in 0 .. ToolTime, r \in BOOLEAN : CallTool(d, r) BY <1>11, HandledInv
  <1>12. CASE UNCHANGED vars
    <2> USE <1>12 DEF vars, timeVars, fixed, modelVars, toolVars, endVars
    <2>1. LoopTypeOK' BY DEF IInv, LoopTypeOK, Profiles
    <2>2. Counting' BY DEF IInv, Counting, MostAnswering
    <2>3. Rotation' /\ Budget' BY DEF IInv, Rotation, Profiles, Budget
    <2>4. Overrun' BY DEF IInv, Overrun, OverrunBounded
    <2>5. Ending' BY DEF IInv, Ending, OutcomeIsTrue, TimeoutUnrecorded
    <2> QED BY <2>1, <2>2, <2>3, <2>4, <2>5 DEF IInv
  <1> QED BY <1>1, <1>2, <1>3, <1>4, <1>5, <1>6, <1>7, <1>8, <1>9, <1>10, <1>11, <1>12 DEF Next

THEOREM Invariance == Spec => []IInv
  <1>1. Init => IInv BY LoopAssumption, InitInv
  <1>2. IInv /\ [Next]_vars => IInv' BY LoopAssumption, StepInv
  <1> QED BY <1>1, <1>2, PTL DEF Spec

----------------------------------------------------------------------------
(* The properties of the runs. *)

\* The types of the variables are invariant.
THEOREM Typing == Spec => []LoopTypeOK
  <1>1. IInv => LoopTypeOK BY DEF IInv
  <1> QED BY <1>1, Invariance, PTL

\* No agent waits for a rate limit before it has tried its whole chain: the
\* attempts before a sleep have gone round it.
THEOREM RotatesFirst == Spec => []KeysBeforeSleep
  <1>1. ASSUME IInv PROVE KeysBeforeSleep
    <2>1. ASSUME naps > 0, NEW p \in Profiles PROVE p \in tried
      <3>1. attempt >= Chain BY <1>1, <2>1 DEF IInv, Rotation
      <3>2. p < attempt
        BY <1>1, <3>1, LoopAssumption DEF IInv, LoopTypeOK, Profiles, LoopAssumption
      <3> QED BY <1>1, <3>2 DEF IInv, Rotation
    <2>2. tried \subseteq Profiles BY <1>1 DEF IInv, LoopTypeOK
    <2> QED BY <2>1, <2>2 DEF KeysBeforeSleep
  <1> QED BY <1>1, Invariance, PTL

\* One invocation makes a bounded number of calls, whatever the model answers
\* and whatever its deadline.
THEOREM CallsAreBounded == Spec => []CallsBounded
  <1>1. IInv => CallsBounded BY DEF IInv, Counting, CallsBounded, LoopTypeOK
  <1> QED BY <1>1, Invariance, PTL

\* The tool calls that return, and the repetitions of one call, stay in budget.
THEOREM ToolsAreBounded == Spec => []ToolBudget
  <1>1. IInv => ToolBudget BY DEF IInv, Budget, ToolBudget
  <1> QED BY <1>1, Invariance, PTL

\* An agent outlasts its deadline by one call's slack and one reply's tools.
THEOREM OverrunIsBounded == Spec => []OverrunBounded
  <1>1. IInv => OverrunBounded BY DEF IInv, Overrun
  <1> QED BY <1>1, Invariance, PTL

\* The recorded outcome is one of metrics.py:47 and agrees with what the plan got,
\* but for the timeout of an agent with tools (base.py:504), which is not recorded.
THEOREM OutcomeAgrees == Spec => [](OutcomeIsTrue \/ TimeoutUnrecorded)
  <1>1. IInv => OutcomeIsTrue \/ TimeoutUnrecorded BY DEF IInv, Ending
  <1> QED BY <1>1, Invariance, PTL

\* So the metrics of an agent without tools are right, however it ends.
THEOREM PlainOutcomeAgrees == Spec => [](kind = "plain" => OutcomeIsTrue)
  <1>1. OutcomeIsTrue \/ TimeoutUnrecorded => (kind = "plain" => OutcomeIsTrue)
    BY DEF TimeoutUnrecorded
  <1> QED BY <1>1, OutcomeAgrees, PTL

----------------------------------------------------------------------------
(* The loops end by their limits: the passes that are left.                 *)

\* The rounds to come are worth a natural number of passes, and each of them
\* PerRound.
LEMMA LaterFacts ==
    ASSUME LoopAssumption, IInv
    PROVE  /\ MostCalls \in Nat /\ MaxCalls \in Nat /\ calls \in 0 .. MostCalls
           /\ MostCalls' = MostCalls
           /\ Later \in Nat /\ Later >= MostCalls + 2
           /\ round' = round => Later' = Later
           /\ round < MaxRounds /\ round' = round + 1
                => Later' = Later - PerRound /\ Later' \in Nat
  <1>1. /\ MostCalls \in Nat /\ MaxCalls \in Nat /\ calls \in Nat /\ MaxRounds \in Nat
        /\ round \in 0 .. MaxRounds
    BY Bounds DEF IInv, LoopTypeOK, LoopAssumption
  <1>2. calls <= MostCalls
    <2>1. phase \in {"gather", "answer"} BY DEF IInv, LoopTypeOK
    <2>2. /\ MostAnswering \in Nat /\ MostAnswering <= MostCalls
          /\ Chain \in Nat /\ 2 * Chain <= MostCalls
      BY Bounds DEF IInv, LoopAssumption
    <2>3. calls <= 2 * Chain \/ calls <= MostAnswering BY <2>1 DEF IInv, Counting
    <2> QED BY <1>1, <2>2, <2>3
  <1>3. PerRound \in Nat BY <1>1 DEF PerRound
  <1>4. Later \in Nat /\ Later >= MostCalls + 2
    <2>1. MaxRounds - round \in Nat BY <1>1
    <2>2. (MaxRounds - round) * PerRound \in Nat BY <1>3, <2>1, NoLess
    <2> QED BY <1>1, <2>2 DEF Later
  <1>5. MostCalls' = MostCalls /\ PerRound' = PerRound
    BY DEF PerRound, MostCalls, MostAnswering
  <1>6. round' = round => Later' = Later BY <1>5 DEF Later
  <1>7. ASSUME round < MaxRounds, round' = round + 1
        PROVE  Later' = Later - PerRound /\ Later' \in Nat
    <2> DEFINE n == MaxRounds - (round + 1)
    <2>1. n \in Nat /\ MaxRounds - round = n + 1 /\ MaxRounds - round' = n
      BY <1>1, <1>7
    <2>2. Later = (MaxRounds - round) * PerRound + MostCalls + 2 BY DEF Later
    <2>3. Later' = (MaxRounds - round') * PerRound + MostCalls + 2 BY <1>5 DEF Later
    <2> HIDE DEF n
    <2>4. (n + 1) * PerRound = n * PerRound + PerRound /\ n * PerRound \in Nat
      BY <1>3, <2>1, SMT
    <2> QED BY <1>1, <1>3, <2>1, <2>2, <2>3, <2>4
  <1> QED BY <1>1, <1>2, <1>4, <1>5, <1>6, <1>7

\* In a retry loop there is a pass to make: the one that leaves it.
LEMMA ModelMeasure ==
    ASSUME LoopAssumption, IInv, pc = "model"
    PROVE  StepsLeft \in Nat \ {0}
  <1>1. StepsLeft = MostCalls - calls + 1 + (IF phase = "gather" THEN Later + MaxCalls ELSE 0)
    BY DEF StepsLeft
  <1> QED BY <1>1, LaterFacts

\* A pass of a retry loop: the agent leaves it, or has one call less to make.
LEMMA CallCounts ==
    ASSUME LoopAssumption, IInv, NEW d \in Durations, Call(d),
           phase' = phase, round' = round, pc' \in {"model", "end"}
    PROVE  0 <= StepsLeft' /\ StepsLeft' < StepsLeft
  <1>1. pc = "model" /\ calls' = calls + 1 BY CallFacts
  <1>2. calls' <= MostCalls /\ phase \in {"gather", "answer"}
    <2>1. phase \in {"gather", "answer"} BY DEF IInv, LoopTypeOK
    <2>2. /\ MostAnswering \in Nat /\ MostAnswering <= MostCalls /\ MostCalls \in Nat
          /\ Chain \in Nat /\ 2 * Chain <= MostCalls
      BY Bounds DEF IInv, LoopAssumption
    <2>3. calls' \in Nat /\ (calls' <= 2 * Chain \/ calls' <= MostAnswering)
      BY <2>1, CallFacts
    <2> QED BY <2>1, <2>2, <2>3
  <1>3. CASE pc' = "end"
    <2>1. StepsLeft' = 0 BY <1>3 DEF StepsLeft
    <2> QED BY <1>1, <2>1, ModelMeasure
  <1>4. CASE pc' = "model"
    <2>1. StepsLeft' = MostCalls' - calls' + 1
                         + (IF phase' = "gather" THEN Later' + MaxCalls ELSE 0)
      BY <1>4 DEF StepsLeft
    <2>2. StepsLeft = MostCalls - calls + 1 + (IF phase = "gather" THEN Later + MaxCalls ELSE 0)
      BY <1>1 DEF StepsLeft
    <2> QED BY <1>1, <1>2, <2>1, <2>2, LaterFacts
  <1> QED BY <1>3, <1>4

\* Out of a retry loop without a call.
LEMMA LeaveCounts ==
    ASSUME LoopAssumption, IInv, pc = "model", pc' = "end"
    PROVE  0 <= StepsLeft' /\ StepsLeft' < StepsLeft
  <1>1. StepsLeft' = 0 BY DEF StepsLeft
  <1> QED BY <1>1, ModelMeasure

\* The answer is asked for once, and costs no more than its calls and its end.
LEMMA AnswerCounts ==
    ASSUME LoopAssumption, IInv, Invoke("answer"), pc \in {"entry", "round", "tool"}
    PROVE  0 <= StepsLeft' /\ StepsLeft' < StepsLeft
  <1>1. StepsLeft' = MostCalls + 1 BY LaterFacts DEF Invoke, StepsLeft
  <1>2. Len(pending) \in Nat BY DEF IInv, LoopTypeOK
  <1>3. StepsLeft \in {Later + 1, Later, Later + Len(pending)} BY DEF StepsLeft
  <1> QED
    <2>1. MostCalls \in Nat /\ Later \in Nat /\ Later >= MostCalls + 2 BY LaterFacts
    <2> QED BY <1>1, <1>2, <1>3, <2>1

LEMMA PassCounts ==
    ASSUME LoopAssumption, IInv, Next
    PROVE  0 <= StepsLeft' /\ StepsLeft' < StepsLeft
  <1> USE DEF fixed, timeVars, modelVars, toolVars, endVars
  <1>1. CASE Skip BY <1>1, LaterFacts DEF Skip, End, StepsLeft
  <1>2. CASE StartPlain BY <1>2, AnswerCounts DEF StartPlain
  <1>3. CASE StartTools BY <1>3, LaterFacts DEF StartTools, StepsLeft
  <1>4. CASE Round
    <2>1. Later' = Later - PerRound /\ Later' \in Nat
      BY <1>4, LaterFacts DEF Round, MoreRounds
    <2>2. StepsLeft = Later BY <1>4 DEF Round, StepsLeft
    <2>3. StepsLeft' = MostCalls + 1 + Later' + MaxCalls
      BY <1>4, <2>1, LaterFacts DEF Round, Invoke, StepsLeft
    <2> QED BY <2>1, <2>2, <2>3, LaterFacts DEF PerRound
  <1>5. CASE RoundsOver BY <1>5, AnswerCounts DEF RoundsOver
  <1>6. CASE OutOfTime BY <1>6, LeaveCounts DEF OutOfTime, TimedOut, End
  <1>7. CASE NoKey BY <1>7, LeaveCounts DEF NoKey, Raised, End
  <1>8. CASE NothingAsked BY <1>8, AnswerCounts DEF NothingAsked
  <1>9. CASE NotMade \/ \E d \in 0 .. ToolTime, r \in BOOLEAN : CallTool(d, r)
    <2>1. /\ pc = "tool" /\ pending # <<>> /\ pending' = Tail(pending) /\ round' = round
          /\ pc' = IF Len(pending) = 1 THEN "round" ELSE "tool"
      BY <1>9 DEF NotMade, CallTool, Handled
    <2>2. Len(pending) \in Nat \ {0} /\ Len(pending') = Len(pending) - 1
      BY <2>1 DEF IInv, LoopTypeOK
    <2>3. StepsLeft = Later + Len(pending) BY <2>1 DEF StepsLeft
    <2>4. Later \in Nat /\ Later' = Later BY <2>1, LaterFacts
    <2>5. CASE Len(pending) = 1
      <3>1. StepsLeft' = Later' BY <2>1, <2>5 DEF StepsLeft
      <3> QED BY <2>3, <2>4, <2>5, <3>1
    <2>6. CASE Len(pending) # 1
      <3>1. StepsLeft' = Later' + Len(pending') BY <2>1, <2>6 DEF StepsLeft
      <3> QED BY <2>2, <2>3, <2>4, <3>1
    <2> QED BY <2>5, <2>6
  <1>10. ASSUME NEW d \in Durations,
                \/ Broken(d) \/ Malformed(d)
                \/ \E w \in Waits : Rotate(d, w)
                \/ \E verified \in BOOLEAN : Answer(d, verified)
         PROVE  0 <= StepsLeft' /\ StepsLeft' < StepsLeft
    <2>1. pc = "model" BY <1>10 DEF Broken, Malformed, Rotate, Answer, Call
    <2>2. pc' \in {"model", "end"}
      BY <1>10, <2>1 DEF Broken, Malformed, Rotate, Answer, TimedOut, Raised, End
    <2>3. Call(d) /\ phase' = phase /\ round' = round
      BY <1>10 DEF Broken, Malformed, Rotate, Answer
    <2> QED BY <2>2, <2>3, CallCounts
  <1>11. ASSUME NEW d \in Durations, NEW asked \in Replies, Reply(d, asked)
         PROVE  0 <= StepsLeft' /\ StepsLeft' < StepsLeft
    <2>1. Len(pending') \in 0 .. MaxCalls
      BY <1>11 DEF Reply, Replies, LoopAssumption
    <2>2. /\ pc = "model" /\ phase = "gather" /\ pc' = "tool" /\ round' = round
      BY <1>11 DEF Reply, Call
    <2>3. StepsLeft = MostCalls - calls + 1 + Later + MaxCalls
      <3>1. StepsLeft = MostCalls - calls + 1 + (Later + MaxCalls) BY <2>2 DEF StepsLeft
      <3> QED BY <3>1, LaterFacts
    <2>4. StepsLeft' = Later' + Len(pending') BY <2>2 DEF StepsLeft
    <2>5. Later' = Later BY <2>2, LaterFacts
    <2> QED BY <2>1, <2>3, <2>4, <2>5, LaterFacts
  <1> QED BY <1>1, <1>2, <1>3, <1>4, <1>5, <1>6, <1>7, <1>8, <1>9, <1>10, <1>11 DEF Next

\* base.py, 209-218 and llm.py, 295-411: the loops over rounds, tools, profiles
\* and methods end by their limits alone.  Every pass uses up one of a number
\* that the limits fix, so no agent makes more than the number it starts with,
\* for every chain, limit and reply and however its calls spend their time.
THEOREM EveryPassIsCounted == Spec => EveryPassCounts
  <1>1. IInv /\ [Next]_vars => [0 <= StepsLeft' /\ StepsLeft' < StepsLeft]_vars
    BY LoopAssumption, PassCounts
  <1> QED BY <1>1, Invariance, PTL DEF Spec, EveryPassCounts
=============================================================================
