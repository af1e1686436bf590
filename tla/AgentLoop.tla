----------------------------- MODULE AgentLoop -----------------------------
(***************************************************************************)
(* One agent at work: run_agent and run_tool_agent (agents/base.py), the   *)
(* calls of the model they make through invoke_with_retry and              *)
(* invoke_structured (providers/llm.py), and what the run's metrics keep   *)
(* of it.  One action per pass of a loop.                                  *)
(*                                                                         *)
(* Time is the budget that is left, deadline - now, in units of seconds:   *)
(* a call of the model takes at most its socket timeout, which is what is  *)
(* left, and Slack more; a tool takes what it takes.                       *)
(***************************************************************************)
EXTENDS Integers, FiniteSets, Sequences

CONSTANTS
    Kinds,          \* "plain" (run_agent), "tools" (run_tool_agent)
    Chain,          \* length of the agent's list of profiles
    MayBeUnset,     \* positions in it whose key may be missing from .env
    Timeout,        \* AGENT_TIMEOUTS
    Reserve,        \* the 15 seconds kept for the answer
    Slack,          \* bound: how far a call outlasts its socket timeout
    Waits,          \* what _retry_after may return
    MaxThrottled,   \* the 3 sleeps of invoke_structured
    Methods,        \* the 3 entries of `methods`
    MaxRounds,
    MaxTotalCalls,  \* MAX_TOTAL_CALLS
    MaxRepeats,     \* MAX_REPEATS
    Signatures,     \* tool calls, by name and arguments
    Unknown,        \* those that name no tool of the agent
    MaxCalls,       \* bound: tool calls in one reply
    ToolTime        \* bound: how long a tool takes

ASSUME LoopAssumption ==
    /\ Kinds \subseteq {"plain", "tools"}
    /\ Chain \in Nat \ {0} /\ MayBeUnset \subseteq 0 .. Chain - 1
    /\ Timeout \in Nat \ {0} /\ Reserve \in Nat \ {0} /\ Slack \in Nat
    /\ Waits \subseteq Nat \ {0}
    /\ MaxThrottled \in Nat /\ Methods \in Nat \ {0}
    /\ MaxRounds \in Nat /\ MaxTotalCalls \in Nat /\ MaxRepeats \in Nat
    /\ Unknown \subseteq Signatures
    /\ MaxCalls \in Nat /\ ToolTime \in Nat

VARIABLES
    kind, unset,
    pc,        \* "entry", "round", "model", "tool", "end"
    left,      \* deadline - now
    phase,     \* "gather": invoke_with_retry, "answer": invoke_structured
    attempt,   \* position in the chain of profiles, before wrapping
    naps,      \* times this invocation has slept
    method,    \* index into `methods`
    tried,     \* profiles this invocation has called
    calls,     \* calls of the model it has made; MostCalls + 1 wraps to 0,
               \* so that a loop that never ended would be a cycle
    round,
    pending,   \* tool calls of the last reply that are not handled yet
    repeats, total,  \* the counters of _gather_with_tools
    invoked,   \* times each tool call was really made
    result,    \* whether state[name] holds a result
    outcome, error

fixed == <<kind, unset>>
timeVars == <<fixed, left>>
modelVars == <<phase, attempt, naps, method, tried, calls>>
toolVars == <<round, pending, repeats, total, invoked>>
endVars == <<result, outcome, error>>
vars == <<pc, timeVars, modelVars, toolVars, endVars>>

----------------------------------------------------------------------------
Profiles == 0 .. Chain - 1
Profile == attempt % Chain

\* What bounds the calls of one invocation: see CallsBounded.
MostAnswering == Chain + MaxThrottled + Methods - 1
MostCalls == 2 * Chain + MostAnswering

Init ==
    /\ kind \in Kinds /\ unset \in SUBSET MayBeUnset
    /\ pc = "entry" /\ left = Timeout
    /\ phase = "gather" /\ attempt = 0 /\ naps = 0 /\ method = 0
    /\ tried = {} /\ calls = 0
    /\ round = 0 /\ pending = <<>> /\ total = 0
    /\ repeats = [s \in Signatures |-> 0]
    /\ invoked = [s \in Signatures |-> 0]
    /\ result \in BOOLEAN          \* a resumed run may hold one
    /\ outcome = "pending" /\ error = FALSE

\* The ways out.  run_tool_agent's branch for DeadlineExceeded does not call
\* record_outcome; run_agent's does.
End(o) ==
    /\ pc' = "end"
    /\ outcome' = o

TimedOut ==
    /\ End(IF kind = "tools" THEN outcome ELSE "timeout")
    /\ error' = TRUE
    /\ UNCHANGED result

Raised == End("failed") /\ error' = TRUE /\ UNCHANGED result

\* Entering invoke_with_retry or invoke_structured.
Invoke(p) ==
    /\ pc' = "model"
    /\ phase' = p
    /\ attempt' = 0 /\ naps' = 0 /\ method' = 0
    /\ tried' = {} /\ calls' = 0

\* already_done: a result of an earlier run ends the agent at once.
Skip ==
    /\ pc = "entry" /\ result
    /\ End("skipped")
    /\ UNCHANGED <<timeVars, modelVars, toolVars, result, error>>

StartPlain ==
    /\ pc = "entry" /\ ~result /\ kind = "plain"
    /\ Invoke("answer")
    /\ UNCHANGED <<timeVars, toolVars, endVars>>

StartTools ==
    /\ pc = "entry" /\ ~result /\ kind = "tools"
    /\ pc' = "round"
    /\ UNCHANGED <<timeVars, modelVars, toolVars, endVars>>

\* The head of the loop in _gather_with_tools.
MoreRounds == round < MaxRounds /\ left >= Reserve

Round ==
    /\ pc = "round" /\ MoreRounds
    /\ round' = round + 1
    /\ Invoke("gather")
    /\ UNCHANGED <<timeVars, pending, repeats, total, invoked, endVars>>

RoundsOver ==
    /\ pc = "round" /\ ~MoreRounds
    /\ Invoke("answer")
    /\ UNCHANGED <<timeVars, toolVars, endVars>>

----------------------------------------------------------------------------
\* _remaining() at the head of both retry loops.
OutOfTime ==
    /\ pc = "model" /\ left <= 0
    /\ TimedOut
    /\ UNCHANGED <<timeVars, modelVars, toolVars>>

\* get_llm() raises MissingKeyError, which neither loop rotates past.
NoKey ==
    /\ pc = "model" /\ left > 0 /\ Profile \in unset
    /\ Raised
    /\ UNCHANGED <<timeVars, modelVars, toolVars>>

\* One call of the model that takes d.
Call(d) ==
    /\ pc = "model" /\ left > 0 /\ Profile \notin unset
    /\ d <= left + Slack
    /\ tried' = tried \cup {Profile}
    /\ calls' = IF calls > MostCalls THEN 0 ELSE calls + 1

\* An error that is neither a rate limit nor a connection error (a socket
\* timeout is one), or in the answer phase no malformed reply either.
Broken(d) ==
    /\ Call(d)
    /\ left' = left - d
    /\ Raised
    /\ UNCHANGED <<fixed, phase, attempt, naps, method, toolVars>>

\* invoke_structured gives up before it would sleep once more, and
\* invoke_with_retry after the sleep that follows its last attempt.
GivesUp(k) == IF phase = "answer" THEN naps >= MaxThrottled ELSE k = 2 * Chain

ExhaustedMutant(k) == k >= Chain - 1

Exhausted(k) == k >= Chain

OutlastsMutant(w, rest) == rest <= 0

\* A wait that would outlast the deadline, or a deadline that has passed.
Outlasts(w, rest) == w >= rest

NextAttemptMutant(k) == IF k < Chain THEN k - 1 ELSE k

NextAttempt(k) == k

\* A rate limit or a connection error: the next profile, and a sleep of w once
\* the whole chain has been tried, unless it would outlast the deadline.
Rotate(d, w) ==
    LET k == attempt + 1
        rest == left - d
    IN  /\ Call(d)
        /\ attempt' = NextAttempt(k)
        /\ \/ /\ ~Exhausted(k)
              /\ left' = rest
              /\ UNCHANGED <<pc, naps, endVars>>
           \/ /\ Exhausted(k) /\ phase = "answer" /\ GivesUp(k)
              /\ left' = rest /\ Raised
              /\ UNCHANGED naps
           \/ /\ Exhausted(k) /\ ~(phase = "answer" /\ GivesUp(k)) /\ Outlasts(w, rest)
              /\ left' = rest /\ TimedOut
              /\ UNCHANGED naps
           \/ /\ Exhausted(k) /\ ~(phase = "answer" /\ GivesUp(k)) /\ ~Outlasts(w, rest)
              /\ left' = rest - w
              /\ naps' = naps + 1
              /\ IF phase = "gather" /\ GivesUp(k)
                   THEN Raised ELSE UNCHANGED <<pc, endVars>>
        /\ UNCHANGED <<fixed, phase, method, toolVars>>

LastMethodMutant == method >= Methods

LastMethod == method + 1 >= Methods

\* No object, or prose where a tool call was forced: the next of `methods`.
Malformed(d) ==
    /\ Call(d) /\ phase = "answer"
    /\ left' = left - d
    /\ method' = method + 1
    /\ IF LastMethod THEN Raised ELSE UNCHANGED <<pc, endVars>>
    /\ UNCHANGED <<fixed, phase, attempt, naps, toolVars>>

\* The model asks for tools, or for none, which ends the gathering.
Reply(d, asked) ==
    /\ Call(d) /\ phase = "gather"
    /\ left' = left - d
    /\ pending' = asked
    /\ pc' = "tool"
    /\ UNCHANGED <<fixed, phase, attempt, naps, method, round, repeats, total, invoked, endVars>>

\* The object: recorded as done before its verifier runs, which may raise.
Answer(d, verified) ==
    /\ Call(d) /\ phase = "answer"
    /\ left' = left - d
    /\ IF verified
         THEN End("done") /\ result' = TRUE /\ UNCHANGED error
         ELSE Raised
    /\ UNCHANGED <<fixed, phase, attempt, naps, method, toolVars>>

----------------------------------------------------------------------------
NothingAsked ==
    /\ pc = "tool" /\ pending = <<>>
    /\ Invoke("answer")
    /\ UNCHANGED <<timeVars, toolVars, endVars>>

RefusedMutant(s) == total > MaxTotalCalls \/ repeats[s] > MaxRepeats

\* The two limits of the loop; repeats already counts this call.
Refused(s) == total >= MaxTotalCalls \/ repeats[s] + 1 > MaxRepeats

\* The loop over the calls of a reply: after the last one, the next round.
Handled(s) ==
    /\ repeats' = [repeats EXCEPT ![s] = @ + 1]
    /\ pending' = Tail(pending)
    /\ pc' = IF Len(pending) = 1 THEN "round" ELSE "tool"
    /\ UNCHANGED <<fixed, modelVars, round, endVars>>

NotMade ==
    /\ pc = "tool" /\ pending # <<>>
    /\ Refused(Head(pending)) \/ Head(pending) \in Unknown
    /\ Handled(Head(pending))
    /\ UNCHANGED <<left, total, invoked>>

\* A tool that raises is reported to the model and not counted in total.
CallTool(d, raises) ==
    /\ pc = "tool" /\ pending # <<>>
    /\ ~Refused(Head(pending)) /\ Head(pending) \notin Unknown
    /\ Handled(Head(pending))
    /\ left' = left - d
    /\ invoked' = [invoked EXCEPT ![Head(pending)] = @ + 1]
    /\ total' = IF raises THEN total ELSE total + 1

Replies == UNION {[1 .. n -> Signatures] : n \in 0 .. MaxCalls}
Durations == 0 .. Timeout + Slack

Next ==
    \/ Skip \/ StartPlain \/ StartTools
    \/ Round \/ RoundsOver \/ OutOfTime \/ NoKey \/ NothingAsked \/ NotMade
    \/ \E d \in Durations :
          \/ Broken(d)
          \/ \E w \in Waits : Rotate(d, w)
          \/ Malformed(d)
          \/ \E asked \in Replies : Reply(d, asked)
          \/ \E verified \in BOOLEAN : Answer(d, verified)
    \/ \E d \in 0 .. ToolTime, raises \in BOOLEAN : CallTool(d, raises)

Spec == Init /\ [][Next]_vars

\* One thread, whose calls all return: the model's have a socket timeout and
\* the tools' their own HTTP timeouts.
FairSpec == Spec /\ WF_vars(Next)

----------------------------------------------------------------------------
\* The types of the variables.
LoopTypeOK ==
    /\ kind \in Kinds /\ unset \subseteq Profiles
    /\ pc \in {"entry", "round", "model", "tool", "end"}
    /\ left \in Int
    /\ phase \in {"gather", "answer"}
    /\ attempt \in Nat /\ naps \in Nat /\ method \in 0 .. Methods /\ calls \in Nat
    /\ tried \subseteq Profiles
    /\ round \in 0 .. MaxRounds
    /\ pending \in Seq(Signatures) /\ Len(pending) <= MaxCalls
    /\ repeats \in [Signatures -> Nat] /\ invoked \in [Signatures -> Nat]
    /\ total \in Nat
    /\ result \in BOOLEAN /\ error \in BOOLEAN
    /\ outcome \in {"pending", "skipped", "done", "failed", "timeout"}

\* A wait is spent only when every profile of the chain has been tried in this
\* very invocation (invoke_with_retry's and invoke_structured's docstrings:
\* rotation first, sleeping only once the chain is used up).
KeysBeforeSleep == naps > 0 => tried = Profiles

\* However rate limits, malformed replies and rotations interleave, one
\* invocation calls the model at most twice per profile while gathering, and
\* while answering at most once per profile, sleep and method.
CallsBounded ==
    calls <= IF phase = "gather" THEN 2 * Chain ELSE MostAnswering

\* The loop of the model over tools is bounded: at most MAX_TOTAL_CALLS tools
\* return, and none is run with the same arguments more than MAX_REPEATS times
\* over all rounds, also if it raises every time.
ToolBudget ==
    /\ total <= MaxTotalCalls
    /\ \A s \in Signatures : invoked[s] <= MaxRepeats

\* base.py:228: "bounding both the call and the loop is what keeps the overrun
\* small".  An agent outlasts its deadline by the slack of one call and the
\* tools of one reply, never by a sleep or by a second round.
OverrunBounded ==
    left >= -Slack - (IF kind = "tools" THEN MaxCalls * ToolTime ELSE 0)

\* metrics.py:47 lists the outcomes of an agent, "done | skipped | failed |
\* timeout", and they are what the plan got of it: "done" or "skipped" with a
\* result and no error, the others with an error and none; "done" is recorded
\* before the verifier, which may still take it back.  TLC refutes it.
OutcomeIsTrue ==
    pc = "end" =>
        /\ outcome \in {"done", "skipped", "failed", "timeout"}
        /\ (outcome \in {"done", "skipped"}) = result
        /\ error = ~result

\* What refutes it: an agent with tools that ran out of time, and is an error in
\* the plan, is still at work as far as the metrics of its run say.
TimeoutUnrecorded ==
    /\ pc = "end" /\ kind = "tools"
    /\ outcome = "pending" /\ error = TRUE /\ result = FALSE

\* The passes an agent has left at most: of the rounds to come, each an entry,
\* its calls of the model, its reply and the tools of it, and of the answer.
PerRound == MostCalls + MaxCalls + 2
Later == (MaxRounds - round) * PerRound + MostCalls + 2

StepsLeft ==
    CASE pc = "entry" -> Later + 1
      [] pc = "round" -> Later
      [] pc = "tool"  -> Later + Len(pending)
      [] pc = "model" -> MostCalls - calls + 1
                           + (IF phase = "gather" THEN Later + MaxCalls ELSE 0)
      [] pc = "end"   -> 0

\* The loops end by their limits alone: every pass uses up one of a number that
\* the limits fix, so also with a clock that stands still, retries that cost no
\* time and a model that asks for tools in every reply.
EveryPassCounts == [][0 <= StepsLeft' /\ StepsLeft' < StepsLeft]_vars

\* Every agent comes back to the graph, whatever its model and tools do.
AgentReturns == <>(pc = "end")
=============================================================================
