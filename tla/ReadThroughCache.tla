-------------------------- MODULE ReadThroughCache --------------------------
(***************************************************************************)
(* The read-through cache on disk (providers/cache.py) under the threads   *)
(* of several processes.  The processes share the files (docker-compose    *)
(* gives the api and the worker one cache directory) and nothing else: the *)
(* lock of a key is a thread lock, one per process.                        *)
(*                                                                         *)
(* One action per access to a file or a lock, but for exists() and stat(): *)
(* nothing removes a file, so what comes between them might as well have   *)
(* come before.  The text is read later than the age, and other processes  *)
(* write in between.  A file is absent, "part" (truncated by the           *)
(* write_text that is filling it, or by one that died or failed), "whole", *)
(* or "garbled" by two writers at once.                                    *)
(***************************************************************************)
EXTENDS ToolSources, Integers

CONSTANTS
    Processes, Threads, NoThread,
    Home,        \* the process of each thread
    Keys,
    ToolsOf,     \* bound: the tools a key of the model stands for
    Then,        \* the key get_weather reads next when it got normals
    NoKey,
    Ttl,         \* lifetime each key's reader asks for, in ticks
    EmptyTtl,    \* TTL_EMPTY, which no reader is given: see EmptyIsBrief
    MaxAge,      \* bound: an entry of this age is too old for every reader
    MaxCrashes   \* bound on killed processes

ASSUME CacheAssumption ==
    /\ Processes # {}
    /\ NoThread \notin Threads /\ NoKey \notin Keys
    /\ Home \in [Threads -> Processes]
    /\ ToolsOf \in [Keys -> SUBSET Tools]
    /\ Then \in [Keys -> Keys \cup {NoKey}]
    /\ Ttl \in [Keys -> Nat \ {0}]
    /\ EmptyTtl \in Nat
    /\ MaxAge \in Nat /\ \A k \in Keys : Ttl[k] <= MaxAge
    /\ MaxCrashes \in Nat

VARIABLES
    file, entry, age,    \* per key: the file, what it says, time since its mtime
    writer,              \* the process whose write completed last
    holder,              \* per process and key: the thread with the lock
    pc, want,            \* per thread: where it is in cached(), and the key
    seen,                \* the age of the file whose text it is about to read
    value,               \* what its producer returned
    reply,               \* the answer given in the last step; a fresh one's age is -1
    crashes

diskVars == <<file, entry, age, writer>>
threadVars == <<pc, want, seen, value>>
vars == <<diskVars, holder, threadVars, reply, crashes>>

----------------------------------------------------------------------------
NoAnswer == [kind |-> "none", blind |-> FALSE]
NoReply == [by |-> NoThread, key |-> NoKey, kind |-> "none", age |-> -1]

Init ==
    /\ file = [k \in Keys |-> "absent"]
    /\ entry = [k \in Keys |-> NoAnswer]
    /\ age = [k \in Keys |-> 0]
    /\ writer = [k \in Keys |-> CHOOSE p \in Processes : TRUE]
    /\ holder = [p \in Processes |-> [k \in Keys |-> NoThread]]
    /\ pc = [t \in Threads |-> "idle"]
    /\ want = [t \in Threads |-> NoKey]
    /\ seen = [t \in Threads |-> 0]
    /\ value = [t \in Threads |-> NoAnswer]
    /\ reply = NoReply
    /\ crashes = 0

\* _read: the file is there and young enough, and its text can be parsed.
Fresh(k) == file[k] # "absent" /\ age[k] < Ttl[k]

LegibleMutant(k) == file[k] # "absent"

Legible(k) == file[k] = "whole"

Live(k) == Fresh(k) /\ Legible(k)

Unanswered == reply' = NoReply

Goto(t, place) == pc' = [pc EXCEPT ![t] = place]

Lock(t) == holder[Home[t]][want[t]]

\* The end of `with`, for the thread inside it.
Release(t) ==
    holder' = [holder EXCEPT ![Home[t]][want[t]] = IF @ = t THEN NoThread ELSE @]

\* get_weather reads the normals from their own namespace when its forecast
\* turned out to be normals.
NextKey(k, a) == IF a.kind = "normals" THEN Then[k] ELSE NoKey

\* cached() returns a to its caller, who may call it once more.
Return(t, a, since) ==
    LET next == NextKey(want[t], a) IN
    /\ reply' = [by |-> t, key |-> want[t], kind |-> a.kind, age |-> since]
    /\ value' = [value EXCEPT ![t] = NoAnswer]
    /\ seen' = [seen EXCEPT ![t] = 0]
    /\ want' = [want EXCEPT ![t] = next]
    /\ Goto(t, IF next = NoKey THEN "idle" ELSE "look")

Call(t, k) ==
    /\ pc[t] = "idle"
    /\ Goto(t, "look")
    /\ want' = [want EXCEPT ![t] = k]
    /\ Unanswered
    /\ UNCHANGED <<diskVars, holder, seen, value, crashes>>

\* exists() and stat().
Stat(t) ==
    /\ pc[t] = "look" /\ Fresh(want[t])
    /\ seen' = [seen EXCEPT ![t] = age[want[t]]]
    /\ Goto(t, "read")
    /\ Unanswered
    /\ UNCHANGED <<diskVars, holder, want, value, crashes>>

\* read_text(): what the file says now, with the age noted before.
Hit(t) ==
    /\ pc[t] = "read" /\ Legible(want[t])
    /\ Return(t, entry[want[t]], seen[t])
    /\ Release(t)
    /\ UNCHANGED <<diskVars, crashes>>

\* A miss without the lock is followed by the lock, one with it by the fetch.
Miss(t) ==
    /\ \/ pc[t] = "look" /\ ~Fresh(want[t])
       \/ pc[t] = "read" /\ ~Legible(want[t])
    /\ seen' = [seen EXCEPT ![t] = 0]
    /\ Goto(t, IF Lock(t) = t THEN "fetch" ELSE "wait")
    /\ Unanswered
    /\ UNCHANGED <<diskVars, holder, want, value, crashes>>

LockedMutant(t) == Goto(t, "fetch")

\* Another thread may have filled it while this one waited: the second look.
Locked(t) == Goto(t, "look")

Acquire(t) ==
    /\ pc[t] = "wait" /\ Lock(t) = NoThread
    /\ holder' = [holder EXCEPT ![Home[t]][want[t]] = t]
    /\ Locked(t)
    /\ Unanswered
    /\ UNCHANGED <<diskVars, want, seen, value, crashes>>

StorableMutant(a) == a.kind # "raises"

\* An `error` other than "no_results" is returned at once; the shorter lifetime
\* of "no_results" is assigned to a local that is not used again.
Storable(a) == a.kind \notin {"failed", "raises"}

UnlockMutant(t, a) == IF a.kind = "raises" THEN UNCHANGED holder ELSE Release(t)

\* `with`: the lock is given back however the producer ends.
Unlock(t, a) == Release(t)

\* A failure, or an exception, reaches the caller and leaves no trace on disk.
FetchFailed(t, a) ==
    /\ ~Storable(a)
    /\ Return(t, a, -1)
    /\ Unlock(t, a)
    /\ UNCHANGED <<diskVars, crashes>>

\* write_text opens the file, which truncates it, and then writes.
Open(t, a) ==
    /\ Storable(a)
    /\ value' = [value EXCEPT ![t] = a]
    /\ file' = [file EXCEPT ![want[t]] = "part"]
    /\ entry' = [entry EXCEPT ![want[t]] = NoAnswer]
    /\ age' = [age EXCEPT ![want[t]] = 0]
    /\ Goto(t, "write")
    /\ Unanswered
    /\ UNCHANGED <<writer, holder, want, seen, crashes>>

\* An OSError of the open: the value is returned all the same.
Unwritable(t, a) ==
    /\ Storable(a)
    /\ Return(t, a, -1)
    /\ Release(t)
    /\ UNCHANGED <<diskVars, crashes>>

Fetch(t, a) ==
    /\ pc[t] = "fetch"
    /\ FetchFailed(t, a) \/ Open(t, a) \/ Unwritable(t, a)

\* Another process may have written since this one truncated; a shorter text
\* over a longer one leaves the tail of it.
Write(t, garbles) ==
    /\ pc[t] = "write"
    /\ garbles => file[want[t]] # "part"
    /\ file' = [file EXCEPT ![want[t]] = IF garbles THEN "garbled" ELSE "whole"]
    /\ entry' = [entry EXCEPT ![want[t]] = IF garbles THEN NoAnswer ELSE value[t]]
    /\ age' = [age EXCEPT ![want[t]] = 0]
    /\ writer' = [writer EXCEPT ![want[t]] = Home[t]]
    /\ Return(t, value[t], -1)
    /\ Release(t)
    /\ UNCHANGED crashes

\* An OSError of the write (the disk is full): the value is returned all the
\* same, and what was written before it, if anything, stays in the file.
WriteFails(t, spoils) ==
    /\ pc[t] = "write"
    /\ IF spoils
         THEN /\ file' = [file EXCEPT ![want[t]] = IF @ = "part" THEN @ ELSE "garbled"]
              /\ entry' = [entry EXCEPT ![want[t]] = NoAnswer]
              /\ age' = [age EXCEPT ![want[t]] = 0]
         ELSE UNCHANGED <<file, entry, age>>
    /\ Return(t, value[t], -1)
    /\ Release(t)
    /\ UNCHANGED <<writer, crashes>>

Tick ==
    /\ age' = [k \in Keys |-> IF age[k] < MaxAge THEN age[k] + 1 ELSE age[k]]
    /\ Unanswered
    /\ UNCHANGED <<file, entry, writer, holder, threadVars, crashes>>

\* The process dies: its threads and its locks are gone, files stay as they are.
Crash(p) ==
    /\ crashes < MaxCrashes
    /\ crashes' = crashes + 1
    /\ holder' = [holder EXCEPT ![p] = [k \in Keys |-> NoThread]]
    /\ pc' = [t \in Threads |-> IF Home[t] = p THEN "idle" ELSE pc[t]]
    /\ seen' = [t \in Threads |-> IF Home[t] = p THEN 0 ELSE seen[t]]
    /\ value' = [t \in Threads |-> IF Home[t] = p THEN NoAnswer ELSE value[t]]
    /\ want' = [t \in Threads |-> IF Home[t] = p THEN NoKey ELSE want[t]]
    /\ Unanswered
    /\ UNCHANGED diskVars

FetchedFor == [k \in Keys |-> UNION {Fetched[tool] : tool \in ToolsOf[k]}]

Inside(t) ==
    \/ Stat(t) \/ Hit(t) \/ Miss(t)
    \/ \E garbles \in BOOLEAN : Write(t, garbles)
    \/ \E spoils \in BOOLEAN : WriteFails(t, spoils)
    \/ pc[t] = "fetch" /\ \E a \in FetchedFor[want[t]] : Fetch(t, a)

Next ==
    \/ \E t \in Threads :
          \/ Inside(t)
          \/ Acquire(t)
          \/ \E k \in Keys : Call(t, k)
    \/ \E p \in Processes : Crash(p)
    \/ Tick

Spec == Init /\ [][Next]_vars

\* Threads that are not waiting go on, requests have timeouts, and a lock that
\* is released again and again is some time given to each thread waiting for it.
FairSpec ==
    /\ Spec
    /\ \A t \in Threads : WF_vars(Inside(t)) /\ SF_vars(Acquire(t))

----------------------------------------------------------------------------
Places == {"idle", "look", "read", "wait", "fetch", "write"}
InLock(t) == pc[t] \in {"fetch", "write"}

\* The types of the variables.
CacheTypeOK ==
    /\ file \in [Keys -> {"absent", "part", "whole", "garbled"}]
    /\ entry \in [Keys -> Answers \cup {NoAnswer}]
    /\ age \in [Keys -> 0 .. MaxAge]
    /\ writer \in [Keys -> Processes]
    /\ holder \in [Processes -> [Keys -> Threads \cup {NoThread}]]
    /\ pc \in [Threads -> Places]
    /\ want \in [Threads -> Keys \cup {NoKey}]
    /\ seen \in [Threads -> 0 .. MaxAge]
    /\ value \in [Threads -> Answers \cup {NoAnswer}]
    /\ reply \in [by : Threads \cup {NoThread}, key : Keys \cup {NoKey},
                  kind : Kinds \cup {"none"}, age : -1 .. MaxAge]
    /\ crashes \in 0 .. MaxCrashes

\* cache.py:44: parallel agents that miss the same key make one upstream fetch
\* between them.  In one process no two threads are at work on a key, and the
\* one that fetches it has not been overtaken: a live entry can only have come
\* from another process.
OneFetchPerKey ==
    \A t \in Threads : pc[t] = "fetch" =>
        /\ \A u \in Threads \ {t} :
              ~(InLock(u) /\ Home[u] = Home[t] /\ want[u] = want[t])
        /\ Live(want[t]) => writer[want[t]] # Home[t]

\* A failure is never stored (cache.py:92), and no answer that no service
\* contributed to either, except by the tools that swallow their errors.
Swallowing == {"flights", "forecast", "normals"}
OutageIsForgotten ==
    \A k \in Keys : file[k] = "whole" =>
        /\ Storable(entry[k])
        /\ entry[k].blind => ToolsOf[k] \cap Swallowing # {}

\* cache.py:92: "A failure is never stored", as "the API is down" is not a real
\* answer, for the tools of OutageIsForgotten's exception too.
OutageNotStored == \A k \in Keys : file[k] = "whole" => ~entry[k].blind

\* Every call returns, whatever its producer does, whoever else fetches the key.
CallReturns ==
    \A t \in Threads : pc[t] # "idle" ~> pc[t] = "idle"

\* cache.py:92-94: an empty result "IS stored, briefly", which TTL_EMPTY is for.
\* TLC refutes it: an empty answer is served for as long as any other.
EmptyIsBrief == reply.kind = "absent" => reply.age < EmptyTtl

\* What callers get is CacheContract, in which files are whole or absent, and a
\* reader is one who has noted an age.
Contract == INSTANCE CacheContract WITH
    store <- [k \in Keys |-> IF file[k] = "whole" THEN entry[k] ELSE NoAnswer],
    looks <- [t \in Threads |-> IF pc[t] = "read"
                                THEN [key |-> want[t], age |-> seen[t]]
                                ELSE [key |-> NoKey, age |-> -1]]
ImplementsContract == Contract!Spec
=============================================================================
