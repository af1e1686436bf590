--------------------------- MODULE CacheContract ---------------------------
(***************************************************************************)
(* What the callers of cached() get.  A stored answer appears as a whole   *)
(* or not at all, and only what may be stored ever does.  A caller gets    *)
(* either an answer made for it, or a stored one: it notes the age of a    *)
(* live entry and is then given what is stored under the key, which is     *)
(* that entry or one written since.                                        *)
(*                                                                         *)
(* This is less than the docstring of cached() says.  An empty answer      *)
(* lives as long as any other, not "briefly"; and the age that comes with  *)
(* an answer may be that of the entry before it.                           *)
(***************************************************************************)
EXTENDS Integers

CONSTANTS Keys, NoKey, Threads, NoThread, Ttl

VARIABLES
    store, age,   \* per key: what is stored, and for how long
    looks,        \* per caller: the entry whose age it has noted
    reply         \* the answer given to a caller in the last step

NoAnswer == [kind |-> "none", blind |-> FALSE]
NoReply == [by |-> NoThread, key |-> NoKey, kind |-> "none", age |-> -1]
NoLook == [key |-> NoKey, age |-> -1]

Init ==
    /\ store = [k \in Keys |-> NoAnswer]
    /\ age \in [Keys -> Int]
    /\ looks = [t \in Threads |-> NoLook]
    /\ reply = NoReply

\* A caller notes the age of an entry, if it is not too old.
Note(t, k) ==
    /\ age[k] < Ttl[k]
    /\ looks' = [looks EXCEPT ![t] = [key |-> k, age |-> age[k]]]
    /\ reply' = NoReply
    /\ UNCHANGED <<store, age>>

\* It leaves with what is stored, and the age it noted.
Serve(t, k) ==
    /\ looks[t].key = k /\ store[k] # NoAnswer
    /\ reply' = [by |-> t, key |-> k, kind |-> store[k].kind, age |-> looks[t].age]
    /\ looks' = [looks EXCEPT ![t] = NoLook]
    /\ UNCHANGED <<store, age>>

\* A caller leaves with an answer made for it; one that may be stored takes the
\* place of the entry, or is lost on the way to the disk.
Make(t, k) ==
    /\ reply' = [by |-> t, key |-> k, kind |-> reply'.kind, age |-> -1]
    /\ \/ UNCHANGED <<store, age>>
       \/ /\ reply'.kind \notin {"failed", "raises"}
          /\ store' = [store EXCEPT ![k] = store'[k]]
          /\ store'[k].kind \in {reply'.kind, "none"}
          /\ age' = [age EXCEPT ![k] = 0]
    /\ UNCHANGED looks

\* Entries disappear, and time passes.
Lose(k) ==
    /\ store' = [store EXCEPT ![k] = NoAnswer]
    /\ age' = [age EXCEPT ![k] = 0]
    /\ reply' = NoReply
    /\ UNCHANGED looks

Pass ==
    /\ \A k \in Keys : age'[k] \in {age[k], age[k] + 1}
    /\ age' = [k \in Keys |-> age'[k]]
    /\ reply' = NoReply
    /\ UNCHANGED <<store, looks>>

\* Nothing happens, or callers that have noted an age find nothing after all, or die
\* with their process.
Forget ==
    /\ looks' = [t \in Threads |-> looks'[t]]
    /\ \A t \in Threads : looks'[t] \in {looks[t], NoLook}
    /\ reply' = NoReply
    /\ UNCHANGED <<store, age>>

Next ==
    \/ \E t \in Threads, k \in Keys : Note(t, k) \/ Serve(t, k) \/ Make(t, k)
    \/ \E k \in Keys : Lose(k)
    \/ Pass \/ Forget

Spec == Init /\ [][Next]_<<store, age, looks, reply>>
=============================================================================
