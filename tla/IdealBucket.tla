---------------------------- MODULE IdealBucket ----------------------------
(***************************************************************************)
(* What the token buckets of gateway/buckets.py stand for: for each key a  *)
(* level that a timer raises by Rate at every unit of time, up to the      *)
(* burst size, out of which a charge is drawn whole or not at all and into *)
(* which nothing is returned that was not drawn.                           *)
(*                                                                         *)
(* The code has no timer, no level and no record of what was drawn: it     *)
(* stores a number and a time per key and works the level out when it is   *)
(* asked (buckets.py, 30-32).  Here is neither a request nor a crash: to a  *)
(* key, a refused request and a restart of the gateway are nothing at all. *)
(***************************************************************************)
EXTENDS Integers

CONSTANTS
    Keys,
    Capacity, Rate, \* of each key
    Costs           \* what a draw may be

VARIABLES
    level, \* what a key can spend now
    drawn  \* what it has drawn and not returned

vars == <<level, drawn>>

Least(a, b) == IF a =< b THEN a ELSE b

Init ==
    /\ level = [k \in Keys |-> Capacity[k]]
    /\ drawn = [k \in Keys |-> 0]

Refill ==
    /\ UNCHANGED drawn
    /\ level' = [k \in Keys |-> Least(Capacity[k], level[k] + Rate[k])]

Draw(k, c) ==
    /\ drawn' = [drawn EXCEPT ![k] = @ + c]
    /\ c =< level[k]
    /\ level' = [level EXCEPT ![k] = @ - c]

Return(k, c) ==
    /\ c =< drawn[k]
    /\ drawn' = [drawn EXCEPT ![k] = @ - c]
    /\ level' = [level EXCEPT ![k] = Least(Capacity[k], @ + c)]

Next ==
    \/ Refill
    \/ \E k \in Keys, c \in Costs : Draw(k, c) \/ Return(k, c)

Spec == Init /\ [][Next]_vars
=============================================================================
