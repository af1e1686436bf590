------------------------------- MODULE Hours -------------------------------
(***************************************************************************)
(* Reading an OpenStreetMap opening_hours tag for "is it closed on this    *)
(* weekday?" (hours.py): "closed", "open", or "unknown".                   *)
(*                                                                         *)
(* A tag is the sequence of its rules, which ";" separates.  A rule names  *)
(* spans of weekdays <<from, to>> (a single day is <<d, d>>), has times of *)
(* day or not, says off or not, and may be for public holidays.            *)
(***************************************************************************)
EXTENDS Integers, Sequences

Weekdays == 0 .. 6

Rule(spans, times, off, holiday) ==
    [spans |-> spans, times |-> times, off |-> off, holiday |-> holiday]

DaysInMutant(rule) == {d \in Weekdays : \E s \in rule.spans : s[1] <= d /\ d <= s[2]}

\* Spans wrap: Fr-Mo.
DaysIn(rule) ==
    {d \in Weekdays : \E s \in rule.spans :
        IF s[1] <= s[2] THEN s[1] <= d /\ d <= s[2] ELSE s[1] <= d \/ d <= s[2]}

\* The rules closed_on reads: neither holidays' nor empty of off and times.
Read(tag) == {i \in DOMAIN tag : ~tag[i].holiday /\ (tag[i].off \/ tag[i].times)}

OffRules(tag) == {i \in Read(tag) : tag[i].off}

OpenRules(tag) == Read(tag) \ OffRules(tag)

\* Times without a weekday are for every day.
OpenDays(rule) == IF DaysIn(rule) = {} THEN Weekdays ELSE DaysIn(rule)

ClosedOn(tag, day) ==
    LET closedDays == UNION {DaysIn(tag[i]) : i \in OffRules(tag)}
        openDays == UNION {OpenDays(tag[i]) : i \in OpenRules(tag)}
    IN  IF Read(tag) = {} \/ \E i \in OffRules(tag) : DaysIn(tag[i]) = {} THEN "unknown"
        ELSE IF day \in closedDays \/ (openDays # {} /\ day \notin openDays) THEN "closed"
        ELSE "open"

----------------------------------------------------------------------------
(* What a tag means, for the tags that name the days they are off, after   *)
(* they say when the place is open and not in the same rule: the last rule *)
(* that names the day decides, and a day no rule names is closed.          *)

Covered(tag) ==
    /\ \A i \in OffRules(tag) : ~tag[i].times /\ tag[i].spans # {}
    /\ \A i \in OffRules(tag), j \in OpenRules(tag) : j < i

Names(rule, day) ==
    rule.spans = {} \/ \E s \in rule.spans : (day - s[1]) % 7 <= (s[2] - s[1]) % 7

OpenByTag(tag, day) ==
    \E i \in OpenRules(tag) :
        /\ Names(tag[i], day)
        /\ \A j \in Read(tag) : j > i /\ Names(tag[j], day) => ~tag[j].off
=============================================================================
