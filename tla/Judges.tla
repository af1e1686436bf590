------------------------------- MODULE Judges -------------------------------
(***************************************************************************)
(* The two judges of a plan: the checks of a run (verify.py), whose        *)
(* findings are the plan's warnings, and the scorers of the evals          *)
(* (evals/scorers.py), which read the finished state.                      *)
(*                                                                         *)
(* An itinerary is the sequence of its days, each with a date and the      *)
(* names it visits; which of them the model priced above zero; and the sum *)
(* of the prices.  Names are compared as _norm leaves them.                *)
(***************************************************************************)
EXTENDS Costs, Hours

CONSTANTS
    Meals,    \* the places that is_meal() counts as food, by kind or category
    Apart     \* the pairs of places more than MAX_DAY_SPREAD_KM apart

TripDays(req) == req.start .. req.end

DatesOf(itinerary) == [i \in DOMAIN itinerary.days |-> itinerary.days[i].date]

\* The days whose date parses.
Parsed(itinerary) == {i \in DOMAIN itinerary.days : itinerary.days[i].date # NotADate}

DatesAt(itinerary, days) == {itinerary.days[i].date : i \in days}

Ascending(dates, days) == \A i, j \in days : i < j => dates[i] <= dates[j]

Repeats(dates, days) == \E i, j \in days : i # j /\ dates[i] = dates[j]

\* Every visit of the trip, with where it stands in the plan.
Visits(itinerary) ==
    UNION {{<<i, k>> : k \in DOMAIN itinerary.days[i].visits} : i \in DOMAIN itinerary.days}

NameOf(itinerary, v) == itinerary.days[v[1]].visits[v[2]]
DateOf(itinerary, v) == itinerary.days[v[1]].date

RepeatedNames(itinerary) ==
    \E v, w \in Visits(itinerary) :
        v # w /\ NameOf(itinerary, v) = NameOf(itinerary, w)

----------------------------------------------------------------------------
(* verify.py *)

MissingMutant(itinerary, req) ==
    (req.start .. req.end - 1) \ DatesAt(itinerary, Parsed(itinerary)) # {}

MissingDays(itinerary, req) == TripDays(req) \ DatesAt(itinerary, Parsed(itinerary)) # {}

DateProblems(itinerary, req) ==
    LET dates == DatesOf(itinerary)
        parsed == Parsed(itinerary)
        problem ==
          [unparseable |-> parsed # DOMAIN dates,
           duplicate   |-> Repeats(dates, parsed),
           outside     |-> DatesAt(itinerary, parsed) \ TripDays(req) # {},
           missing     |-> MissingDays(itinerary, req),
           unordered   |-> ~Ascending(dates, parsed)]
    IN  {p \in DOMAIN problem : problem[p]}

\* places maps the candidates of the trip to their opening_hours tags.
VisitProblems(itinerary, places) ==
    LET visits == Visits(itinerary)
        known == DOMAIN places
        found == {v \in visits : NameOf(itinerary, v) \in known}
        place(v) == NameOf(itinerary, v)
        problem ==
          [repeat     |-> RepeatedNames(itinerary),
           pricedMeal |-> \E v \in found : place(v) \in itinerary.priced \cap Meals,
           closed     |-> \E v \in found :
                             /\ DateOf(itinerary, v) # NotADate
                             /\ ClosedOn(places[place(v)], DateOf(itinerary, v) % 7) = "closed",
           spread     |-> \E v, w \in found : v[1] = w[1] /\ {place(v), place(w)} \in Apart,
           unverified |-> known # {} /\ found # visits]
    IN  {p \in DOMAIN problem : problem[p]}

VerifyItinerary(itinerary, req, places) ==
    IF itinerary.days = <<>> THEN {"empty"}
    ELSE DateProblems(itinerary, req) \cup VisitProblems(itinerary, places)

\* The activities against what is left for them: spending nothing breaks no cap.
VerifyBudgetCap(breakdown, allowance) ==
    IF allowance.remaining # None /\ breakdown.activities > 0
          /\ (allowance.remaining <= 0 \/ breakdown.activities > allowance.remaining)
      THEN {"cap"} ELSE {}

\* verify_breakdown_arithmetic
VerifyArithmetic(breakdown) ==
    IF \/ breakdown.flights + breakdown.lodging + breakdown.activities # breakdown.subtotal
       \/ /\ breakdown.overUnder # None
          /\ breakdown.overUnder # breakdown.subtotal - breakdown.budget
      THEN {"arithmetic"} ELSE {}

----------------------------------------------------------------------------
(* evals/scorers.py: TRUE is a passed score *)

\* `got` holds the dates as text: those that do not parse are outside the trip.
ScoreDayCoverage(itinerary, req) ==
    LET got == DatesOf(itinerary)
        days == DOMAIN itinerary.days
    IN  /\ itinerary.days # <<>>
        /\ ~Repeats(got, days)
        /\ Parsed(itinerary) = days
        /\ Ascending(got, days)
        /\ DatesAt(itinerary, days) = TripDays(req)

ScoreNoDuplicates(itinerary) ==
    itinerary.days # <<>> /\ ~RepeatedNames(itinerary)

\* Against the evidence of the run that is scored; without any, nothing can be
\* assessed.
ScoreGroundedness(itinerary, evidence) ==
    /\ itinerary.days # <<>>
    /\ evidence # {} =>
         /\ Visits(itinerary) # {}
         /\ \A v \in Visits(itinerary) : NameOf(itinerary, v) \in evidence

ScoreAllowance(breakdown, allowance) ==
    allowance.remaining # None =>
        IF allowance.feasible = "no" THEN breakdown.activities = 0
        ELSE breakdown.activities <= Larger(allowance.remaining, 0)
=============================================================================
