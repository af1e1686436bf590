------------------------------- MODULE Costs -------------------------------
(***************************************************************************)
(* What a trip request may ask for (scope.py) and what the plan costs      *)
(* (costs.py).  Days are numbered, money is in whole units, and a list of  *)
(* prices is given in ascending order: pick() is the only one to look, and *)
(* sorts first.  None stands for Python's, NotADate for a date that does   *)
(* not parse.                                                              *)
(***************************************************************************)
EXTENDS Integers, Sequences

CONSTANTS
    None, NotADate,
    Today,
    MaxDaysAhead, MinNights, MaxNights, MaxTravelers, DefaultTravelers

ASSUME CostsAssumption ==
    /\ None \notin Int /\ NotADate \notin Int /\ None # NotADate
    /\ Today \in Int
    /\ MaxDaysAhead \in Nat /\ MinNights \in Nat /\ MaxNights \in Nat
    /\ MaxTravelers \in Nat \ {0} /\ DefaultTravelers \in 1 .. MaxTravelers
    /\ MinNights <= MaxNights

Larger(a, b) == IF a >= b THEN a ELSE b
Smaller(a, b) == IF a <= b THEN a ELSE b

----------------------------------------------------------------------------
(* scope.py *)

\* The text fields are place names (validate_text).
Named(ask) == ask.origin = "place" /\ ask.destination = "place"

Accepted(ask) ==
    /\ Named(ask)
    /\ ask.start # NotADate /\ ask.start >= Today
    /\ ask.start - Today <= MaxDaysAhead
    /\ ask.end # None =>
         /\ ask.end # NotADate /\ ask.end >= ask.start
         /\ ask.end - ask.start <= MaxNights
    /\ ask.travelers # None => ask.travelers \in 1 .. MaxTravelers

ClampedMutant(nights) == Larger(MinNights, nights)

Clamped(nights) == Larger(MinNights, Smaller(nights, MaxNights))

\* advised is the answer of _recommend_nights, used when no length was stated.
Resolve(ask, advised) ==
    [start     |-> ask.start,
     end       |-> IF ask.end # None THEN ask.end
                   ELSE ask.start + Clamped(IF ask.nights = None THEN advised ELSE ask.nights),
     travelers |-> IF ask.travelers = None THEN DefaultTravelers ELSE ask.travelers,
     budget    |-> ask.budget,
     assumed   |-> ask.end = None /\ ask.nights = None]

----------------------------------------------------------------------------
(* costs.py *)

Nights(req) == Larger(req.end - req.start, 0)

TierForMutant(req) == "mid"

TierFor(req) == IF req.budget # None THEN "cheapest" ELSE "mid"

Pick(prices, tier) ==
    IF prices = <<>> THEN None
    ELSE prices[IF tier = "mid" THEN Len(prices) \div 2 + 1 ELSE 1]

Times(price, n) == IF price = None THEN None ELSE price * n

\* Fares are per person, rates for the party: None is an agent that failed.
FlightTotal(flight, req, tier) ==
    IF flight = None THEN None ELSE Times(Pick(flight, tier), req.travelers)

LodgingTotal(hotels, req, tier) ==
    IF hotels = None THEN None ELSE Times(Pick(hotels, tier), Nights(req))

ActivitiesTotal(itinerary, req) ==
    IF itinerary = None \/ itinerary.days = <<>> THEN None
    ELSE itinerary.perPerson * req.travelers

OrZero(total) == IF total = None THEN 0 ELSE total

\* activity_allowance: judged at the floor, whatever tier the plan is costed at;
\* without a budget there is no cap.
Allowance(req, flight, hotels) ==
    LET flights == FlightTotal(flight, req, "cheapest")
        lodging == LodgingTotal(hotels, req, "cheapest")
        remaining == req.budget - (OrZero(flights) + OrZero(lodging))
    IN  IF req.budget = None THEN [remaining |-> None, feasible |-> "unknown"]
        ELSE [remaining |-> remaining,
              feasible  |-> IF None \in {flights, lodging} THEN "unknown"
                            ELSE IF remaining >= 0 THEN "yes" ELSE "no"]

\* compute_breakdown
Breakdown(req, flight, hotels, itinerary) ==
    LET flights == FlightTotal(flight, req, TierFor(req))
        lodging == LodgingTotal(hotels, req, TierFor(req))
        activities == ActivitiesTotal(itinerary, req)
        totals == [flights |-> flights, lodging |-> lodging, activities |-> activities]
        subtotal == OrZero(flights) + OrZero(lodging) + OrZero(activities)
    IN  [flights    |-> OrZero(flights),
         lodging    |-> OrZero(lodging),
         activities |-> OrZero(activities),
         subtotal   |-> subtotal,
         budget     |-> req.budget,
         overUnder  |-> IF req.budget = None THEN None ELSE subtotal - req.budget,
         feasible   |-> Allowance(req, flight, hotels).feasible,
         missing    |-> {agent \in DOMAIN totals : totals[agent] = None}]
=============================================================================
