---------------------------- MODULE ChecksProofs ----------------------------
(***************************************************************************)
(* Proofs about PlanChecks, for any requests, prices, catalogues and       *)
(* itineraries: an accepted request stays acceptable, the two judges of a  *)
(* plan agree, and an overrun of the budget is explained.                  *)
(***************************************************************************)
EXTENDS PlanChecks, TLAPS

----------------------------------------------------------------------------
(* What holds of every request that was accepted *)

\* The dates lie in the range that scope.py accepts and are in order.
LEMMA AcceptedDates ==
    ASSUME NEW req \in Requests
    PROVE  /\ req.start \in Int /\ req.start >= Today /\ req.start - Today <= MaxDaysAhead
           /\ req.end \in Int /\ req.end >= req.start /\ req.end - req.start <= MaxNights
<1>1. PICK a \in Asks : Accepted(a) /\ \E advised \in MinNights .. MaxNights : req = Resolve(a, advised)
  BY DEF Requests
<1>2. PICK advised \in MinNights .. MaxNights : req = Resolve(a, advised)
  BY <1>1
<1>3. /\ a.start \in Int /\ a.start >= Today /\ a.start - Today <= MaxDaysAhead
      /\ a.end # None => a.end \in Int /\ a.end >= a.start /\ a.end - a.start <= MaxNights
  BY <1>1, ChecksAssumption DEF Accepted
<1>4. ASSUME NEW n \in Int
      PROVE  Clamped(n) \in 0 .. MaxNights
  BY CostsAssumption DEF Clamped, Larger, Smaller
<1>5. a.end = None =>
        Clamped(IF a.nights = None THEN advised ELSE a.nights) \in 0 .. MaxNights
  <2>1. (IF a.nights = None THEN advised ELSE a.nights) \in Int
    BY ChecksAssumption, CostsAssumption
  <2> QED BY <1>4, <2>1
<1>6. /\ req.start = a.start
      /\ a.end # None => req.end = a.end
      /\ a.end = None =>
           req.end = a.start + Clamped(IF a.nights = None THEN advised ELSE a.nights)
  BY <1>2 DEF Resolve
<1> QED BY <1>3, <1>5, <1>6, CostsAssumption

\* The party is within range, and the budget is none or a natural number.
LEMMA AcceptedParty ==
    ASSUME NEW req \in Requests
    PROVE  /\ req.travelers \in 1 .. MaxTravelers
           /\ req.budget \in Nat \cup {None}
<1>1. PICK a \in Asks : Accepted(a) /\ \E advised \in MinNights .. MaxNights : req = Resolve(a, advised)
  BY DEF Requests
<1>2. PICK advised \in MinNights .. MaxNights : req = Resolve(a, advised)
  BY <1>1
<1>3. /\ a.travelers # None => a.travelers \in 1 .. MaxTravelers
      /\ a.budget \in Nat \cup {None}
  BY <1>1, ChecksAssumption DEF Accepted
<1>4. /\ req.travelers = IF a.travelers = None THEN DefaultTravelers ELSE a.travelers
      /\ req.budget = a.budget
  BY <1>2 DEF Resolve
<1> QED BY <1>3, <1>4, CostsAssumption

\* Stated again, an accepted request is accepted, and is the same trip.
LEMMA RestatedIsSame ==
    ASSUME NEW req \in Requests
    PROVE  /\ Accepted(Restated(req))
           /\ \A advised \in MinNights .. MaxNights :
                 ThreadId(Resolve(Restated(req), advised)) = ThreadId(req)
           /\ Nights(req) = req.end - req.start
<1>1. /\ req.start # NotADate /\ req.end # NotADate /\ req.end # None /\ req.travelers # None
  BY AcceptedDates, AcceptedParty, CostsAssumption
<1>2. Accepted(Restated(req))
  BY <1>1, AcceptedDates, AcceptedParty DEF Accepted, Named, Restated
<1>3. ASSUME NEW advised \in MinNights .. MaxNights
      PROVE  ThreadId(Resolve(Restated(req), advised)) = ThreadId(req)
  BY <1>1 DEF ThreadId, Resolve, Restated
<1>4. Nights(req) = req.end - req.start
  BY AcceptedDates DEF Nights, Larger
<1> QED BY <1>2, <1>3, <1>4

----------------------------------------------------------------------------
(* What the budget's checks say, of any prices *)

LEMMA PickedIsPrice ==
    ASSUME NEW prices \in FareLists \cup RateLists, NEW tier
    PROVE  Pick(prices, tier) \in Nat \cup {None}
<1>1. prices \in Seq(Nat \ {0})
  BY ChecksAssumption
<1>2. CASE prices = <<>>
  BY <1>2 DEF Pick
<1>3. CASE prices # <<>>
  <2>1. Len(prices) \in Nat \ {0}
    BY <1>1, <1>3
  <2>2. (IF tier = "mid" THEN Len(prices) \div 2 + 1 ELSE 1) \in 1 .. Len(prices)
    BY <2>1
  <2> QED BY <1>1, <1>3, <2>2 DEF Pick
<1> QED BY <1>2, <1>3

LEMMA TimesIsNat ==
    ASSUME NEW price \in Nat \cup {None}, NEW n \in Nat
    PROVE  Times(price, n) \in Nat \cup {None}
BY DEF Times

\* The totals are natural numbers, or none.
LEMMA TotalsAreNat ==
    ASSUME NEW req \in Requests, NEW tier,
           NEW fl \in FareLists \cup {None}, NEW ho \in RateLists \cup {None},
           NEW it, it = None \/ it.perPerson \in Nat
    PROVE  /\ FlightTotal(fl, req, tier) \in Nat \cup {None}
           /\ LodgingTotal(ho, req, tier) \in Nat \cup {None}
           /\ ActivitiesTotal(it, req) \in Nat \cup {None}
<1>1. req.travelers \in Nat /\ Nights(req) \in Nat
  BY AcceptedParty, AcceptedDates, RestatedIsSame, CostsAssumption
<1>2. FlightTotal(fl, req, tier) \in Nat \cup {None}
  BY <1>1, PickedIsPrice, TimesIsNat DEF FlightTotal
<1>3. LodgingTotal(ho, req, tier) \in Nat \cup {None}
  BY <1>1, PickedIsPrice, TimesIsNat DEF LodgingTotal
<1>4. ActivitiesTotal(it, req) \in Nat \cup {None}
  BY <1>1 DEF ActivitiesTotal
<1> QED BY <1>2, <1>3, <1>4

\* With a budget the plan is costed at the floor that the allowance is judged
\* at, so an overrun is the activities', or that of the floor itself.
LEMMA OverrunExplained ==
    ASSUME NEW req \in Requests, req.budget # None,
           NEW fl \in FareLists \cup {None}, NEW ho \in RateLists \cup {None},
           NEW it, it = None \/ it.perPerson \in Nat,
           NEW b, b = Breakdown(req, fl, ho, it),
           NEW left, left = Allowance(req, fl, ho)
    PROVE  /\ b.overUnder > 0
                <=> VerifyBudgetCap(b, left) # {} \/ (b.activities = 0 /\ left.remaining < 0)
           /\ b.feasible = "no" => b.overUnder > 0
           /\ b.overUnder > 0 /\ b.activities = 0
                => b.feasible = "no" \/ b.missing \cap {"flights", "lodging"} # {}
           /\ VerifyArithmetic(b) = {}
<1> DEFINE flights == FlightTotal(fl, req, "cheapest")
           lodging == LodgingTotal(ho, req, "cheapest")
           activities == ActivitiesTotal(it, req)
           spent == OrZero(flights) + OrZero(lodging)
<1>1. /\ flights \in Nat \cup {None}
      /\ lodging \in Nat \cup {None}
      /\ activities \in Nat \cup {None}
  BY TotalsAreNat
<1>2. req.budget \in Nat
  BY AcceptedParty
<1>3. TierFor(req) = "cheapest"
  BY DEF TierFor
<1> HIDE DEF flights, lodging, activities
<1>4. /\ OrZero(flights) \in Nat
      /\ OrZero(lodging) \in Nat
      /\ OrZero(activities) \in Nat
  BY <1>1 DEF OrZero
<1>5. left = [remaining |-> req.budget - spent,
              feasible  |-> IF None \in {flights, lodging} THEN "unknown"
                            ELSE IF req.budget - spent >= 0 THEN "yes" ELSE "no"]
  BY Zenon DEF Allowance, flights, lodging
<1>6. /\ left.remaining = req.budget - spent
      /\ left.feasible = IF None \in {flights, lodging} THEN "unknown"
                         ELSE IF req.budget - spent >= 0 THEN "yes" ELSE "no"
  BY <1>5
<1>7. /\ b.flights = OrZero(flights)
      /\ b.lodging = OrZero(lodging)
      /\ b.activities = OrZero(activities)
      /\ b.subtotal = spent + OrZero(activities)
      /\ b.budget = req.budget
      /\ b.overUnder = (spent + OrZero(activities)) - req.budget
      /\ b.feasible = left.feasible
  <2>1. b.flights = OrZero(flights) /\ b.lodging = OrZero(lodging)
    BY <1>3 DEF Breakdown, flights, lodging
  <2>2. b.activities = OrZero(activities) /\ b.budget = req.budget
    BY DEF Breakdown, activities
  <2>3. b.subtotal = spent + OrZero(activities)
    BY <1>3 DEF Breakdown, flights, lodging, activities
  <2>4. b.overUnder = (spent + OrZero(activities)) - req.budget
    <3>1. b.overUnder = IF req.budget = None THEN None
                        ELSE (spent + OrZero(activities)) - req.budget
      BY <1>3 DEF Breakdown, flights, lodging, activities
    <3> QED BY <3>1
  <2>5. b.feasible = left.feasible
    BY DEF Breakdown
  <2> QED BY <2>1, <2>2, <2>3, <2>4, <2>5
<1>8. /\ "flights" \in b.missing <=> None = flights
      /\ "lodging" \in b.missing <=> None = lodging
  <2> DEFINE totals == [flights |-> flights, lodging |-> lodging, activities |-> activities]
  <2>1. b.missing = {agent \in DOMAIN totals : totals[agent] = None}
    BY <1>3 DEF Breakdown, flights, lodging, activities
  <2> QED BY <2>1
<1> HIDE DEF spent
<1>9. spent \in Nat
  BY <1>4 DEF spent
<1>10. VerifyBudgetCap(b, left) # {}
         <=> b.activities > 0 /\ (left.remaining <= 0 \/ b.activities > left.remaining)
  <2>1. left.remaining # None
    BY <1>2, <1>6, <1>9, CostsAssumption
  <2> QED BY <2>1 DEF VerifyBudgetCap
<1>11. VerifyArithmetic(b) = {}
  BY <1>2, <1>4, <1>7, <1>9 DEF VerifyArithmetic, spent
<1>12. b.overUnder > 0
         <=> VerifyBudgetCap(b, left) # {} \/ (b.activities = 0 /\ left.remaining < 0)
  BY <1>2, <1>4, <1>6, <1>7, <1>9, <1>10
<1>13. b.feasible = "no" => b.overUnder > 0
  BY <1>2, <1>4, <1>6, <1>7, <1>9
<1>14. b.overUnder > 0 /\ b.activities = 0
         => b.feasible = "no" \/ b.missing \cap {"flights", "lodging"} # {}
  <2> SUFFICES ASSUME b.overUnder > 0, b.activities = 0, b.feasible # "no"
               PROVE  b.missing \cap {"flights", "lodging"} # {}
    OBVIOUS
  <2>1. req.budget - spent < 0
    BY <1>2, <1>4, <1>7, <1>9
  <2>2. None \in {flights, lodging}
    BY <1>2, <1>6, <1>7, <1>9, <2>1
  <2> QED BY <1>8, <2>2
<1> QED BY <1>11, <1>12, <1>13, <1>14

----------------------------------------------------------------------------
(* The judges of the dates, the names and the cap *)

DateKinds == {"unparseable", "duplicate", "outside", "missing", "unordered"}

VisitKinds == {"repeat", "pricedMeal", "closed", "spread", "unverified"}

\* The check finds fault with the dates exactly when the scorer does, although
\* it looks only at those that parse.
LEMMA DatesAgree ==
    ASSUME NEW it, NEW req
    PROVE  /\ DateProblems(it, req) \subseteq DateKinds
           /\ it.days # <<>> =>
                (DateProblems(it, req) # {} <=> ~ScoreDayCoverage(it, req))
<1> DEFINE dates == DatesOf(it)
           parsed == Parsed(it)
           days == DOMAIN it.days
           problem ==
             [unparseable |-> parsed # DOMAIN dates,
              duplicate   |-> Repeats(dates, parsed),
              outside     |-> DatesAt(it, parsed) \ TripDays(req) # {},
              missing     |-> MissingDays(it, req),
              unordered   |-> ~Ascending(dates, parsed)]
<1>1. DateProblems(it, req) = {p \in DOMAIN problem : problem[p]}
  BY Zenon DEF DateProblems
<1>2. DOMAIN dates = days
  BY DEF DatesOf
<1> HIDE DEF dates, parsed, days
<1>3. DOMAIN problem = DateKinds
  BY DEF DateKinds
<1>4. DateProblems(it, req) = {} <=>
        /\ ~problem["unparseable"] /\ ~problem["duplicate"] /\ ~problem["outside"]
        /\ ~problem["missing"] /\ ~problem["unordered"]
  <2> HIDE DEF problem
  <2> QED BY <1>1, <1>3 DEF DateKinds
<1>5. DateProblems(it, req) = {} <=>
        /\ parsed = days /\ ~Repeats(dates, parsed) /\ Ascending(dates, parsed)
        /\ DatesAt(it, parsed) \subseteq TripDays(req)
        /\ TripDays(req) \subseteq DatesAt(it, parsed)
  <2>1. problem["unparseable"] <=> parsed # days
    BY <1>2
  <2>2. /\ problem["duplicate"] <=> Repeats(dates, parsed)
        /\ problem["unordered"] <=> ~Ascending(dates, parsed)
    OBVIOUS
  <2>3. problem["outside"] <=> ~(DatesAt(it, parsed) \subseteq TripDays(req))
    OBVIOUS
  <2>4. problem["missing"] <=> ~(TripDays(req) \subseteq DatesAt(it, parsed))
    BY DEF MissingDays, parsed
  <2> HIDE DEF problem
  <2> QED BY <1>4, <2>1, <2>2, <2>3, <2>4
<1>6. it.days # <<>> =>
        (ScoreDayCoverage(it, req) <=>
           /\ parsed = days /\ ~Repeats(dates, days) /\ Ascending(dates, days)
           /\ DatesAt(it, days) = TripDays(req))
  BY DEF ScoreDayCoverage, dates, parsed, days
<1>7. DateProblems(it, req) \subseteq DateKinds
  BY <1>1, <1>3
<1> QED BY <1>5, <1>6, <1>7

LEMMA VisitsAgree ==
    ASSUME NEW it, NEW found
    PROVE  /\ VisitProblems(it, found) \subseteq VisitKinds
           /\ "repeat" \in VisitProblems(it, found) <=> RepeatedNames(it)
           /\ "unverified" \in VisitProblems(it, found) <=>
                /\ DOMAIN found # {}
                /\ \E v \in Visits(it) : NameOf(it, v) \notin DOMAIN found
BY DEF VisitProblems, VisitKinds

\* What both say of an itinerary as a whole; extra are the budget's findings.
Agreement(it, req, found, extra, told) ==
    /\ told \cap {"empty", "unparseable", "duplicate", "outside", "missing", "unordered"} # {}
         <=> ~ScoreDayCoverage(it, req)
    /\ told \cap {"empty", "repeat"} # {} <=> ~ScoreNoDuplicates(it)
    /\ DOMAIN found # {} /\ ~ScoreGroundedness(it, DOMAIN found) =>
         told \cap {"empty", "unverified"} # {} \/ Visits(it) = {}
    /\ "cap" \in told <=> "cap" \in extra

LEMMA ItineraryAgree ==
    ASSUME NEW it, NEW req, NEW found, NEW extra \in SUBSET {"arithmetic", "cap"},
           NEW told, told = VerifyItinerary(it, req, found) \cup extra
    PROVE  Agreement(it, req, found, extra, told)
<1> USE DEF Agreement
<1>1. CASE it.days = <<>>
  <2>1. told = {"empty"} \cup extra
    BY <1>1 DEF VerifyItinerary
  <2>2. ~ScoreDayCoverage(it, req) /\ ~ScoreNoDuplicates(it)
    BY <1>1 DEF ScoreDayCoverage, ScoreNoDuplicates
  <2> QED BY <2>1, <2>2
<1>2. CASE it.days # <<>>
  <2> DEFINE ofDates == DateProblems(it, req)
             ofVisits == VisitProblems(it, found)
  <2>1. told = (ofDates \cup ofVisits) \cup extra
    BY <1>2 DEF VerifyItinerary
  <2>2. /\ ofDates \subseteq DateKinds
        /\ ofDates # {} <=> ~ScoreDayCoverage(it, req)
    BY <1>2, DatesAgree
  <2>3. /\ ofVisits \subseteq VisitKinds
        /\ "repeat" \in ofVisits <=> RepeatedNames(it)
        /\ "unverified" \in ofVisits <=>
             /\ DOMAIN found # {}
             /\ \E v \in Visits(it) : NameOf(it, v) \notin DOMAIN found
    BY VisitsAgree
  <2> HIDE DEF ofDates, ofVisits
  <2>4. told \cap {"empty", "unparseable", "duplicate", "outside", "missing", "unordered"} # {}
          <=> ofDates # {}
    BY <2>1, <2>2, <2>3 DEF DateKinds, VisitKinds
  <2>5. told \cap {"empty", "repeat"} # {} <=> ~ScoreNoDuplicates(it)
    <3>1. told \cap {"empty", "repeat"} # {} <=> "repeat" \in ofVisits
      BY <2>1, <2>2, <2>3 DEF DateKinds, VisitKinds
    <3> QED BY <1>2, <2>3, <3>1 DEF ScoreNoDuplicates
  <2>6. DOMAIN found # {} /\ ~ScoreGroundedness(it, DOMAIN found) =>
          told \cap {"empty", "unverified"} # {} \/ Visits(it) = {}
    BY <1>2, <2>1, <2>3 DEF ScoreGroundedness
  <2>7. "cap" \in told <=> "cap" \in extra
    BY <2>1, <2>2, <2>3 DEF DateKinds, VisitKinds
  <2> QED BY <2>2, <2>4, <2>5, <2>6, <2>7
<1> QED BY <1>1, <1>2

\* The check of the cap and its scorer agree, with a budget or without.
LEMMA CapAgrees ==
    ASSUME NEW req \in Requests,
           NEW fl \in FareLists \cup {None}, NEW ho \in RateLists \cup {None},
           NEW it, it = None \/ it.perPerson \in Nat,
           NEW b, b = Breakdown(req, fl, ho, it),
           NEW left, left = Allowance(req, fl, ho)
    PROVE  /\ "cap" \in VerifyBudgetCap(b, left) <=> ~ScoreAllowance(b, left)
           /\ VerifyBudgetCap(b, left) \subseteq {"cap"}
           /\ VerifyArithmetic(b) \subseteq {"arithmetic"}
<1>1. VerifyBudgetCap(b, left) \subseteq {"cap"} /\ VerifyArithmetic(b) \subseteq {"arithmetic"}
  BY DEF VerifyBudgetCap, VerifyArithmetic
<1>2. b.activities \in Nat
  <2>1. ActivitiesTotal(it, req) \in Nat \cup {None}
    BY TotalsAreNat
  <2>2. b.activities = OrZero(ActivitiesTotal(it, req))
    BY DEF Breakdown
  <2> QED BY <2>1, <2>2 DEF OrZero
<1>3. CASE req.budget = None
  <2>1. left.remaining = None
    BY <1>3 DEF Allowance
  <2> QED BY <1>1, <2>1 DEF VerifyBudgetCap, ScoreAllowance
<1>4. CASE req.budget # None
  <2>1. left.remaining \in Int /\ (left.feasible = "no" => left.remaining < 0)
    <3> DEFINE flights == FlightTotal(fl, req, "cheapest")
               lodging == LodgingTotal(ho, req, "cheapest")
               rest == req.budget - (OrZero(flights) + OrZero(lodging))
    <3>1. flights \in Nat \cup {None} /\ lodging \in Nat \cup {None}
      BY TotalsAreNat
    <3>2. rest \in Int
      BY <1>4, <3>1, AcceptedParty DEF OrZero
    <3>3. left = [remaining |-> rest,
                  feasible  |-> IF None \in {flights, lodging} THEN "unknown"
                                ELSE IF rest >= 0 THEN "yes" ELSE "no"]
      BY <1>4, Zenon DEF Allowance
    <3> HIDE DEF rest, flights, lodging
    <3> QED BY <3>2, <3>3
  <2>2. left.remaining # None
    BY <2>1, CostsAssumption
  <2>3. ScoreAllowance(b, left) <=>
          IF left.feasible = "no" THEN b.activities = 0
          ELSE b.activities <= Larger(left.remaining, 0)
    BY <2>2 DEF ScoreAllowance
  <2>4. "cap" \in VerifyBudgetCap(b, left) <=>
          b.activities > 0 /\ (left.remaining <= 0 \/ b.activities > left.remaining)
    BY <2>2 DEF VerifyBudgetCap
  <2> QED BY <1>1, <1>2, <2>1, <2>3, <2>4 DEF Larger
<1> QED BY <1>3, <1>4

----------------------------------------------------------------------------
(* The invariant *)

Dated(it) == \A i \in DOMAIN it.days : it.days[i].date \in Int \cup {NotADate}

Planning == stage \notin {"ask", "refused"}

ResultsKnown ==
    /\ flight \in FareLists \cup {None}
    /\ hotels \in RateLists \cup {None}
    /\ places \in Catalogues \cup {None}
    /\ itinerary = None \/ (itinerary.perPerson \in Nat /\ Dated(itinerary))

\* An itinerary is made from places, and from this run's if there is evidence.
ItineraryFromPlaces ==
    /\ itinerary # None => places # None
    /\ evidence # {} => evidence = DOMAIN places /\ (itinerary # None => composed)
    /\ composed => itinerary # None

Found == IF composed THEN VerifyItinerary(itinerary, request, places) ELSE {}

OfBudget ==
    IF ~reconciled THEN {}
    ELSE VerifyArithmetic(Current) \cup VerifyBudgetCap(Current, Allowance(request, flight, hotels))

\* What the run has said so far is what its checks found.
WarningsAreFindings ==
    /\ stage \in {"ask", "refused", "research", "compose"} =>
          warnings = {} /\ ~composed /\ ~reconciled
    /\ stage = "reconcile" => warnings = Found /\ ~reconciled
    /\ stage = "done" => warnings = Found \cup OfBudget /\ budget.breakdown = Current

ChecksOK ==
    /\ stage \in {"ask", "research", "compose", "reconcile", "done", "refused"}
    /\ composed \in BOOLEAN /\ reconciled \in BOOLEAN
    /\ stage = "ask" => ask \in Asks
    /\ request \in Requests \cup {None}
    /\ Planning => request \in Requests
    /\ ~Planning => request = None
    /\ ResultsKnown
    /\ ItineraryFromPlaces
    /\ WarningsAreFindings

LEMMA ChecksInit == Init => ChecksOK
BY DEF Init, ChecksOK, Planning, ResultsKnown, ItineraryFromPlaces, WarningsAreFindings

LEMMA ChecksStep == ChecksOK /\ [Next]_vars => ChecksOK'
<1> SUFFICES ASSUME ChecksOK, [Next]_vars
             PROVE  ChecksOK'
  OBVIOUS
<1> USE DEF ChecksOK
<1>1. CASE Refuse
  BY <1>1 DEF Refuse, results, Planning, ResultsKnown, ItineraryFromPlaces, WarningsAreFindings
<1>2. CASE Accept
  <2>1. request' \in Requests
    BY <1>2 DEF Accept, Requests
  <2> QED
    BY <1>2, <2>1
    DEF Accept, results, Planning, ResultsKnown, ItineraryFromPlaces, WarningsAreFindings
<1>3. CASE Research
  <2>1. /\ flight' \in FareLists \cup {None}
        /\ hotels' \in RateLists \cup {None}
        /\ places' \in Catalogues \cup {None}
        /\ places # None => places' = places
    BY <1>3, Zenon DEF Research, ResultsKnown, Answers
  <2>2. ResultsKnown'
    BY <1>3, <2>1 DEF Research, ResultsKnown
  <2>3. ItineraryFromPlaces'
    BY <1>3, <2>1 DEF Research, ItineraryFromPlaces
  <2> QED BY <1>3, <2>2, <2>3 DEF Research, Planning, WarningsAreFindings
<1>4. CASE Skip
  <2>1. WarningsAreFindings'
    BY <1>4 DEF Skip, results, WarningsAreFindings, Found
  <2> QED BY <1>4, <2>1 DEF Skip, results, Planning, ResultsKnown, ItineraryFromPlaces
<1>5. CASE Compose
  <2>1. request \in Requests
    BY <1>5 DEF Compose, Planning
  <2>2. itinerary' = None \/ (itinerary'.perPerson \in Nat /\ Dated(itinerary'))
    BY <1>5, <2>1, ChecksAssumption DEF Compose, Dated
  <2>3. ResultsKnown'
    BY <1>5, <2>2 DEF Compose, ResultsKnown
  <2>4. ItineraryFromPlaces'
    BY <1>5 DEF Compose, Blocked, ItineraryFromPlaces
  <2>5. WarningsAreFindings'
    BY <1>5 DEF Compose, WarningsAreFindings, Found
  <2> QED BY <1>5, <2>3, <2>4, <2>5 DEF Compose, Planning
<1>6. CASE KeepBudget
  <2>1. WarningsAreFindings'
    BY <1>6 DEF KeepBudget, results, Settled, WarningsAreFindings, Found, OfBudget, Current
  <2> QED BY <1>6, <2>1 DEF KeepBudget, results, Planning, ResultsKnown, ItineraryFromPlaces
<1>7. CASE Reconcile
  <2>1. PICK advised \in BOOLEAN :
          /\ budget' = [breakdown |-> Current, advised |-> advised]
          /\ reconciled' = advised
          /\ warnings' =
                IF ~advised THEN warnings
                ELSE warnings \cup VerifyArithmetic(Current)
                        \cup VerifyBudgetCap(Current, Allowance(request, flight, hotels))
    BY <1>7 DEF Reconcile
  <2>2. UNCHANGED <<request, flight, hotels, places, itinerary, composed>>
    BY <1>7 DEF Reconcile
  <2>3. Current' = Current /\ Found' = Found
    BY <2>2 DEF Current, Found
  <2>4. budget'.breakdown = Current'
    BY <2>1, <2>3
  <2>5. warnings' = Found' \cup OfBudget'
    <3>1. OfBudget' = IF ~advised THEN {}
                      ELSE VerifyArithmetic(Current)
                             \cup VerifyBudgetCap(Current, Allowance(request, flight, hotels))
      BY <2>1, <2>2, <2>3 DEF OfBudget
    <3>2. warnings = Found
      BY <1>7 DEF Reconcile, WarningsAreFindings
    <3> QED BY <2>1, <2>3, <3>1, <3>2
  <2>6. WarningsAreFindings'
    BY <1>7, <2>4, <2>5 DEF Reconcile, WarningsAreFindings
  <2> QED BY <1>7, <2>1, <2>6 DEF Reconcile, Planning, ResultsKnown, ItineraryFromPlaces
<1>8. CASE Resume
  BY <1>8 DEF Resume, results, Planning, ResultsKnown, ItineraryFromPlaces, WarningsAreFindings
<1>9. CASE UNCHANGED vars
  BY <1>9 DEF vars, results, Planning, ResultsKnown, ItineraryFromPlaces, WarningsAreFindings,
              Found, OfBudget, Current
<1> QED BY <1>1, <1>2, <1>3, <1>4, <1>5, <1>6, <1>7, <1>8, <1>9 DEF Next

LEMMA ChecksInvariant == Spec => []ChecksOK
<1>1. Init => ChecksOK
  BY ChecksInit
<1>2. ChecksOK /\ [Next]_vars => ChecksOK'
  BY ChecksStep
<1> QED BY <1>1, <1>2, PTL DEF Spec

----------------------------------------------------------------------------
(* The properties *)

\* A traveller who repeats an accepted request by its dates and party finds the
\* trip again, and scope.py does not refuse what it once resolved.
THEOREM AcceptedStaysStable == Spec => []AcceptedIsStable
<1>1. ChecksOK => AcceptedIsStable
  BY RestatedIsSame DEF ChecksOK, AcceptedIsStable
<1> QED BY <1>1, ChecksInvariant, PTL

\* verify.py and evals/scorers.py give the same verdicts on the dates, the
\* repeated and the unknown names and the cap of every plan that both judge.
THEOREM JudgesAlwaysAgree == Spec => []JudgesAgree
<1>1. ASSUME ChecksOK, stage = "done"
      PROVE  /\ composed =>
                  /\ Warned({"empty", "unparseable", "duplicate", "outside", "missing", "unordered"})
                       <=> ~ScoreDayCoverage(itinerary, request)
                  /\ Warned({"empty", "repeat"}) <=> ~ScoreNoDuplicates(itinerary)
             /\ itinerary # None /\ evidence # {} /\ ~ScoreGroundedness(itinerary, evidence) =>
                  composed /\ (Warned({"empty", "unverified"}) \/ Visits(itinerary) = {})
             /\ reconciled =>
                  (Warned({"cap"})
                     <=> ~ScoreAllowance(budget.breakdown, Allowance(request, flight, hotels)))
  <2> DEFINE left == Allowance(request, flight, hotels)
  <2>1. /\ warnings = Found \cup OfBudget
        /\ budget.breakdown = Current
        /\ request \in Requests
        /\ ResultsKnown
    BY <1>1 DEF ChecksOK, Planning, WarningsAreFindings
  <2>2. /\ "cap" \in VerifyBudgetCap(Current, left) <=> ~ScoreAllowance(Current, left)
        /\ VerifyBudgetCap(Current, left) \subseteq {"cap"}
        /\ VerifyArithmetic(Current) \subseteq {"arithmetic"}
    BY <2>1, CapAgrees DEF Current, ResultsKnown
  <2>3. OfBudget \in SUBSET {"arithmetic", "cap"}
    BY <2>2 DEF OfBudget
  <2>4. CASE composed
    <3>1. warnings = VerifyItinerary(itinerary, request, places) \cup OfBudget
      BY <2>1, <2>4 DEF Found
    <3>2. Agreement(itinerary, request, places, OfBudget, warnings)
      BY <2>3, <3>1, ItineraryAgree
    <3>3. evidence # {} => evidence = DOMAIN places
      BY <1>1 DEF ChecksOK, ItineraryFromPlaces
    <3>4. reconciled => ("cap" \in OfBudget <=> "cap" \in VerifyBudgetCap(Current, left))
      BY <2>2 DEF OfBudget
    <3>5. /\ Warned({"empty", "unparseable", "duplicate", "outside", "missing", "unordered"})
                <=> ~ScoreDayCoverage(itinerary, request)
          /\ Warned({"empty", "repeat"}) <=> ~ScoreNoDuplicates(itinerary)
          /\ evidence # {} /\ ~ScoreGroundedness(itinerary, evidence) =>
               Warned({"empty", "unverified"}) \/ Visits(itinerary) = {}
      BY <3>2, <3>3 DEF Warned, Agreement
    <3>6. reconciled => (Warned({"cap"}) <=> ~ScoreAllowance(budget.breakdown, left))
      BY <2>1, <2>2, <3>2, <3>4 DEF Warned, Agreement
    <3> QED BY <2>4, <3>5, <3>6
  <2>5. CASE ~composed
    <3>1. warnings = OfBudget
      BY <2>1, <2>5 DEF Found
    <3>2. ~(itinerary # None /\ evidence # {})
      BY <1>1, <2>5 DEF ChecksOK, ItineraryFromPlaces
    <3>3. reconciled => (Warned({"cap"}) <=> ~ScoreAllowance(budget.breakdown, left))
      BY <2>1, <2>2, <3>1 DEF Warned, OfBudget
    <3> QED BY <2>5, <3>2, <3>3
  <2> QED BY <2>4, <2>5
<1>2. ChecksOK => JudgesAgree
  BY <1>1 DEF JudgesAgree
<1> QED BY <1>2, ChecksInvariant, PTL

\* A plan over its budget says why: its activities, or travel and lodging that
\* do not fit even at the floor, for all prices and any budget.
THEOREM VerdictAlwaysExplained == Spec => []VerdictIsExplained
<1>1. ASSUME ChecksOK, stage = "done", request.budget # None
      PROVE  /\ budget.breakdown = Breakdown(request, flight, hotels, itinerary)
             /\ request \in Requests
             /\ ResultsKnown
  BY <1>1 DEF ChecksOK, Planning, WarningsAreFindings, Current
<1>2. ChecksOK => VerdictIsExplained
  BY <1>1, OverrunExplained DEF VerdictIsExplained, ResultsKnown
<1> QED BY <1>2, ChecksInvariant, PTL

----------------------------------------------------------------------------
(* Opening hours *)

\* Spans that wrap, read as closed_on reads them and as they are meant.
LEMMA DaysAreNamed ==
    ASSUME NEW rule, rule.spans \subseteq Weekdays \X Weekdays, NEW day \in Weekdays
    PROVE  /\ day \in OpenDays(rule) <=> Names(rule, day)
           /\ rule.spans # {} => (day \in DaysIn(rule) <=> Names(rule, day))
<1>1. ASSUME NEW s \in rule.spans, NEW d \in Weekdays
      PROVE  (IF s[1] <= s[2] THEN s[1] <= d /\ d <= s[2] ELSE s[1] <= d \/ d <= s[2])
               <=> (d - s[1]) % 7 <= (s[2] - s[1]) % 7
  <2>1. s[1] \in Weekdays /\ s[2] \in Weekdays
    OBVIOUS
  <2>2. ASSUME NEW a \in Weekdays, NEW b \in Weekdays
        PROVE  (a - b) % 7 = IF b <= a THEN a - b ELSE a - b + 7
    BY DEF Weekdays
  <2> QED BY <2>1, <2>2 DEF Weekdays
<1>2. ASSUME NEW d \in Weekdays
      PROVE  d \in DaysIn(rule) <=>
               \E s \in rule.spans : (d - s[1]) % 7 <= (s[2] - s[1]) % 7
  BY <1>1 DEF DaysIn
<1>3. rule.spans # {} => DaysIn(rule) # {}
  <2>1. ASSUME NEW s \in rule.spans
        PROVE  s[1] \in DaysIn(rule)
    BY DEF DaysIn, Weekdays
  <2> QED BY <2>1
<1>4. rule.spans = {} => DaysIn(rule) = {}
  BY DEF DaysIn
<1> QED BY <1>2, <1>3, <1>4 DEF OpenDays, Names

\* Of a covered tag closed_on says closed only when the tag does, and always if
\* the tag says when the place is open.
LEMMA ClosedAsTagged ==
    ASSUME NEW tag, Covered(tag),
           \A i \in DOMAIN tag : tag[i].spans \subseteq Weekdays \X Weekdays,
           NEW day \in Weekdays
    PROVE  /\ ClosedOn(tag, day) = "closed" => Read(tag) # {} /\ ~OpenByTag(tag, day)
           /\ OpenRules(tag) # {} /\ ~OpenByTag(tag, day) => ClosedOn(tag, day) = "closed"
<1> DEFINE off == \E i \in OffRules(tag) : Names(tag[i], day)
           open == \E i \in OpenRules(tag) : Names(tag[i], day)
           closedDays == UNION {DaysIn(tag[i]) : i \in OffRules(tag)}
           openDays == UNION {OpenDays(tag[i]) : i \in OpenRules(tag)}
<1>1. /\ OffRules(tag) \subseteq DOMAIN tag /\ OpenRules(tag) \subseteq DOMAIN tag
      /\ Read(tag) = OffRules(tag) \cup OpenRules(tag)
      /\ \A i \in OffRules(tag) : tag[i].off
      /\ \A i \in OpenRules(tag) : ~tag[i].off
  BY DEF OpenRules, OffRules, Read
<1>2. day \in closedDays <=> off
  <2>1. ASSUME NEW i \in OffRules(tag)
        PROVE  day \in DaysIn(tag[i]) <=> Names(tag[i], day)
    BY <1>1, DaysAreNamed DEF Covered
  <2> QED BY <2>1
<1>3. day \in openDays <=> open
  <2>1. ASSUME NEW i \in OpenRules(tag)
        PROVE  day \in OpenDays(tag[i]) <=> Names(tag[i], day)
    BY <1>1, DaysAreNamed
  <2> QED BY <2>1
<1>4. openDays # {} <=> OpenRules(tag) # {}
  <2>1. ASSUME NEW i \in OpenRules(tag)
        PROVE  OpenDays(tag[i]) # {}
    BY DEF OpenDays, Weekdays
  <2> QED BY <2>1
<1>5. \A i \in OffRules(tag) : DaysIn(tag[i]) # {}
  <2>1. ASSUME NEW i \in OffRules(tag)
        PROVE  DaysIn(tag[i]) # {}
    <3>1. PICK s \in tag[i].spans : s \in Weekdays \X Weekdays
      BY <1>1 DEF Covered
    <3>2. s[1] \in DaysIn(tag[i])
      BY <3>1 DEF DaysIn, Weekdays
    <3> QED BY <3>2
  <2> QED BY <2>1
<1>6. OpenByTag(tag, day) <=> open /\ ~off
  BY <1>1 DEF OpenByTag, Covered
<1> HIDE DEF closedDays, openDays, off, open
<1>7. ClosedOn(tag, day) =
        IF Read(tag) = {} THEN "unknown"
        ELSE IF day \in closedDays \/ (openDays # {} /\ day \notin openDays) THEN "closed"
        ELSE "open"
  BY <1>5 DEF ClosedOn, closedDays, openDays
<1>8. off => OffRules(tag) # {}
  BY DEF off
<1>9. open => OpenRules(tag) # {}
  BY DEF open
<1> QED BY <1>1, <1>2, <1>3, <1>4, <1>6, <1>7, <1>8, <1>9

\* A visit is said to meet a closed door exactly when one of them does by the
\* hours that were read for its place.
LEMMA ClosedIsTold ==
    ASSUME NEW it, NEW req, NEW found, NEW extra \in SUBSET {"arithmetic", "cap"}
    PROVE  "closed" \in VerifyItinerary(it, req, found) \cup extra <=>
             \E v \in Visits(it) :
                /\ NameOf(it, v) \in DOMAIN found /\ DateOf(it, v) # NotADate
                /\ ClosedOn(found[NameOf(it, v)], DateOf(it, v) % 7) = "closed"
<1>1. "closed" \in VisitProblems(it, found) <=>
        \E v \in Visits(it) :
           /\ NameOf(it, v) \in DOMAIN found /\ DateOf(it, v) # NotADate
           /\ ClosedOn(found[NameOf(it, v)], DateOf(it, v) % 7) = "closed"
  BY DEF VisitProblems
<1>2. CASE it.days = <<>>
  <2>1. Visits(it) = {}
    BY <1>2 DEF Visits
  <2> QED BY <1>2, <2>1 DEF VerifyItinerary
<1>3. CASE it.days # <<>>
  <2>1. "closed" \notin DateProblems(it, req)
    BY DatesAgree DEF DateKinds
  <2> QED BY <1>1, <1>3, <2>1 DEF VerifyItinerary
<1> QED BY <1>2, <1>3

\* For any covered tags: every warning of a closed door is about one, and no
\* closed door of a place that says when it is open goes without.
THEOREM DoorsAlwaysJudgedRight == Spec => []DoorsJudgedRight
<1>1. ASSUME ChecksOK, composed, stage = "done",
             NEW known, known = {v \in Visits(itinerary) :
                                   /\ NameOf(itinerary, v) \in DOMAIN places
                                   /\ DateOf(itinerary, v) # NotADate
                                   /\ Read(places[NameOf(itinerary, v)]) # {}},
             \A v \in known : Covered(places[NameOf(itinerary, v)])
      PROVE  /\ Warned({"closed"}) =>
                  \E v \in known :
                     ~OpenByTag(places[NameOf(itinerary, v)], DateOf(itinerary, v) % 7)
             /\ \A v \in known :
                  /\ OpenRules(places[NameOf(itinerary, v)]) # {}
                  /\ ~OpenByTag(places[NameOf(itinerary, v)], DateOf(itinerary, v) % 7)
                  => Warned({"closed"})
  <2> DEFINE tag(v) == places[NameOf(itinerary, v)]
             day(v) == DateOf(itinerary, v) % 7
  <2>1. /\ itinerary # None /\ places \in Catalogues /\ Dated(itinerary)
        /\ request \in Requests
    BY <1>1 DEF ChecksOK, Planning, ResultsKnown, ItineraryFromPlaces
  <2>2. warnings = VerifyItinerary(itinerary, request, places) \cup OfBudget
    BY <1>1 DEF ChecksOK, WarningsAreFindings, Found
  <2>3. OfBudget \in SUBSET {"arithmetic", "cap"}
    BY <1>1, <2>1, CapAgrees DEF ChecksOK, ResultsKnown, OfBudget, Current
  <2>4. Warned({"closed"}) <=>
          \E v \in Visits(itinerary) :
             /\ NameOf(itinerary, v) \in DOMAIN places /\ DateOf(itinerary, v) # NotADate
             /\ ClosedOn(tag(v), day(v)) = "closed"
    BY <2>2, <2>3, ClosedIsTold DEF Warned
  <2>5. ASSUME NEW v \in Visits(itinerary),
               NameOf(itinerary, v) \in DOMAIN places, DateOf(itinerary, v) # NotADate
        PROVE  /\ day(v) \in Weekdays
               /\ \A i \in DOMAIN tag(v) : tag(v)[i].spans \subseteq Weekdays \X Weekdays
    <3>1. DateOf(itinerary, v) \in Int
      BY <2>1, <2>5 DEF Dated, DateOf, Visits
    <3>2. day(v) \in Weekdays
      BY <3>1 DEF Weekdays
    <3> QED BY <2>1, <2>5, <3>2, ChecksAssumption
  <2>6. ASSUME NEW v \in known
        PROVE  /\ ClosedOn(tag(v), day(v)) = "closed" => ~OpenByTag(tag(v), day(v))
               /\ OpenRules(tag(v)) # {} /\ ~OpenByTag(tag(v), day(v))
                    => ClosedOn(tag(v), day(v)) = "closed"
    BY <1>1, <2>5, ClosedAsTagged
  <2>7. ASSUME NEW v \in Visits(itinerary), NameOf(itinerary, v) \in DOMAIN places,
               DateOf(itinerary, v) # NotADate, ClosedOn(tag(v), day(v)) = "closed"
        PROVE  v \in known
    <3>1. Read(tag(v)) # {}
      BY <2>7 DEF ClosedOn
    <3> QED BY <1>1, <2>7, <3>1
  <2>8. Warned({"closed"}) => \E v \in known : ~OpenByTag(tag(v), day(v))
    BY <2>4, <2>6, <2>7
  <2>9. ASSUME NEW v \in known, OpenRules(tag(v)) # {}, ~OpenByTag(tag(v), day(v))
        PROVE  Warned({"closed"})
    BY <1>1, <2>4, <2>6, <2>9
  <2> QED BY <2>8, <2>9
<1>2. ChecksOK => DoorsJudgedRight
  <2> SUFFICES ASSUME ChecksOK, composed, stage = "done"
               PROVE  DoorsJudgedRight
    BY DEF DoorsJudgedRight
  <2> DEFINE known == {v \in Visits(itinerary) :
                         /\ NameOf(itinerary, v) \in DOMAIN places
                         /\ DateOf(itinerary, v) # NotADate
                         /\ Read(places[NameOf(itinerary, v)]) # {}}
             shut == {v \in known :
                        ~OpenByTag(places[NameOf(itinerary, v)], DateOf(itinerary, v) % 7)}
             opens == {v \in known : OpenRules(places[NameOf(itinerary, v)]) # {}}
  <2> SUFFICES ASSUME \A v \in known : Covered(places[NameOf(itinerary, v)])
               PROVE  /\ Warned({"closed"}) => shut # {}
                      /\ shut \cap opens # {} => Warned({"closed"})
    BY DEF DoorsJudgedRight
  <2>1. known = {v \in Visits(itinerary) :
                   /\ NameOf(itinerary, v) \in DOMAIN places
                   /\ DateOf(itinerary, v) # NotADate
                   /\ Read(places[NameOf(itinerary, v)]) # {}}
    OBVIOUS
  <2> HIDE DEF known
  <2> QED BY <1>1, <2>1
<1> QED BY <1>2, ChecksInvariant, PTL
=============================================================================
