---------------------------- MODULE MCPlanChecks ----------------------------
(* A small instance of PlanChecks for TLC: trips of up to two nights to a    *)
(* city with a museum, a cafe and a fort, and "memory", a place that no tool *)
(* returned.                                                                 *)
EXTENDS PlanChecks, TLC

\* Today is a Saturday (5); the days are numbered on.
MCAsk(start, end, nights, travelers, cap) ==
    [origin |-> "place", destination |-> "place", start |-> start, end |-> end,
     nights |-> nights, travelers |-> travelers, budget |-> cap]

\* Each way to be refused once, and trips that are planned: with and without an
\* end, a number of nights, a party and a budget.
MCAsks ==
    {MCAsk(s, 7, None, None, None) : s \in {4, 5, 7, 8, NotADate}}
    \cup {MCAsk(6, e, None, None, None) : e \in {NotADate, 5, 9}}
    \cup {MCAsk(6, e, n, t, b) : e \in {None, 7}, n \in {None, -1, 9},
                                 t \in {0, 1}, b \in {None, 0, 20}}
    \cup {[MCAsk(6, 7, None, 1, None) EXCEPT !.destination = "markup"]}

MCMeals == {"cafe"}
MCApart == {{"museum", "fort"}}

MCFares == {<<>>, <<4, 7, 9>>}
MCRates == {<<2, 5>>, <<20>>}

\* opening_hours of the museum: none, each span of days, days that are off
\* after and before the opening times, holidays, and off among the times.
Opens(spans) == Rule(spans, TRUE, FALSE, FALSE)
Off(spans) == Rule(spans, FALSE, TRUE, FALSE)
Tags ==
    {<<>>, <<Opens({})>>, <<Opens({<<0, 4>>})>>, <<Opens({<<5, 0>>})>>, <<Off({<<6, 6>>})>>,
     <<Opens({}), Off({<<0, 0>>})>>, <<Opens({<<0, 6>>}), Off({<<5, 6>>})>>,
     <<Off({<<6, 6>>}), Opens({<<0, 4>>})>>, <<Off({})>>, <<Opens({}), Off({})>>,
     <<Rule({}, FALSE, TRUE, TRUE), Opens({<<6, 1>>})>>,
     <<Rule({<<0, 4>>, <<6, 6>>}, TRUE, TRUE, FALSE)>>}
MCCatalogues ==
    {("museum" :> tag) @@ ("cafe" :> <<>>) @@ ("fort" :> <<>>) : tag \in Tags}

MCPlan(dates, visits, priced, cost) ==
    [days |-> [i \in DOMAIN dates |-> [date |-> dates[i], visits |-> visits[i]]],
     priced |-> priced, perPerson |-> cost]

MCDates(req) == {NotADate, req.start - 1, req.start, req.end}
MCSeqs(S, n) == UNION {[1 .. k -> S] : k \in 0 .. n}

\* Without a budget, any dates with the museum on the first day, and any visits
\* on the first and last day; with one, activities that are free or priced.
MCItineraries(req) ==
    IF req.budget = None
      THEN {MCPlan(dates, [i \in DOMAIN dates |-> IF i = 1 THEN <<"museum">> ELSE <<>>], {}, 0) :
               dates \in MCSeqs(MCDates(req), 3)}
           \cup {MCPlan(<<req.start, req.end>>, <<v, w>>, {}, 0) :
                   v, w \in {<<"museum">>, <<"museum", "fort">>, <<"cafe">>, <<"memory">>}}
      ELSE {MCPlan(<<>>, <<>>, {}, 0), MCPlan(<<req.start>>, << <<"museum">> >>, {}, 0)}
           \cup {MCPlan(<<req.start>>, << <<p>> >>, {p}, c) :
                   p \in {"museum", "cafe"}, c \in {3, 9}}
=============================================================================
