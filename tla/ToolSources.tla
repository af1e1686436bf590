---------------------------- MODULE ToolSources ----------------------------
(***************************************************************************)
(* What each tool makes of its upstream services (tools/*.py, and          *)
(* _recommend_nights of scope.py): the producers that cached() calls.      *)
(*                                                                         *)
(* A service answers with usable rows ("up"), with none ("bare"), with     *)
(* rows that all fail validation ("junk"), with a body of another shape    *)
(* than its reader expects ("misshapen"), with an HTTP error ("refuses"),  *)
(* or not at all ("unreachable"); "nokey" is a key missing from .env.      *)
(***************************************************************************)
EXTENDS Naturals, FiniteSets, Sequences

Conditions == {"up", "bare", "junk", "misshapen", "refuses", "unreachable", "nokey"}

\* A RequestException, and any exception.
Failing == {"refuses", "unreachable"}
Raising == Failing \cup {"misshapen"}

\* validate_rows keeps the rows that fit the schema.
Validated(c) == IF c = "up" THEN "rows" ELSE "none"

\* requests.get, raise_for_status, and the reading of the body.
Answered(c, rows) ==
    CASE c \in Failing -> "raises"
      [] c = "misshapen" -> "breaks"
      [] OTHER -> rows

\* The three backends of search_flights, of which the first is a library that
\* may raise anything; Travelpayouts' rows are not validated.
FastFlights(c) == IF c \in Raising THEN "raises" ELSE Validated(c)

SerpFlights(c) == Answered(c, IF c = "nokey" THEN "none" ELSE Validated(c))

TpFlights(c) == Answered(c, IF c \in {"up", "junk"} THEN "rows" ELSE "none")

\* An answer, and whether no service contributed to it: all of them failed.
Answer(kind, blind) == [kind |-> kind, blind |-> blind]

Kinds == {"rows", "normals", "absent", "failed", "raises"}
Answers == [kind : Kinds, blind : BOOLEAN]

\* The backends are asked in turn, the third for a full date only, until one has
\* rows or breaks: any exception of the first and a RequestException of the other
\* two count as no rows, another exception is the tool's.
SearchFlights(google, serpapi, travelpayouts, dated) ==
    LET backend == <<FastFlights(google), SerpFlights(serpapi),
                     IF dated THEN TpFlights(travelpayouts) ELSE "notAsked">>
        asked == {i \in 1 .. 3 : \A h \in 1 .. i - 1 : backend[h] \notin {"rows", "breaks"}}
        got == {backend[i] : i \in asked}
    IN  Answer(CASE "rows" \in got -> "rows"
                 [] "breaks" \in got -> "raises"
                 [] OTHER -> "absent",
               got \cap {"rows", "none"} = {})

SearchHotels(c) ==
    CASE c = "misshapen" -> Answer("raises", TRUE)
      [] c \in Failing -> Answer("failed", TRUE)
      [] c = "nokey" -> Answer("failed", FALSE)
      [] OTHER -> Answer(IF Validated(c) = "rows" THEN "rows" ELSE "absent", FALSE)

\* None, which hands over to the normals, also for an HTTP error.
TryForecast(c) ==
    CASE c = "up" -> "rows"
      [] c \in {"unreachable", "misshapen"} -> "raises"
      [] OTHER -> "none"

\* A year whose request gets an HTTP error is left out of the average; no year
\* at all leaves an answer without days, with no `error` in it.
Normals(c) ==
    Answer(IF c \in {"unreachable", "misshapen"} THEN "raises" ELSE "normals", c \in Raising)

FetchForecast(forecast, archive) ==
    CASE TryForecast(forecast) = "rows" -> Answer("rows", FALSE)
      [] TryForecast(forecast) = "raises" -> Answer("raises", TRUE)
      [] OTHER -> LET n == Normals(archive)
                  IN  [n EXCEPT !.blind = @ /\ forecast \in Raising]

\* _overpass: up to three attempts, as long as a retry may help.
Overpass(attempts) ==
    IF \E i \in DOMAIN attempts : attempts[i] \notin Failing
      THEN LET first == CHOOSE i \in DOMAIN attempts :
                            /\ attempts[i] \notin Failing
                            /\ \A h \in 1 .. i - 1 : attempts[h] \in Failing
           IN  attempts[first]
      ELSE "unreachable"

FindPlaces(attempts) ==
    LET c == Overpass(attempts)
    IN  IF c \in Raising THEN Answer("raises", TRUE)
        ELSE Answer(IF Validated(c) = "rows" THEN "rows" ELSE "absent", FALSE)

\* No page, and no such place, are errors to cached(): not stored either.
CityGuide(c) ==
    IF c \in Raising THEN Answer("raises", TRUE)
    ELSE Answer(IF c = "up" THEN "rows" ELSE "failed", FALSE)

Geocode(c) ==
    IF c \in Raising THEN Answer("raises", TRUE)
    ELSE Answer(IF c = "up" THEN "rows" ELSE "failed", FALSE)

\* Any exception of the model becomes the fallback nights, marked as an error.
RecommendNights(c) ==
    IF c = "up" THEN Answer("rows", FALSE) ELSE Answer("failed", c \in Raising)

Fetched ==
    [flights  |-> {SearchFlights(g, s, p, dated) : g, s, p \in Conditions, dated \in BOOLEAN},
     hotels   |-> {SearchHotels(c) : c \in Conditions},
     forecast |-> {FetchForecast(f, a) : f, a \in Conditions},
     normals  |-> {Normals(c) : c \in Conditions},
     places   |-> {FindPlaces(a) : a \in [1 .. 3 -> Conditions]},
     guide    |-> {CityGuide(c) : c \in Conditions},
     geocode  |-> {Geocode(c) : c \in Conditions},
     nights   |-> {RecommendNights(c) : c \in Conditions}]

Tools == DOMAIN Fetched
=============================================================================
