---------------------------- MODULE CacheProofs ----------------------------
(***************************************************************************)
(* Proofs about ReadThroughCache, for any processes, threads and keys.     *)
(* The lock argument: a thread that fetches or writes owns the lock of its *)
(* key in its process (InsideOwns); the storage argument: what is on its   *)
(* way to the disk, or on it, was fetched for its key and may be stored    *)
(* (DiskIsFetched); CachedOK joins them with the types.                    *)
(***************************************************************************)
EXTENDS ReadThroughCache, TLAPS

WaitsForKey ==
    \A t \in Threads : pc[t] # "idle" => want[t] \in Keys

InsideOwns ==
    \A t \in Threads : InLock(t) => holder[Home[t]][want[t]] = t

DiskIsFetched ==
    /\ \A t \in Threads : pc[t] = "write" =>
          value[t] \in FetchedFor[want[t]] /\ Storable(value[t])
    /\ \A k \in Keys : file[k] = "whole" =>
          entry[k] \in FetchedFor[k] /\ Storable(entry[k])

NotOvertaken ==
    \A t \in Threads : pc[t] = "fetch" /\ Live(want[t]) =>
        writer[want[t]] # Home[t]

CachedOK ==
    /\ CacheTypeOK
    /\ WaitsForKey
    /\ InsideOwns
    /\ DiskIsFetched
    /\ NotOvertaken

----------------------------------------------------------------------------
(* What the tools return. *)

LEMMA FetchedAreAnswers ==
    \A tool \in Tools : \A a \in Fetched[tool] : a \in Answers
<1>1. \A kind \in Kinds, b \in BOOLEAN : Answer(kind, b) \in Answers
  BY DEF Answer, Answers
<1> USE <1>1 DEF Kinds
<1>2. ASSUME NEW g \in Conditions, NEW s \in Conditions, NEW p \in Conditions,
             NEW dated \in BOOLEAN
      PROVE  SearchFlights(g, s, p, dated) \in Answers
  <2> DEFINE backend == <<FastFlights(g), SerpFlights(s),
                          IF dated THEN TpFlights(p) ELSE "notAsked">>
             asked == {i \in 1 .. 3 :
                         \A h \in 1 .. i - 1 : backend[h] \notin {"rows", "breaks"}}
             got == {backend[i] : i \in asked}
             kind == CASE "rows" \in got -> "rows"
                       [] "breaks" \in got -> "raises"
                       [] OTHER -> "absent"
             blind == got \cap {"rows", "none"} = {}
  <2>1. SearchFlights(g, s, p, dated) = Answer(kind, blind)
    BY Zenon DEF SearchFlights
  <2> HIDE DEF got
  <2>2. kind \in Kinds /\ blind \in BOOLEAN
    OBVIOUS
  <2> HIDE DEF kind, blind
  <2> QED BY <2>1, <2>2
<1>3. ASSUME NEW c \in Conditions
      PROVE  /\ SearchHotels(c) \in Answers
             /\ CityGuide(c) \in Answers
             /\ Geocode(c) \in Answers
             /\ RecommendNights(c) \in Answers
             /\ Normals(c) \in Answers
  <2>1. (c \in Raising) \in BOOLEAN
    OBVIOUS
  <2>2. SearchHotels(c) \in Answers
    BY DEF SearchHotels
  <2>3. CityGuide(c) \in Answers /\ Geocode(c) \in Answers
    BY DEF CityGuide, Geocode
  <2>4. RecommendNights(c) \in Answers
    BY <2>1, Zenon DEF RecommendNights
  <2>5. Normals(c) \in Answers
    BY <2>1 DEF Normals
  <2> QED BY <2>2, <2>3, <2>4, <2>5
<1>4. ASSUME NEW f \in Conditions, NEW a \in Conditions
      PROVE  FetchForecast(f, a) \in Answers
  <2>1. \A n \in Answers, b \in BOOLEAN : [n EXCEPT !.blind = @ /\ b] \in Answers
    BY DEF Answers
  <2>2. (f \in Raising) \in BOOLEAN
    OBVIOUS
  <2>3. [Normals(a) EXCEPT !.blind = @ /\ f \in Raising] \in Answers
    BY <1>3, <2>1, <2>2, Zenon
  <2>4. TryForecast(f) \in {"rows", "raises", "none"}
    BY DEF TryForecast
  <2> QED BY <2>3, <2>4 DEF FetchForecast
<1>5. \A a \in [1 .. 3 -> Conditions] : FindPlaces(a) \in Answers
  BY DEF FindPlaces
<1> QED BY <1>2, <1>3, <1>4, <1>5 DEF Fetched, Tools

\* A tool that reports its failures returns nothing storable that no service
\* contributed to.
LEMMA ReportersAreHonest ==
    \A tool \in Tools \ Swallowing : \A a \in Fetched[tool] :
        Storable(a) => ~a.blind
<1>1. \A c \in Conditions :
        /\ Storable(SearchHotels(c)) => ~SearchHotels(c).blind
        /\ Storable(CityGuide(c)) => ~CityGuide(c).blind
        /\ Storable(Geocode(c)) => ~Geocode(c).blind
        /\ Storable(RecommendNights(c)) => ~RecommendNights(c).blind
  BY DEF SearchHotels, CityGuide, Geocode, RecommendNights, Answer, Storable
<1>2. \A a \in [1 .. 3 -> Conditions] :
        Storable(FindPlaces(a)) => ~FindPlaces(a).blind
  BY DEF FindPlaces, Answer, Storable
<1> QED BY <1>1, <1>2 DEF Fetched, Tools, Swallowing

LEMMA FetchedForTyped ==
    /\ FetchedFor = [k \in Keys |-> UNION {Fetched[tool] : tool \in ToolsOf[k]}]
    /\ \A k \in Keys : \A a \in FetchedFor[k] : a \in Answers
BY CacheAssumption, FetchedAreAnswers DEF FetchedFor

LEMMA AnswersHaveKinds ==
    /\ \A a \in Answers : a.kind \in Kinds /\ a # NoAnswer
    /\ NoAnswer.kind \in Kinds \cup {"none"}
    /\ \A a \in Answers \cup {NoAnswer} : a.kind \in Kinds \cup {"none"}
BY DEF Answers, NoAnswer, Kinds

----------------------------------------------------------------------------
(* CachedOK is inductive. *)

Replies == [by : Threads \cup {NoThread}, key : Keys \cup {NoKey},
            kind : Kinds \cup {"none"}, age : -1 .. MaxAge]

LEMMA NoReplyTyped == NoReply \in Replies
BY CacheAssumption DEF NoReply, Replies

LEMMA InitCached == Init => CachedOK
<1> SUFFICES ASSUME Init PROVE CachedOK
  OBVIOUS
<1> USE CacheAssumption DEF Init, InLock
<1>1. (CHOOSE p \in Processes : TRUE) \in Processes
  OBVIOUS
<1>2. CacheTypeOK
  BY <1>1, NoReplyTyped DEF CacheTypeOK, Places, Replies
<1> QED BY <1>2 DEF CachedOK, WaitsForKey, InsideOwns, DiskIsFetched, NotOvertaken

\* What Return does, for an answer and an age of their types: the thread is
\* outside and nothing else changes.
LEMMA ReturnTyped ==
    ASSUME CacheTypeOK, NEW t \in Threads, want[t] \in Keys,
           NEW a \in Answers \cup {NoAnswer}, NEW since \in -1 .. MaxAge,
           Return(t, a, since)
    PROVE  /\ pc' \in [Threads -> Places]
           /\ want' \in [Threads -> Keys \cup {NoKey}]
           /\ seen' \in [Threads -> 0 .. MaxAge]
           /\ value' \in [Threads -> Answers \cup {NoAnswer}]
           /\ reply' \in Replies
           /\ \A u \in Threads \ {t} : pc'[u] = pc[u] /\ want'[u] = want[u]
                                         /\ value'[u] = value[u]
           /\ pc'[t] \in {"idle", "look"}
           /\ pc'[t] # "idle" => want'[t] \in Keys
<1> DEFINE next == NextKey(want[t], a)
<1>1. next \in Keys \cup {NoKey}
  BY CacheAssumption DEF NextKey
<1>2. /\ want' = [want EXCEPT ![t] = next]
      /\ pc' = [pc EXCEPT ![t] = IF next = NoKey THEN "idle" ELSE "look"]
      /\ seen' = [seen EXCEPT ![t] = 0]
      /\ value' = [value EXCEPT ![t] = NoAnswer]
      /\ reply' = [by |-> t, key |-> want[t], kind |-> a.kind, age |-> since]
  BY DEF Return, Goto
<1>3. reply' \in Replies
  BY <1>2, AnswersHaveKinds DEF Replies
<1> HIDE DEF next
<1> QED BY <1>1, <1>2, <1>3, CacheAssumption DEF CacheTypeOK, Places

\* The end of a call of cached() by one thread: it is outside, it has given its
\* lock back, and who else is inside still owns the lock of its key.
LEMMA LeavesLocked ==
    ASSUME CachedOK, NEW t \in Threads, want[t] \in Keys, Release(t),
           pc'[t] \in {"idle", "look"},
           \A u \in Threads \ {t} : pc'[u] = pc[u] /\ want'[u] = want[u]
    PROVE  /\ holder' \in [Processes -> [Keys -> Threads \cup {NoThread}]]
           /\ InsideOwns'
<1> USE CacheAssumption DEF CachedOK
<1>1. holder' = [holder EXCEPT ![Home[t]][want[t]] = IF @ = t THEN NoThread ELSE @]
  BY DEF Release
<1>2. holder \in [Processes -> [Keys -> Threads \cup {NoThread}]] /\ Home[t] \in Processes
  BY DEF CacheTypeOK
<1>3. InsideOwns'
  <2> SUFFICES ASSUME NEW u \in Threads, pc'[u] \in {"fetch", "write"}
               PROVE  holder'[Home[u]][want'[u]] = u
    BY DEF InsideOwns, InLock
  <2>1. u # t /\ pc'[u] = pc[u] /\ want'[u] = want[u]
    OBVIOUS
  <2>2. holder[Home[u]][want[u]] = u /\ want[u] \in Keys /\ Home[u] \in Processes
    BY <2>1 DEF InsideOwns, InLock, WaitsForKey
  <2> QED BY <1>1, <1>2, <2>1, <2>2
<1> QED BY <1>1, <1>2, <1>3

\* What a thread that leaves and writes nothing keeps of the rest.
LEMMA LeavesDisk ==
    ASSUME CachedOK, NEW t \in Threads, pc'[t] \in {"idle", "look"},
           \A u \in Threads \ {t} : pc'[u] = pc[u] /\ want'[u] = want[u]
                                      /\ value'[u] = value[u],
           UNCHANGED diskVars
    PROVE  DiskIsFetched' /\ NotOvertaken'
<1>1. \A u \in Threads : pc'[u] \in {"fetch", "write"} =>
         pc'[u] = pc[u] /\ want'[u] = want[u] /\ value'[u] = value[u]
  OBVIOUS
<1>2. FetchedFor' = FetchedFor /\ UNCHANGED <<file, entry, age, writer>>
  BY DEF FetchedFor, diskVars
<1> QED
  BY <1>1, <1>2
     DEF CachedOK, DiskIsFetched, NotOvertaken, Live, Fresh, Legible, Storable

LEMMA StepCached == CachedOK /\ [Next]_vars => CachedOK'
<1> SUFFICES ASSUME CachedOK, [Next]_vars PROVE CachedOK'
  OBVIOUS
<1> USE CacheAssumption DEF InLock
<1>t. CacheTypeOK /\ WaitsForKey /\ InsideOwns /\ DiskIsFetched /\ NotOvertaken
  BY DEF CachedOK
<1>n. NoReply \in Replies
  BY NoReplyTyped
<1>1. ASSUME NEW t \in Threads, NEW k \in Keys, Call(t, k) PROVE CachedOK'
  <2> USE <1>1, <1>t DEF Call, Goto, diskVars, Unanswered
  <2>1. CacheTypeOK'
    BY <1>n DEF CacheTypeOK, Places, Replies
  <2>2. WaitsForKey' /\ InsideOwns'
    BY DEF CacheTypeOK, WaitsForKey, InsideOwns
  <2>3. DiskIsFetched' /\ NotOvertaken'
    BY DEF CacheTypeOK, DiskIsFetched, NotOvertaken, Live, Fresh, Legible, FetchedFor,
           Storable
  <2> QED BY <2>1, <2>2, <2>3 DEF CachedOK
<1>2. ASSUME NEW t \in Threads, Stat(t) PROVE CachedOK'
  <2> USE <1>2, <1>t DEF Stat, Goto, diskVars, Unanswered
  <2>1. want[t] \in Keys
    BY DEF WaitsForKey
  <2>2. CacheTypeOK'
    BY <1>n, <2>1 DEF CacheTypeOK, Places, Replies
  <2>3. WaitsForKey' /\ InsideOwns'
    BY DEF CacheTypeOK, WaitsForKey, InsideOwns
  <2>4. DiskIsFetched' /\ NotOvertaken'
    BY DEF CacheTypeOK, DiskIsFetched, NotOvertaken, Live, Fresh, Legible, FetchedFor,
           Storable
  <2> QED BY <2>2, <2>3, <2>4 DEF CachedOK
<1>3. ASSUME NEW t \in Threads, Hit(t) PROVE CachedOK'
  <2>1. want[t] \in Keys
    BY <1>3, <1>t DEF Hit, WaitsForKey
  <2>2. entry[want[t]] \in Answers \cup {NoAnswer} /\ seen[t] \in -1 .. MaxAge
    BY <1>t, <2>1 DEF CacheTypeOK
  <2>3. Return(t, entry[want[t]], seen[t]) /\ Release(t) /\ UNCHANGED <<diskVars, crashes>>
    BY <1>3 DEF Hit
  <2>4. CacheTypeOK' /\ InsideOwns'
    BY <1>t, <2>1, <2>2, <2>3, ReturnTyped, LeavesLocked DEF CacheTypeOK, Replies, diskVars
  <2>5. WaitsForKey'
    BY <1>t, <2>1, <2>2, <2>3, ReturnTyped DEF WaitsForKey
  <2>6. DiskIsFetched' /\ NotOvertaken'
    BY <1>t, <2>1, <2>2, <2>3, ReturnTyped, LeavesDisk
  <2> QED BY <2>4, <2>5, <2>6 DEF CachedOK
<1>4. ASSUME NEW t \in Threads, Miss(t) PROVE CachedOK'
  <2> USE <1>4, <1>t DEF Miss, Goto, diskVars, Unanswered
  <2>1. want[t] \in Keys /\ ~Live(want[t]) /\ pc[t] \in {"look", "read"}
    BY DEF WaitsForKey, Live
  <2>2. pc' = [pc EXCEPT ![t] = IF Lock(t) = t THEN "fetch" ELSE "wait"]
    OBVIOUS
  <2>3. CacheTypeOK'
    BY <1>n, <2>2 DEF CacheTypeOK, Places, Replies
  <2>4. WaitsForKey' /\ InsideOwns'
    BY <2>2 DEF CacheTypeOK, WaitsForKey, InsideOwns, Lock
  <2>5. DiskIsFetched'
    BY <2>2 DEF CacheTypeOK, DiskIsFetched, FetchedFor, Storable
  <2>6. NotOvertaken'
    <3> SUFFICES ASSUME NEW u \in Threads, pc'[u] = "fetch", Live(want[u])'
                 PROVE  writer'[want'[u]] # Home[u]
      BY DEF NotOvertaken
    <3>1. Live(want[u]) /\ want' = want /\ writer' = writer
      BY DEF Live, Fresh, Legible
    <3>2. u # t
      BY <2>1, <3>1
    <3>3. pc[u] = "fetch"
      BY <2>2, <3>2 DEF CacheTypeOK
    <3> QED BY <3>1, <3>3 DEF NotOvertaken
  <2> QED BY <2>3, <2>4, <2>5, <2>6 DEF CachedOK
<1>5. ASSUME NEW t \in Threads, Acquire(t) PROVE CachedOK'
  <2> USE <1>5, <1>t DEF Acquire, Locked, Goto, diskVars, Unanswered
  <2>1. want[t] \in Keys /\ Home[t] \in Processes /\ holder[Home[t]][want[t]] = NoThread
    BY DEF WaitsForKey, Lock
  <2>2. CacheTypeOK'
    BY <1>n, <2>1 DEF CacheTypeOK, Places, Replies
  <2>3. WaitsForKey' /\ InsideOwns'
    BY <2>1 DEF CacheTypeOK, WaitsForKey, InsideOwns
  <2>4. DiskIsFetched' /\ NotOvertaken'
    BY DEF CacheTypeOK, DiskIsFetched, NotOvertaken, Live, Fresh, Legible, FetchedFor,
           Storable
  <2> QED BY <2>2, <2>3, <2>4 DEF CachedOK
<1>6. ASSUME NEW t \in Threads, pc[t] = "fetch",
             NEW a \in FetchedFor[want[t]], FetchFailed(t, a) \/ Unwritable(t, a)
      PROVE  CachedOK'
  <2>1. want[t] \in Keys
    BY <1>6, <1>t DEF WaitsForKey
  <2>2. a \in Answers \cup {NoAnswer} /\ -1 \in -1 .. MaxAge
    BY <2>1, FetchedForTyped
  <2>3. Return(t, a, -1) /\ Release(t) /\ UNCHANGED <<diskVars, crashes>>
    BY <1>6 DEF FetchFailed, Unwritable, Unlock
  <2>4. CacheTypeOK' /\ InsideOwns'
    BY <1>t, <2>1, <2>2, <2>3, ReturnTyped, LeavesLocked DEF CacheTypeOK, Replies, diskVars
  <2>5. WaitsForKey'
    BY <1>t, <2>1, <2>2, <2>3, ReturnTyped DEF WaitsForKey
  <2>6. DiskIsFetched' /\ NotOvertaken'
    BY <1>t, <2>1, <2>2, <2>3, ReturnTyped, LeavesDisk
  <2> QED BY <2>4, <2>5, <2>6 DEF CachedOK
<1>7. ASSUME NEW t \in Threads, pc[t] = "fetch",
             NEW a \in FetchedFor[want[t]], Open(t, a)
      PROVE  CachedOK'
  <2> USE <1>7, <1>t DEF Open, Goto, Unanswered
  <2>1. want[t] \in Keys /\ a \in Answers
    BY FetchedForTyped DEF WaitsForKey
  <2>2. CacheTypeOK'
    BY <1>n, <2>1 DEF CacheTypeOK, Places, Replies
  <2>3. WaitsForKey' /\ InsideOwns'
    BY <2>1 DEF CacheTypeOK, WaitsForKey, InsideOwns
  <2>4. DiskIsFetched'
    BY <2>1 DEF CacheTypeOK, DiskIsFetched, FetchedFor, Storable
  <2>5. NotOvertaken'
    BY <2>1 DEF CacheTypeOK, NotOvertaken, Live, Fresh, Legible, WaitsForKey
  <2> QED BY <2>2, <2>3, <2>4, <2>5 DEF CachedOK
<1>8. ASSUME NEW t \in Threads, NEW garbles \in BOOLEAN, Write(t, garbles)
      PROVE  CachedOK'
  <2>1. /\ want[t] \in Keys /\ Home[t] \in Processes
        /\ holder[Home[t]][want[t]] = t
        /\ value[t] \in FetchedFor[want[t]] /\ Storable(value[t])
    BY <1>8, <1>t DEF Write, WaitsForKey, InsideOwns, DiskIsFetched
  <2>2. value[t] \in Answers \cup {NoAnswer} /\ -1 \in -1 .. MaxAge
    BY <2>1, FetchedForTyped
  <2>3. /\ Return(t, value[t], -1) /\ Release(t) /\ crashes' = crashes
        /\ file' = [file EXCEPT ![want[t]] = IF garbles THEN "garbled" ELSE "whole"]
        /\ entry' = [entry EXCEPT ![want[t]] = IF garbles THEN NoAnswer ELSE value[t]]
        /\ age' = [age EXCEPT ![want[t]] = 0]
        /\ writer' = [writer EXCEPT ![want[t]] = Home[t]]
    BY <1>8 DEF Write
  <2>r. /\ pc' \in [Threads -> Places] /\ want' \in [Threads -> Keys \cup {NoKey}]
        /\ seen' \in [Threads -> 0 .. MaxAge]
        /\ value' \in [Threads -> Answers \cup {NoAnswer}] /\ reply' \in Replies
        /\ pc'[t] \in {"idle", "look"} /\ (pc'[t] # "idle" => want'[t] \in Keys)
        /\ \A u \in Threads \ {t} : pc'[u] = pc[u] /\ want'[u] = want[u]
                                      /\ value'[u] = value[u]
    BY <1>t, <2>1, <2>2, <2>3, ReturnTyped
  <2>l. holder' \in [Processes -> [Keys -> Threads \cup {NoThread}]] /\ InsideOwns'
    BY <2>1, <2>3, <2>r, LeavesLocked
  <2>d. /\ file' \in [Keys -> {"absent", "part", "whole", "garbled"}]
        /\ entry' \in [Keys -> Answers \cup {NoAnswer}]
        /\ age' \in [Keys -> 0 .. MaxAge] /\ writer' \in [Keys -> Processes]
    BY <1>t, <2>1, <2>2, <2>3 DEF CacheTypeOK
  <2>4. CacheTypeOK'
    BY <1>t, <2>3, <2>r, <2>l, <2>d DEF CacheTypeOK, Replies
  <2>5. WaitsForKey'
    BY <1>t, <2>r DEF WaitsForKey
  <2>6. DiskIsFetched'
    <3>1. FetchedFor' = FetchedFor
      BY DEF FetchedFor
    <3>2. \A u \in Threads : pc'[u] = "write" =>
             value'[u] \in FetchedFor[want'[u]] /\ Storable(value'[u])
      BY <1>t, <2>r DEF DiskIsFetched
    <3>3. \A k \in Keys : file'[k] = "whole" =>
             entry'[k] \in FetchedFor[k] /\ Storable(entry'[k])
      BY <1>t, <2>1, <2>3 DEF DiskIsFetched, CacheTypeOK
    <3> QED BY <3>1, <3>2, <3>3 DEF DiskIsFetched, Storable
  <2>7. NotOvertaken'
    <3> SUFFICES ASSUME NEW u \in Threads, pc'[u] = "fetch", Live(want[u])'
                 PROVE  writer'[want'[u]] # Home[u]
      BY DEF NotOvertaken
    <3>1. u # t /\ pc[u] = "fetch" /\ want'[u] = want[u] /\ want[u] \in Keys
      BY <1>t, <2>r DEF WaitsForKey
    <3>2. holder[Home[u]][want[u]] = u
      BY <1>t, <3>1 DEF InsideOwns
    <3>3. CASE want[u] = want[t]
      BY <1>t, <2>1, <2>3, <3>1, <3>2, <3>3 DEF CacheTypeOK
    <3>4. CASE want[u] # want[t]
      BY <1>t, <2>1, <2>3, <3>1, <3>4 DEF CacheTypeOK, NotOvertaken, Live, Fresh, Legible
    <3> QED BY <3>3, <3>4
  <2> QED BY <2>l, <2>4, <2>5, <2>6, <2>7 DEF CachedOK
<1>9. ASSUME NEW t \in Threads, NEW spoils \in BOOLEAN, WriteFails(t, spoils)
      PROVE  CachedOK'
  <2>1. want[t] \in Keys /\ value[t] \in FetchedFor[want[t]]
    BY <1>9, <1>t DEF WriteFails, WaitsForKey, DiskIsFetched
  <2>2. value[t] \in Answers \cup {NoAnswer} /\ -1 \in -1 .. MaxAge
    BY <2>1, FetchedForTyped
  <2>3. Return(t, value[t], -1) /\ Release(t) /\ crashes' = crashes /\ writer' = writer
    BY <1>9 DEF WriteFails
  <2>4. \/ UNCHANGED <<file, entry, age>>
        \/ /\ file' = [file EXCEPT ![want[t]] = IF @ = "part" THEN @ ELSE "garbled"]
           /\ entry' = [entry EXCEPT ![want[t]] = NoAnswer]
           /\ age' = [age EXCEPT ![want[t]] = 0]
    BY <1>9 DEF WriteFails
  <2>r. /\ pc' \in [Threads -> Places] /\ want' \in [Threads -> Keys \cup {NoKey}]
        /\ seen' \in [Threads -> 0 .. MaxAge]
        /\ value' \in [Threads -> Answers \cup {NoAnswer}] /\ reply' \in Replies
        /\ pc'[t] \in {"idle", "look"} /\ (pc'[t] # "idle" => want'[t] \in Keys)
        /\ \A u \in Threads \ {t} : pc'[u] = pc[u] /\ want'[u] = want[u]
                                      /\ value'[u] = value[u]
    BY <1>t, <2>1, <2>2, <2>3, ReturnTyped
  <2>l. holder' \in [Processes -> [Keys -> Threads \cup {NoThread}]] /\ InsideOwns'
    BY <2>1, <2>3, <2>r, LeavesLocked
  <2>d. /\ file' \in [Keys -> {"absent", "part", "whole", "garbled"}]
        /\ entry' \in [Keys -> Answers \cup {NoAnswer}]
        /\ age' \in [Keys -> 0 .. MaxAge] /\ writer' \in [Keys -> Processes]
    <3>1. /\ file \in [Keys -> {"absent", "part", "whole", "garbled"}]
          /\ entry \in [Keys -> Answers \cup {NoAnswer}]
          /\ age \in [Keys -> 0 .. MaxAge] /\ writer \in [Keys -> Processes]
      BY <1>t DEF CacheTypeOK
    <3>2. 0 \in 0 .. MaxAge
      OBVIOUS
    <3>3. CASE UNCHANGED <<file, entry, age>>
      BY <2>3, <3>1, <3>3
    <3>4. CASE file[want[t]] = "part"
      BY <2>1, <2>3, <2>4, <3>1, <3>2, <3>4
    <3>5. CASE file[want[t]] # "part"
      BY <2>1, <2>3, <2>4, <3>1, <3>2, <3>5
    <3> QED BY <3>3, <3>4, <3>5
  <2>5. CacheTypeOK'
    BY <1>t, <2>3, <2>r, <2>l, <2>d DEF CacheTypeOK, Replies
  <2>6. WaitsForKey'
    BY <1>t, <2>r DEF WaitsForKey
  <2>7. \A u \in Threads : pc'[u] \in {"fetch", "write"} =>
           pc'[u] = pc[u] /\ want'[u] = want[u] /\ value'[u] = value[u]
    BY <2>r
  <2>8. \A k \in Keys : file'[k] = "whole" =>
           file[k] = "whole" /\ entry'[k] = entry[k] /\ age'[k] = age[k]
    BY <1>t, <2>1, <2>4 DEF CacheTypeOK
  <2>9. FetchedFor' = FetchedFor
    BY DEF FetchedFor
  <2>10. DiskIsFetched' /\ NotOvertaken'
    BY <1>t, <2>3, <2>7, <2>8, <2>9
       DEF DiskIsFetched, NotOvertaken, Live, Fresh, Legible, Storable, WaitsForKey
  <2> QED BY <2>l, <2>5, <2>6, <2>10 DEF CachedOK
<1>10. ASSUME Tick PROVE CachedOK'
  <2> USE <1>10, <1>t DEF Tick, threadVars, Unanswered
  <2>1. CacheTypeOK'
    BY <1>n DEF CacheTypeOK, Replies
  <2>2. WaitsForKey' /\ InsideOwns' /\ DiskIsFetched'
    BY DEF WaitsForKey, InsideOwns, DiskIsFetched, FetchedFor, Storable
  <2>3. \A k \in Keys : Live(k)' => Live(k)
    BY DEF Live, Fresh, Legible, CacheTypeOK
  <2>4. NotOvertaken'
    BY <2>3 DEF NotOvertaken, WaitsForKey
  <2> QED BY <2>1, <2>2, <2>4 DEF CachedOK
<1>11. ASSUME NEW p \in Processes, Crash(p) PROVE CachedOK'
  <2> USE <1>11, <1>t DEF Crash, diskVars, Unanswered
  <2>1. CacheTypeOK'
    BY <1>n DEF CacheTypeOK, Places, Replies
  <2>2. \A t \in Threads : pc'[t] # "idle" =>
           /\ Home[t] # p /\ pc'[t] = pc[t] /\ want'[t] = want[t]
           /\ value'[t] = value[t] /\ holder'[Home[t]] = holder[Home[t]]
    BY DEF CacheTypeOK
  <2>3. WaitsForKey' /\ InsideOwns'
    BY <2>2 DEF WaitsForKey, InsideOwns
  <2>4. DiskIsFetched' /\ NotOvertaken'
    BY <2>2 DEF DiskIsFetched, NotOvertaken, Live, Fresh, Legible, FetchedFor, Storable
  <2> QED BY <2>1, <2>3, <2>4 DEF CachedOK
<1>12. ASSUME UNCHANGED vars PROVE CachedOK'
  BY <1>12, <1>t
     DEF CachedOK, CacheTypeOK, WaitsForKey, InsideOwns, DiskIsFetched, NotOvertaken,
         Live, Fresh, Legible, FetchedFor, Storable, vars, diskVars, threadVars
<1> QED
  BY <1>1, <1>2, <1>3, <1>4, <1>5, <1>6, <1>7, <1>8, <1>9, <1>10, <1>11, <1>12, Zenon
     DEF Next, Inside, Fetch

LEMMA AlwaysCached == Spec => []CachedOK
BY InitCached, StepCached, PTL DEF Spec

----------------------------------------------------------------------------
(* The properties of the runs. *)

\* The types of the variables, with what a thread was answered.
THEOREM CacheTyping == Spec => []CacheTypeOK
<1>1. CachedOK => CacheTypeOK
  BY DEF CachedOK
<1> QED BY <1>1, AlwaysCached, PTL

\* cache.py:44: in one process, one fetch per key at a time, and none for a key
\* that a thread of the process has filled meanwhile.
THEOREM OneFetch == Spec => []OneFetchPerKey
<1>1. CachedOK => OneFetchPerKey
  <2> SUFFICES ASSUME CachedOK, NEW t \in Threads, pc[t] = "fetch"
               PROVE  /\ \A u \in Threads \ {t} :
                          ~(InLock(u) /\ Home[u] = Home[t] /\ want[u] = want[t])
                      /\ Live(want[t]) => writer[want[t]] # Home[t]
    BY DEF OneFetchPerKey
  <2> QED BY DEF CachedOK, InsideOwns, InLock, NotOvertaken
<1> QED BY <1>1, AlwaysCached, PTL

\* cache.py:92: no failure is on the disk, and of the tools that report their
\* failures no answer that no service contributed to.
THEOREM OutagesForgotten == Spec => []OutageIsForgotten
<1>1. CachedOK => OutageIsForgotten
  <2> SUFFICES ASSUME CachedOK, NEW k \in Keys, file[k] = "whole"
               PROVE  /\ Storable(entry[k])
                      /\ entry[k].blind => ToolsOf[k] \cap Swallowing # {}
    BY DEF OutageIsForgotten
  <2>1. Storable(entry[k]) /\ entry[k] \in FetchedFor[k]
    BY DEF CachedOK, DiskIsFetched
  <2>2. PICK tool \in ToolsOf[k] : entry[k] \in Fetched[tool]
    BY <2>1, FetchedForTyped
  <2>3. CASE tool \in Swallowing
    BY <2>1, <2>2, <2>3
  <2>4. CASE tool \notin Swallowing
    BY <2>1, <2>2, <2>4, ReportersAreHonest, CacheAssumption
  <2> QED BY <2>3, <2>4
<1> QED BY <1>1, AlwaysCached, PTL

----------------------------------------------------------------------------
(* cached() implements CacheContract: every access to a file is a step of  *)
(* the contract, or none.                                                  *)

stored == [k \in Keys |-> IF file[k] = "whole" THEN entry[k] ELSE NoAnswer]

noLook == [key |-> NoKey, age |-> -1]
looked == [t \in Threads |-> IF pc[t] = "read"
                             THEN [key |-> want[t], age |-> seen[t]]
                             ELSE [key |-> NoKey, age |-> -1]]

contractVars == <<stored, age, looked, reply>>

LEMMA InitContract == Init => Contract!Init
BY CacheAssumption
   DEF Init, Contract!Init, Contract!NoAnswer, NoAnswer, Contract!NoReply, NoReply,
       Contract!NoLook

\* Who moves between places other than "read" has noted nothing, before or after.
LEMMA NothingNoted ==
    ASSUME NEW t \in Threads, pc[t] # "read", pc'[t] # "read",
           \A u \in Threads \ {t} : pc'[u] = pc[u] /\ want'[u] = want[u] /\ seen'[u] = seen[u]
    PROVE  looked' = looked
BY DEF looked

\* A step that gives no answer, and in which nobody notes an age.
LEMMA ForgetStep ==
    ASSUME UNCHANGED diskVars, reply' = NoReply,
           \A u \in Threads : \/ pc'[u] # "read"
                              \/ pc'[u] = pc[u] /\ want'[u] = want[u] /\ seen'[u] = seen[u]
    PROVE  Contract!Forget
<1>1. stored' = stored /\ age' = age
  BY DEF stored, diskVars
<1>2. looked' = [t \in Threads |-> looked'[t]]
  BY DEF looked
<1>3. \A t \in Threads : looked'[t] \in {looked[t], noLook}
  BY DEF looked, noLook
<1> QED
  BY <1>1, <1>2, <1>3
     DEF Contract!Forget, Contract!NoLook, noLook, Contract!NoReply, NoReply, stored, looked

\* An answer made for its caller, of which nothing is stored.
LEMMA MakeStep ==
    ASSUME NEW t \in Threads, NEW k \in Keys, k = want[t], NEW a,
           Return(t, a, -1), stored' = stored, age' = age, looked' = looked
    PROVE  Contract!Make(t, k)
<1>1. reply' = [by |-> t, key |-> k, kind |-> a.kind, age |-> -1]
  BY DEF Return
<1>2. reply' = [by |-> t, key |-> k, kind |-> reply'.kind, age |-> -1]
  BY <1>1
<1> QED BY <1>2 DEF Contract!Make, stored, looked

LEMMA StepContract == CachedOK /\ [Next]_vars => [Contract!Next]_contractVars
<1> SUFFICES ASSUME CachedOK, [Next]_vars
             PROVE  Contract!Next \/ UNCHANGED contractVars
  OBVIOUS
<1>t. CacheTypeOK /\ WaitsForKey /\ DiskIsFetched /\ age = [k \in Keys |-> age[k]]
  BY DEF CachedOK, CacheTypeOK
\* Return takes the thread, and nobody else, out of the cache.
<1>r. ASSUME NEW t \in Threads, NEW a, NEW since, Return(t, a, since)
      PROVE  /\ pc'[t] # "read"
             /\ \A u \in Threads \ {t} :
                   pc'[u] = pc[u] /\ want'[u] = want[u] /\ seen'[u] = seen[u]
  BY <1>r, <1>t DEF Return, Goto, CacheTypeOK
<1>1. ASSUME NEW t \in Threads, NEW k \in Keys, Call(t, k) PROVE Contract!Forget
  BY <1>1, <1>t, ForgetStep DEF Call, Goto, CacheTypeOK, Unanswered
<1>2. ASSUME NEW t \in Threads, NEW k \in Keys, k = want[t], Stat(t)
      PROVE  Contract!Note(t, k)
  <2>1. age[k] < Ttl[k] /\ reply' = NoReply
    BY <1>2, <1>t DEF Stat, Fresh, WaitsForKey, Unanswered
  <2>2. looked' = [looked EXCEPT ![t] = [key |-> k, age |-> age[k]]]
    BY <1>2, <1>t DEF Stat, Goto, looked, CacheTypeOK
  <2>3. stored' = stored /\ age' = age
    BY <1>2 DEF Stat, stored, diskVars
  <2> QED
    BY <2>1, <2>2, <2>3 DEF Contract!Note, Contract!NoReply, NoReply, stored, looked
<1>3. ASSUME NEW t \in Threads, NEW k \in Keys, k = want[t], Hit(t)
      PROVE  Contract!Serve(t, k)
  <2>1. looked[t] = [key |-> k, age |-> seen[t]]
    BY <1>3, <1>t DEF Hit, looked
  <2>2. stored[k] = entry[k] /\ entry[k] # NoAnswer
    BY <1>3, <1>t, <2>1, FetchedForTyped, AnswersHaveKinds
       DEF Hit, Legible, DiskIsFetched, stored
  <2>3. reply' = [by |-> t, key |-> k, kind |-> entry[k].kind,
                  age |-> seen[t]]
    BY <1>3 DEF Hit, Return
  <2>4. looked' = [looked EXCEPT ![t] = noLook]
    BY <1>3, <1>r DEF Hit, looked, noLook
  <2>5. stored' = stored /\ age' = age
    BY <1>3 DEF Hit, stored, diskVars
  <2>6. /\ looked[t].key = k /\ stored[k] # NoAnswer
        /\ reply' = [by |-> t, key |-> k, kind |-> stored[k].kind,
                     age |-> looked[t].age]
    BY <2>1, <2>2, <2>3
  <2> QED
    BY <2>4, <2>5, <2>6
       DEF Contract!Serve, Contract!NoAnswer, NoAnswer, Contract!NoLook, noLook, stored,
           looked
<1>4. ASSUME NEW t \in Threads, Miss(t) \/ Acquire(t) PROVE Contract!Forget
  BY <1>4, <1>t, ForgetStep DEF Miss, Acquire, Locked, Goto, CacheTypeOK, Unanswered
<1>5. ASSUME NEW t \in Threads, NEW k \in Keys, k = want[t], pc[t] = "fetch", NEW a,
             FetchFailed(t, a) \/ Unwritable(t, a)
      PROVE  Contract!Make(t, k)
  <2>1. Return(t, a, -1)
    BY <1>5 DEF FetchFailed, Unwritable
  <2>2. stored' = stored /\ age' = age
    BY <1>5 DEF FetchFailed, Unwritable, stored, diskVars
  <2>3. looked' = looked
    BY <1>5, <1>r, <2>1, NothingNoted
  <2> QED BY <1>5, <2>1, <2>2, <2>3, MakeStep
<1>6. ASSUME NEW t \in Threads, NEW k \in Keys, k = want[t], pc[t] = "fetch", NEW a,
             Open(t, a)
      PROVE  Contract!Lose(k)
  <2>2. /\ stored' = [stored EXCEPT ![k] = NoAnswer]
        /\ age' = [age EXCEPT ![k] = 0] /\ reply' = NoReply
    BY <1>6, <1>t DEF Open, stored, CacheTypeOK, Unanswered
  <2>3. looked' = looked
    BY <1>6, <1>t, NothingNoted DEF Open, Goto, CacheTypeOK
  <2> QED
    BY <2>2, <2>3
       DEF Contract!Lose, Contract!NoAnswer, NoAnswer, Contract!NoReply, NoReply, stored,
           looked
<1>7. ASSUME NEW t \in Threads, NEW k \in Keys, k = want[t],
             \/ \E garbles \in BOOLEAN : Write(t, garbles)
             \/ \E spoils \in BOOLEAN : WriteFails(t, spoils)
      PROVE  Contract!Make(t, k)
  <2>1. pc[t] = "write" /\ Return(t, value[t], -1)
    BY <1>7 DEF Write, WriteFails
  <2>2. looked' = looked
    BY <1>r, <2>1, NothingNoted
  <2>3. CASE UNCHANGED <<file, entry, age>>
    BY <1>7, <2>1, <2>2, <2>3, MakeStep DEF stored
  <2>4. CASE /\ \/ file'[k] # "whole"
                \/ entry'[k] = value[t]
             /\ \A l \in Keys \ {k} : file'[l] = file[l] /\ entry'[l] = entry[l]
             /\ age' = [age EXCEPT ![k] = 0]
    <3>1. stored'[k] \in {value[t], NoAnswer}
      BY <2>1, <2>4 DEF stored
    <3>2. stored' = [stored EXCEPT ![k] = stored'[k]]
      BY <2>1, <2>4 DEF stored
    <3>3. reply' = [by |-> t, key |-> k, kind |-> value[t].kind, age |-> -1]
      BY <1>7, <2>1 DEF Return
    <3>4. /\ reply' = [by |-> t, key |-> k, kind |-> reply'.kind, age |-> -1]
          /\ reply'.kind = value[t].kind
      BY <3>3
    <3>5. reply'.kind \notin {"failed", "raises"}
      BY <1>t, <2>1, <3>4 DEF DiskIsFetched, Storable
    <3>6. stored'[k].kind \in {reply'.kind, "none"}
      BY <3>1, <3>4 DEF NoAnswer
    <3> QED
      BY <2>2, <2>4, <3>2, <3>4, <3>5, <3>6 DEF Contract!Make, stored, looked
  <2>5. ASSUME NEW garbles \in BOOLEAN, Write(t, garbles)
        PROVE  /\ \/ file'[k] # "whole"
                  \/ entry'[k] = value[t]
               /\ \A l \in Keys \ {k} : file'[l] = file[l] /\ entry'[l] = entry[l]
               /\ age' = [age EXCEPT ![k] = 0]
    BY <1>7, <1>t, <2>1, <2>5 DEF Write, CacheTypeOK
  <2>6. ASSUME WriteFails(t, TRUE)
        PROVE  /\ file'[k] # "whole"
               /\ \A l \in Keys \ {k} : file'[l] = file[l] /\ entry'[l] = entry[l]
               /\ age' = [age EXCEPT ![k] = 0]
    <3>1. /\ file' = [file EXCEPT ![k] = IF @ = "part" THEN @ ELSE "garbled"]
          /\ entry' = [entry EXCEPT ![k] = NoAnswer]
          /\ age' = [age EXCEPT ![k] = 0]
      BY <1>7, <2>6 DEF WriteFails
    <3>2. CASE file[k] = "part"
      BY <1>t, <2>1, <3>1, <3>2 DEF CacheTypeOK
    <3>3. CASE file[k] # "part"
      BY <1>t, <2>1, <3>1, <3>3 DEF CacheTypeOK
    <3> QED BY <3>2, <3>3
  <2>7. WriteFails(t, FALSE) => UNCHANGED <<file, entry, age>>
    BY DEF WriteFails
  <2> QED BY <1>7, <2>3, <2>4, <2>5, <2>6, <2>7
<1>8. ASSUME Tick PROVE Contract!Pass
  <2>1. age' = [k \in Keys |-> age'[k]]
    BY <1>8 DEF Tick
  <2>2. \A k \in Keys : age'[k] \in {age[k], age[k] + 1}
    BY <1>8 DEF Tick
  <2> QED
    BY <1>8, <2>1, <2>2
       DEF Tick, threadVars, Unanswered, Contract!Pass, Contract!NoReply, NoReply
<1>9. ASSUME NEW p \in Processes, Crash(p) PROVE Contract!Forget
  BY <1>9, ForgetStep DEF Crash, Unanswered
<1>10. ASSUME UNCHANGED vars PROVE UNCHANGED contractVars
  BY <1>10 DEF vars, diskVars, threadVars, contractVars, stored, looked
<1>11. ASSUME NEW t \in Threads, Inside(t) PROVE Contract!Next
  <2>1. CASE Miss(t)
    BY <1>4, <2>1 DEF Contract!Next
  <2>2. CASE ~Miss(t)
    <3>1. pc[t] \in {"look", "read", "fetch", "write"}
      BY <1>11, <2>2 DEF Inside, Stat, Hit, Write, WriteFails
    <3>2. PICK k \in Keys : k = want[t]
      BY <1>t, <3>1 DEF WaitsForKey
    <3>3. CASE Stat(t) \/ Hit(t)
      BY <1>2, <1>3, <3>2, <3>3 DEF Contract!Next
    <3>4. CASE pc[t] = "fetch" /\ \E a \in FetchedFor[want[t]] : Fetch(t, a)
      BY <1>5, <1>6, <3>2, <3>4 DEF Fetch, Contract!Next
    <3>5. CASE \/ \E garbles \in BOOLEAN : Write(t, garbles)
               \/ \E spoils \in BOOLEAN : WriteFails(t, spoils)
      BY <1>7, <3>2, <3>5 DEF Contract!Next
    <3> QED BY <1>11, <2>2, <3>3, <3>4, <3>5 DEF Inside
  <2> QED BY <2>1, <2>2
<1> QED BY <1>1, <1>4, <1>8, <1>9, <1>10, <1>11 DEF Next, Contract!Next

\* What callers may rely on, whatever threads, processes and crashes do, and
\* however the accesses to a file fall between those of others.
THEOREM CacheImplementsContract == Spec => ImplementsContract
BY InitContract, StepContract, AlwaysCached, PTL
   DEF Spec, ImplementsContract, Contract!Spec, contractVars, stored, looked
=============================================================================
