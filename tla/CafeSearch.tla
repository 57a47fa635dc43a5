------------------------------ MODULE CafeSearch ------------------------------
(***************************************************************************)
(* GET /v1/search/cafes: a client walks through the pages of a search while *)
(* mission control edits cafes and places and the weather changes.  A      *)
(* request is a row of separate reads: the focus, the filters, the         *)
(* weather, the cafes.                                                     *)
(*                                                                         *)
(* Geometry is given by constants.  Labels, descriptions and breadcrumbs   *)
(* are left out, and so is the Redis cache behind the weather (Weather).   *)
(***************************************************************************)
EXTENDS Integers, SequencesExt

CONSTANTS
    Cafes,          \* location ids of cafes, numbers in their order
    Versions,       \* what mission control may make of a cafe's columns
    Places,         \* areas, districts and points of interest
    Kind,           \* the type of each place
    Spots,          \* coordinates that clients send
    Uncharted,      \* the cafes and places without coordinates
    Distance,       \* half metres from a spot, place or cafe to a cafe, or Null
    Inside,         \* the cafes within the polygon of a place
    RatingCategory, \* the type and bounds of each bucket, in hundredths
    Tags,           \* the known slugs
    Queries,        \* query strings: Null is a missing value, Bad an unreadable one
    Half,           \* 2^63, one more than the greatest int
    MaxEdits,       \* bound of what happens outside of the client
    MaxPages,       \* bound of a walk
    Null, Bad

conditions == {"clear", "cloudy", "rain"}
Statuses == {"active", "closed", "deleted"}
maxPageSize == 50

Cafe == [status: Statuses, featured: BOOLEAN, image: BOOLEAN, updated: Nat,
         min: Nat \cup {Null}, max: Nat \cup {Null}, overall: Nat \cup {Null},
         score: [{RatingCategory[id].type : id \in DOMAIN RatingCategory} -> Nat \cup {Null}],
         tags: SUBSET Tags, weather: SUBSET conditions, open: BOOLEAN]

Positive == Nat \ {0}
Sent(values) == {Null, Bad} \cup values

Query == [id: {Null} \cup Cafes \cup Places, coords: Sent(Spots), radius: Sent(Positive),
          type: {Null, "cafe", "poi", "area", "district", "other"},
          ratings: {Bad} \cup SUBSET Nat, tags: SUBSET (Tags \cup {"unknown"}),
          open: Sent({"now"}), min: Sent(Nat), max: Sent(Nat), featured: Sent(BOOLEAN),
          weather: SUBSET (conditions \cup {"current", "other"}),
          status: {Null} \cup Statuses, order: {Null, "asc", "desc", "other"},
          sort: {Null, "default", "updated_at", "distance", "rating", "price_range", "other"},
          page: Sent(Positive), size: Sent(Positive)]

ASSUME QueriesAssumption == Queries \subseteq Query
ASSUME VersionsAssumption == Versions \subseteq Cafe
ASSUME CafesAssumption == Cafes \subseteq Nat /\ IsFiniteSet(Cafes)
ASSUME NullAssumption ==
    Null \notin Int \cup conditions \cup Cafes \cup Places \cup {"cafe", "poi", "area", "district"}
ASSUME DistanceAssumption ==
    Distance \in [Cafes -> [Cafes \cup Places \cup Spots -> Nat \cup {Null}]]
ASSUME HalfAssumption == Half \in Nat /\ maxPageSize < Half
ASSUME BoundsAssumption == MaxEdits \in Nat /\ MaxPages \in Nat

VARIABLES
    cafes,    \* the tables cafe, location, cafe_price, cafe_tag and the averages
    places,   \* the status of each place
    reading,  \* what WeatherService.Current would return, Null for an error
    call,     \* the request that is being served
    reply,    \* the last response
    walk,     \* the query of the last walk, its pages, whether anything changed
    edits

vars == <<cafes, places, reading, call, reply, walk, edits>>
world == <<cafes, places, reading, edits>>

----------------------------------------------------------------------------
(* The handler and validate *)

Parsed(q) == \A param \in DOMAIN q : param # "open" => q[param] # Bad

ByDistance(q) == q.coords # Null \/ q.type \in {"cafe", "poi"}

Valid(q) ==
    /\ q.type \in {Null, "cafe", "poi", "area", "district"}
    /\ q.id = Null <=> q.type = Null
    /\ q.coords # Null => q.id = Null
    /\ q.open # Bad
    /\ q.min # Null /\ q.max # Null => q.min <= q.max
    /\ q.weather \subseteq conditions \/ q.weather = {"current"}
    /\ q.status \in {Null, "active", "closed"}
    /\ q.sort \in {Null, "default", "updated_at", "distance", "rating", "price_range"}
    /\ q.order \in {Null, "asc", "desc"}
    /\ q.sort = "distance" => ByDistance(q)

Default(value, default) == IF value = Null THEN default ELSE value

\* Mutant: a point of interest gets no radius
RadiusMaxOfCoords(q) == IF q.coords # Null \/ q.type = "cafe" THEN Default(q.radius, 3000)
                        ELSE q.radius

RadiusMax(q) == IF q.coords # Null \/ q.type = "cafe" THEN Default(q.radius, 3000)
                ELSE IF q.type = "poi" THEN Default(q.radius, 2000) ELSE q.radius

\* Mutant: no cap
UncappedSize(q) == Default(q.size, 8)

Size(q) == Min({Default(q.size, 8), maxPageSize})

Normalised(q) == [q EXCEPT !.radius = RadiusMax(q), !.size = Size(q),
                           !.page = Default(q.page, 1), !.status = Default(q.status, "active"),
                           !.sort = Default(q.sort, "default")]

----------------------------------------------------------------------------
(* CafeRepository.Search *)

\* The point that distances are measured from
Point(q) == IF q.id # Null THEN q.id ELSE q.coords

DistanceOf(c, q) == IF Point(q) = Null THEN Null ELSE Distance[c][Point(q)]

\* ROUND(ST_Distance(...))::INT
distance_m(c, q) == LET d == DistanceOf(c, q) IN IF d = Null THEN Null ELSE (d + 1) \div 2

InMode(c, q) ==
    CASE q.type \in {"area", "district"} -> c \in Inside[q.id]
      [] ByDistance(q) -> /\ c # q.id
                          /\ q.radius # Null => /\ DistanceOf(c, q) # Null
                                                /\ DistanceOf(c, q) <= 2 * q.radius
      [] OTHER -> TRUE

Scored(score, bucket) ==
    score[bucket.type] # Null /\ score[bucket.type] \in bucket.lower..bucket.upper

\* The WHERE clause, with the weather filter as it was resolved
Matches(c, q, weather) ==
    LET row == cafes[c] IN
    /\ row.status = q.status
    /\ InMode(c, q)
    /\ q.featured # Null => row.featured = q.featured
    /\ \A id \in q.ratings : Scored(row.score, RatingCategory[id])
    /\ q.tags \cap Tags \subseteq row.tags
    /\ q.min # Null => row.max # Null /\ row.max >= q.min
    /\ q.max # Null => row.min # Null /\ row.min <= q.max
    /\ q.open # Null => row.open
    /\ weather # {} => weather \cap row.weather # {}

Found(q, weather) == {c \in Cafes : Matches(c, q, weather)}

Asc(value) == IF value = Null THEN <<1, 0>> ELSE <<0, value>>
Desc(value) == IF value = Null THEN <<1, 0>> ELSE <<0, -value>>
TrueFirst(b) == <<0, IF b THEN 0 ELSE 1>>

SortKey(c, q) ==
    LET row == cafes[c]
        down == q.order = "desc"
        near == Asc(distance_m(c, q))
        rest == <<TrueFirst(row.image), Desc(row.updated)>>
    IN CASE q.sort = "updated_at" ->
              IF q.order = "asc" THEN <<Asc(row.updated)>> ELSE <<Desc(row.updated)>>
         [] q.sort = "distance" -> IF down THEN <<Desc(distance_m(c, q))>> ELSE <<near>>
         [] q.sort = "rating" ->
              IF q.order = "asc" THEN <<Asc(row.overall)>> ELSE <<Desc(row.overall)>>
         [] q.sort = "price_range" -> IF down THEN <<Desc(row.max)>> ELSE <<Asc(row.min)>>
         [] q.sort = "default" ->
              <<TrueFirst(row.featured)>> \o
                  (IF ByDistance(q) THEN <<near>> \o rest ELSE rest \o <<near>>)

\* Mutant: no tiebreaker
UntiedKey(c, q) == SortKey(c, q)

\* The ORDER BY clause: l.id breaks ties.
OrderKey(c, q) == SortKey(c, q) \o <<Asc(c)>>

Before(a, b) == \E i \in DOMAIN a : /\ \/ a[i][1] < b[i][1]
                                       \/ a[i][1] = b[i][1] /\ a[i][2] < b[i][2]
                                    /\ \A j \in 1..(i - 1) : a[j] = b[j]

\* The orders that PostgreSQL may give a set of rows
Orders(rows, q) == {order \in SetToSeqs(rows) :
    \A i, j \in DOMAIN order : i < j => ~Before(OrderKey(order[j], q), OrderKey(order[i], q))}

Wrap(n) == ((n + Half) % (2 * Half)) - Half

Offset(q) == Wrap((q.page - 1) * q.size)

Page(order, q) == SubSeq(order, Offset(q) + 1, Min({Offset(q) + q.size, Len(order)}))

----------------------------------------------------------------------------
(* A request *)

NoCall == [at |-> "idle"]
NoReply == [code |-> 0]
NoWalk == [query |-> Null, pages |-> <<>>, calm |-> FALSE]

Refuse(code) == call' = NoCall /\ reply' = [code |-> code]

Goto(at) == call' = [call EXCEPT !.at = at] /\ UNCHANGED reply

Request(q) ==
    \/ ~(Parsed(q) /\ Valid(q)) /\ Refuse(400)
    \/ /\ Parsed(q) /\ Valid(q)
       /\ call' = [at |-> "focus", req |-> Normalised(q), weather |-> {}, banner |-> Null]
       /\ reply' = NoReply

Ask(q) == /\ call = NoCall
          /\ Request(q)
          /\ walk' = [query |-> q, pages |-> <<>>, calm |-> TRUE]
          /\ UNCHANGED world

\* The client asks for the page after the one it got.
NextPage == /\ call = NoCall
            /\ reply.code = 200
            /\ Len(walk.pages) < MaxPages
            /\ Request([walk.query EXCEPT !.page = reply.page + 1])
            /\ UNCHANGED <<walk, world>>

Exists(id, type) == \/ type = "cafe" /\ id \in Cafes /\ cafes[id].status # "deleted"
                    \/ id \in Places /\ Kind[id] = type /\ places[id] # "deleted"

\* The centre of a location without coordinates does not scan into a float64.
ResolveFocus ==
    LET q == call.req IN
    /\ call.at = "focus"
    /\ \/ q.id = Null /\ Goto("filters")
       \/ q.id # Null /\ ~Exists(q.id, q.type) /\ Refuse(404)
       \/ q.id # Null /\ Exists(q.id, q.type) /\ q.id \in Uncharted /\ Refuse(500)
       \/ q.id # Null /\ Exists(q.id, q.type) /\ q.id \notin Uncharted /\ Goto("filters")
    /\ UNCHANGED <<walk, world>>

SameType(ids) == \E i, j \in ids : i # j /\ RatingCategory[i].type = RatingCategory[j].type

ResolveFilters ==
    LET ids == call.req.ratings IN
    /\ call.at = "filters"
    /\ \/ ~(ids \subseteq DOMAIN RatingCategory) /\ Refuse(404)
       \/ ids \subseteq DOMAIN RatingCategory /\ SameType(ids) /\ Refuse(400)
       \/ ids \subseteq DOMAIN RatingCategory /\ ~SameType(ids) /\ Goto("weather")
    /\ UNCHANGED <<walk, world>>

\* Without a reading the filter is dropped.
ResolveWeather ==
    /\ call.at = "weather"
    /\ call' = IF call.req.weather = {"current"}
               THEN [call EXCEPT !.at = "rows", !.banner = reading,
                                 !.weather = {reading} \ {Null}]
               ELSE [call EXCEPT !.at = "rows", !.weather = call.req.weather]
    /\ UNCHANGED <<reply, walk, world>>

\* Mutant: the filter takes the weather of the moment
WeatherNow == IF call.banner # Null THEN {reading} \ {Null} ELSE call.weather

WeatherFilter == call.weather

\* A negative OFFSET is an error; total comes with the rows.
SearchRows ==
    LET q == call.req
        found == Found(q, WeatherFilter)
    IN /\ call.at = "rows"
       /\ \/ Offset(q) < 0 /\ Refuse(500) /\ UNCHANGED walk
          \/ /\ Offset(q) >= 0
             /\ \E order \in Orders(found, q) :
                   LET rows == Page(order, q)
                   IN /\ reply' = [code |-> 200, rows |-> rows, page |-> q.page,
                                   size |-> q.size, banner |-> call.banner,
                                   total |-> IF rows = <<>> THEN 0 ELSE Len(order)]
                      /\ walk' = [walk EXCEPT !.pages = Append(@, rows)]
             /\ call' = NoCall
       /\ UNCHANGED world

\* A statement fails.
DbError == /\ \/ call.at = "focus" /\ call.req.id # Null
              \/ call.at = "filters" /\ (call.req.ratings # {} \/ call.req.tags # {})
              \/ call.at = "rows"
           /\ Refuse(500)
           /\ UNCHANGED <<walk, world>>

----------------------------------------------------------------------------
(* What happens outside *)

Outside == /\ edits < MaxEdits
           /\ edits' = edits + 1
           /\ walk' = [walk EXCEPT !.calm = FALSE]
           /\ UNCHANGED <<call, reply>>

EditCafe(c, version) == /\ cafes' = [cafes EXCEPT ![c] = version]
                        /\ Outside
                        /\ UNCHANGED <<places, reading>>

EditPlace(p, status) == /\ places' = [places EXCEPT ![p] = status]
                        /\ Outside
                        /\ UNCHANGED <<cafes, reading>>

WeatherChanges(r) == /\ reading' = r
                     /\ Outside
                     /\ UNCHANGED <<cafes, places>>

----------------------------------------------------------------------------
Init == /\ cafes \in [Cafes -> Versions]
        /\ places = [p \in Places |-> "active"]
        /\ reading \in conditions \cup {Null}
        /\ call = NoCall
        /\ reply = NoReply
        /\ walk = NoWalk
        /\ edits = 0

Next == \/ \E q \in Queries : Ask(q)
        \/ NextPage
        \/ ResolveFocus \/ ResolveFilters \/ ResolveWeather \/ SearchRows \/ DbError
        \/ \E c \in Cafes, version \in Versions : EditCafe(c, version)
        \/ \E p \in Places, status \in Statuses : EditPlace(p, status)
        \/ \E r \in conditions \cup {Null} : WeatherChanges(r)

Spec == Init /\ [][Next]_vars

----------------------------------------------------------------------------
(* Properties *)

\* Every variable has its type: a response never holds more than 50 cafes, nor
\* more than its size, whatever size was asked for.
TypeOK ==
    /\ cafes \in [Cafes -> Cafe]
    /\ places \in [Places -> Statuses]
    /\ reading \in conditions \cup {Null}
    /\ edits \in 0..MaxEdits
    /\ call = NoCall \/ /\ call.at \in {"focus", "filters", "weather", "rows"}
                        /\ call.weather \subseteq conditions
                        /\ call.banner \in conditions \cup {Null}
    /\ reply.code \in {0, 200, 400, 404, 500}
    /\ reply.code = 200 => /\ reply.rows \in Seq(Cafes)
                           /\ reply.size \in 1..maxPageSize
                           /\ Len(reply.rows) <= reply.size
                           /\ reply.total \in Nat

\* What the walk's query matches now
Matching == LET q == Normalised(walk.query) IN
            Found(q, IF q.weather = {"current"} THEN {reading} \ {Null} ELSE q.weather)

\* A client that walks from the first page on, while nothing changes, gets no
\* cafe twice, and has got every match when a page is not full; total tells from
\* the first row on how many there are.  The order of every sort is a total one.
PagesPartition ==
    LET q == Normalised(walk.query)
        listed == FlattenSeq(walk.pages)
    IN walk.calm /\ walk.pages # <<>> /\ q.page = 1 =>
          /\ IsInjective(listed)
          /\ ToSet(listed) \subseteq Matching
          /\ Len(Last(walk.pages)) < q.size => ToSet(listed) = Matching
          /\ reply.code = 200 /\ reply.rows # <<>> => reply.total = Cardinality(Matching)

\* The weather of the response is the weather its cafes were filtered by, however
\* it changes meanwhile; without one they are those of a search without filter.
BannerMatchesCafes ==
    [][SearchRows /\ reply'.code = 200 /\ call.req.weather = {"current"} =>
          /\ reply'.banner # Null => \A c \in ToSet(reply'.rows) : reply'.banner \in cafes[c].weather
          /\ reply'.banner = Null /\ reply'.rows # <<>> =>
                reply'.total = Cardinality(Found(call.req, {}))]_vars

\* Near a spot, a cafe or a point of interest no cafe is listed that is farther
\* away than the radius asked for, or than 3 km, nor the cafe itself.
NearbyMeansNearby ==
    [][SearchRows /\ reply'.code = 200 /\ ByDistance(call.req) =>
          \A c \in ToSet(reply'.rows) :
              /\ c # call.req.id
              /\ distance_m(c, call.req) # Null
              /\ distance_m(c, call.req) <= IF walk.query.radius = Null THEN 3000
                                           ELSE walk.query.radius]_vars
=============================================================================
