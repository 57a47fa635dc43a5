------------------------------- MODULE Places --------------------------------
(***************************************************************************)
(* Where a place is.  Six queries answer that: the ancestors and the       *)
(* descendants on a location's page (repository/location.go), the slug of  *)
(* a quicksearch hit (repository/quicksearch.go), the breadcrumb of a      *)
(* search, the area of its cafes and the name of a spot, and the locations *)
(* of a cafe's page (repository/cafe.go).  A visitor sends one request     *)
(* after the other, each a row of statements, while mission control edits  *)
(* locations and redraws the map.                                          *)
(*                                                                         *)
(* A map says what PostGIS would: which geometries lie within which, and   *)
(* in which the point on their surface does.  A name stands for its        *)
(* location; texts, images and the ranking of hits are left out.           *)
(***************************************************************************)
EXTENDS Naturals, Sequences

CONSTANTS
    Locs,      \* location.id
    TypeOf,    \* location.type
    Maps,      \* what the coordinates may be
    MaxEdits   \* bound of the edits

Types == {"cafe", "poi", "area", "district"}

ASSUME LocsAssumption == Locs \subseteq Nat
ASSUME TypeAssumption == TypeOf \in [Locs -> Types]
\* The surface of what lies within lies within; cafes and pois are points.
ASSUME MapsAssumption ==
    \A m \in Maps :
        /\ m \in [whole: SUBSET (Locs \X Locs), surface: SUBSET (Locs \X Locs)]
        /\ m.whole \subseteq m.surface
        /\ \A x, y \in Locs : TypeOf[x] \in {"cafe", "poi"} /\ <<x, y>> \in m.surface
                              => <<x, y>> \in m.whole
ASSUME BoundsAssumption == MaxEdits \in Nat

VARIABLES
    status,  \* location.status
    map,     \* location.coordinates
    call,    \* the request that is being served
    calm,    \* nothing has changed since it began
    seen,    \* the visitor's last responses, since the last change
    edits

tables == <<status, map>>
vars == <<tables, call, calm, seen, edits>>

----------------------------------------------------------------------------
(* The queries *)

Within(x) == {y \in Locs : <<x, y>> \in map.whole}
SurfaceWithin(x) == {y \in Locs \ {x} : <<x, y>> \in map.surface}

\* WHERE type = t AND status = 'active' ORDER BY id LIMIT 1
First(t, rows) ==
    LET found == {y \in rows : TypeOf[y] = t /\ status[y] = "active"}
    IN IF found = {} THEN <<>>
       ELSE <<CHOOSE y \in found : \A z \in found : y <= z>>

\* LocationRepository.Ancestors: DISTINCT ON (a.type), district first
Ancestors(x) ==
    LET t == TypeOf[x]
        rows == {y \in SurfaceWithin(x) :
                    TypeOf[y] = "district" \/ (TypeOf[y] = "area" /\ t = "poi")}
    IN First("district", rows) \o First("area", rows)

\* Mutant: areas are compared with all of their polygon.
WholeDescendants(x) ==
    {y \in Locs : /\ <<TypeOf[x], TypeOf[y]>> \in {<<"district", "area">>, <<"area", "poi">>}
                  /\ status[y] = "active"
                  /\ x \in Within(y)}

\* LocationRepository.Descendants
Descendants(x) ==
    {y \in Locs : /\ status[y] = "active"
                  /\ \/ /\ TypeOf[x] = "district" /\ TypeOf[y] = "area"
                        /\ <<y, x>> \in map.surface
                     \/ /\ TypeOf[x] = "area" /\ TypeOf[y] = "poi"
                        /\ x \in Within(y)}

\* Mutant: the lookups forget the status.
AnySlug(x) ==
    LET lowest(t) == LET found == {y \in SurfaceWithin(x) : TypeOf[y] = t}
                     IN {y \in found : \A z \in found : y <= z}
    IN CASE TypeOf[x] = "cafe" -> <<>>
         [] TypeOf[x] = "district" -> <<x>>
         [] TypeOf[x] = "area" ->
               IF lowest("district") = {} THEN <<>>
               ELSE <<CHOOSE d \in lowest("district") : TRUE, x>>
         [] OTHER ->
               IF lowest("district") = {} \/ lowest("area") = {} THEN <<>>
               ELSE <<CHOOSE d \in lowest("district") : TRUE,
                      CHOOSE a \in lowest("area") : TRUE, x>>

\* Mutant: a segment that is missing is left empty.
GapSlug(x) ==
    LET segment(t) == IF First(t, SurfaceWithin(x)) = <<>> THEN <<0>>
                      ELSE First(t, SurfaceWithin(x))
    IN CASE TypeOf[x] = "cafe" -> <<>>
         [] TypeOf[x] = "district" -> <<x>>
         [] TypeOf[x] = "area" -> segment("district") \o <<x>>
         [] OTHER -> segment("district") \o segment("area") \o <<x>>

\* QuicksearchRepository.Locations: the ids to the hit, or none at all
Slug(x) ==
    LET d == First("district", SurfaceWithin(x))
        a == First("area", SurfaceWithin(x))
    IN CASE TypeOf[x] = "cafe" -> <<>>
         [] TypeOf[x] = "district" -> <<x>>
         [] TypeOf[x] = "area" -> IF d = <<>> THEN <<>> ELSE d \o <<x>>
         [] OTHER -> IF d = <<>> \/ a = <<>> THEN <<>> ELSE d \o a \o <<x>>

\* Mutant: a poi's area replaces its district.
ShortBreadcrumb(x) ==
    IF TypeOf[x] = "cafe" THEN <<>>
    ELSE (IF TypeOf[x] = "poi" /\ First("area", SurfaceWithin(x)) # <<>>
          THEN First("area", SurfaceWithin(x))
          ELSE IF TypeOf[x] = "district" THEN <<>>
          ELSE First("district", SurfaceWithin(x))) \o <<x>>

\* ResolveFocus and buildBreadcrumb
Breadcrumb(x) ==
    IF TypeOf[x] = "cafe" THEN <<>>
    ELSE (IF TypeOf[x] = "district" THEN <<>> ELSE First("district", SurfaceWithin(x)))
         \o (IF TypeOf[x] = "poi" THEN First("area", SurfaceWithin(x)) ELSE <<>>)
         \o <<x>>

\* Mutant: a cafe on the edge of a closed area is named after it.
ClosedToo(c) ==
    LET areas == {y \in Within(c) : TypeOf[y] = "area"}
    IN First("district", Within(c))
       \o (IF areas = {} THEN <<>> ELSE <<CHOOSE y \in areas : \A z \in areas : y <= z>>)

\* CafeRepository.CafeByLocationID
CafeLocations(c) == First("district", Within(c)) \o First("area", Within(c))

\* The cafes of a search in an area or district, each with its area
CafesIn(x) ==
    {[id |-> c, of |-> First("area", Within(c))] :
        c \in {c \in Locs : /\ TypeOf[c] = "cafe"
                            /\ status[c] = "active"
                            /\ TypeOf[x] \in {"area", "district"}
                            /\ x \in Within(c)}}

\* CafeRepository.LocationNameAt, for the spot where a cafe is
NameAt(c) == IF First("area", Within(c)) # <<>> THEN First("area", Within(c))
             ELSE First("district", Within(c))

----------------------------------------------------------------------------
(* Requests *)

Ops == {"page", "districts", "quicksearch", "search", "spot", "cafe"}
Rows == [id: Locs, of: Seq(Locs)]

Idle == [at |-> "idle"]

Serving(at, chain, listed, todo) ==
    call' = [call EXCEPT !.at = at, !.chain = chain, !.listed = listed, !.todo = todo]

\* The visitor keeps the response, and one of those before.
Reply(code, chain, listed) ==
    LET response == [op |-> call.op, id |-> call.id, code |-> code,
                     chain |-> chain, listed |-> listed]
    IN /\ call' = Idle
       /\ IF calm THEN \E older \in SUBSET seen :
                          /\ \A r, s \in older : r = s
                          /\ seen' = older \cup {response}
                  ELSE UNCHANGED seen
       /\ UNCHANGED <<tables, calm, edits>>

Refuse(code) == Reply(code, <<>>, {})

\* He opens a page, types a name or searches.  id is what he asks for, the hit
\* that he will choose, or the cafe whose spot it is.
Ask(op, id) ==
    /\ call = Idle
    /\ op \in {"cafe", "spot"} => TypeOf[id] = "cafe"
    /\ call' = [at |-> op, op |-> op, id |-> id, chain |-> <<>>, listed |-> {}, todo |-> {}]
    /\ calm' = TRUE
    /\ UNCHANGED <<tables, seen, edits>>

GetByID ==
    /\ call.at = "page"
    /\ \/ status[call.id] = "deleted" /\ Refuse(404)
       \/ status[call.id] # "deleted" /\ TypeOf[call.id] = "cafe" /\ Refuse(400)
       \/ /\ status[call.id] # "deleted" /\ TypeOf[call.id] # "cafe"
          /\ Serving("ancestors", <<>>, {}, {})
          /\ UNCHANGED <<tables, calm, seen, edits>>

ReadAncestors ==
    /\ call.at = "ancestors"
    /\ Serving("descendants", Ancestors(call.id), {}, {call.id})
    /\ UNCHANGED <<tables, calm, seen, edits>>

Districts ==
    /\ call.at = "districts"
    /\ Serving("descendants", <<>>, {},
               {d \in Locs : TypeOf[d] = "district" /\ status[d] = "active"})
    /\ UNCHANGED <<tables, calm, seen, edits>>

\* The descendants of the page's location, or of the next of the districts
ReadDescendants(x) ==
    /\ call.at = "descendants"
    /\ x \in call.todo
    /\ Serving("descendants", call.chain,
               call.listed \cup {[id |-> y, of |-> <<x>>] : y \in Descendants(x)},
               call.todo \ {x})
    /\ UNCHANGED <<tables, calm, seen, edits>>

\* The images are read; the response.
Respond ==
    /\ call.at = "descendants"
    /\ call.todo = {}
    /\ Reply(200, call.chain, call.listed)

\* The hit that he chooses of those the query returns; an empty list is 200 too.
Quicksearch ==
    /\ call.at = "quicksearch"
    /\ status[call.id] = "active"
    /\ Reply(200, Slug(call.id), {})

NoHit ==
    /\ call.at = "quicksearch"
    /\ status[call.id] # "active"
    /\ call' = Idle
    /\ UNCHANGED <<tables, calm, seen, edits>>

ResolveFocus ==
    /\ call.at = "search"
    /\ \/ status[call.id] = "deleted" /\ Refuse(404)
       \/ /\ status[call.id] # "deleted"
          /\ Serving("cafes", Breadcrumb(call.id), {}, {})
          /\ UNCHANGED <<tables, calm, seen, edits>>

Search ==
    /\ call.at = "cafes"
    /\ Reply(200, call.chain, CafesIn(call.id))

LocationNameAt ==
    /\ call.at = "spot"
    /\ Reply(200, NameAt(call.id), {})

CafeByLocationID ==
    /\ call.at = "cafe"
    /\ Reply(200, CafeLocations(call.id), {})

\* A statement fails: 500.
DbError ==
    /\ call # Idle
    /\ call' = Idle
    /\ UNCHANGED <<tables, calm, seen, edits>>

----------------------------------------------------------------------------
(* Mission control *)

Change == /\ edits < MaxEdits
          /\ edits' = edits + 1
          /\ calm' = FALSE
          /\ seen' = {}
          /\ UNCHANGED call

SetStatus(x, s) == /\ status' = [status EXCEPT ![x] = s]
                   /\ UNCHANGED map
                   /\ Change

Redraw(m) == /\ map' = m
             /\ UNCHANGED status
             /\ Change

----------------------------------------------------------------------------
Statuses == {"active", "closed", "deleted"}

Init == /\ status = [x \in Locs |-> "active"]
        /\ map \in Maps
        /\ call = Idle
        /\ calm = TRUE
        /\ seen = {}
        /\ edits = 0

Serve == \/ GetByID \/ ReadAncestors \/ Districts \/ Respond
         \/ \E x \in Locs : ReadDescendants(x)
         \/ Quicksearch \/ NoHit
         \/ ResolveFocus \/ Search \/ LocationNameAt \/ CafeByLocationID

Next == \/ \E op \in Ops, id \in Locs : Ask(op, id)
        \/ Serve
        \/ DbError
        \/ \E x \in Locs, s \in Statuses : SetStatus(x, s)
        \/ \E m \in Maps : Redraw(m)

Spec == Init /\ [][Next]_vars

----------------------------------------------------------------------------
(* Properties *)

Response == [op: Ops, id: Locs, code: {200, 400, 404}, chain: Seq(Locs),
             listed: SUBSET Rows]

\* Every variable has its type.
TypeOK ==
    /\ status \in [Locs -> Statuses]
    /\ map \in Maps
    /\ call \in {Idle} \cup [at: Ops \cup {"ancestors", "descendants", "cafes"}, op: Ops,
                             id: Locs, chain: Seq(Locs), listed: SUBSET Rows,
                             todo: SUBSET Locs]
    /\ calm \in BOOLEAN
    /\ seen \in SUBSET Response
    /\ edits \in 0..MaxEdits

Got(op) == {r \in seen : r.op = op /\ r.code = 200}

\* A page's location as the last of its ancestors
Path(r) == r.chain \o <<r.id>>

\* While nothing changes, an area or poi has one address: the page's ancestors
\* are the search's breadcrumb, and the quicksearch's slug when there is one
\* for every segment.
OneAddress ==
    \A p \in Got("page") : TypeOf[p.id] \in {"area", "poi"} =>
        /\ \A s \in Got("search") : s.id = p.id => s.chain = Path(p)
        /\ \A q \in Got("quicksearch") :
              q.id = p.id =>
                 q.chain = IF Len(Path(p)) = (IF TypeOf[p.id] = "poi" THEN 3 ELSE 2)
                           THEN Path(p) ELSE <<>>

\* The responses with the descendants of x, and what they list
Shows(r, x) == \/ r.op = "page" /\ r.id = x
               \/ r.op = "districts" /\ TypeOf[x] = "district"
Lists(r, x, y) == [id |-> y, of |-> <<x>>] \in r.listed

ParentType(x) == IF TypeOf[x] = "poi" THEN "area" ELSE "district"

\* While nothing changes, the area of a poi and the district of an area list it,
\* and what lists an active one is its parent, or its parent has a lower id and
\* lists it as well.
ParentListsChild ==
    \A p \in Got("page") : TypeOf[p.id] \in {"area", "poi"} /\ status[p.id] = "active" =>
        \A r \in Got("page") \cup Got("districts"), y \in Locs :
            LET parents == {p.chain[i] : i \in DOMAIN p.chain}
            IN TypeOf[y] = ParentType(p.id) /\ status[y] = "active" /\ Shows(r, y) =>
                  /\ y \in parents => Lists(r, y, p.id)
                  /\ Lists(r, y, p.id) =>
                        \E z \in parents : TypeOf[z] = TypeOf[y] /\ z <= y

Innermost(chain) == IF chain = <<>> THEN <<>> ELSE <<chain[Len(chain)]>>
AreaOf(chain) == IF chain # <<>> /\ TypeOf[chain[Len(chain)]] = "area"
                 THEN <<chain[Len(chain)]>> ELSE <<>>

\* While nothing changes, a search in the area or district that an active cafe's
\* page names lists the cafe, under the area of its page, and the name of its
\* spot is the innermost one of its page.
NamedAreaHasCafe ==
    \A c \in Got("cafe") : status[c.id] = "active" =>
        /\ \A s \in seen : s.op = "search" /\ s.id \in {c.chain[i] : i \in DOMAIN c.chain} =>
              /\ s.code = 200
              /\ \E row \in s.listed : row.id = c.id /\ row.of = AreaOf(c.chain)
        /\ \A s \in Got("spot") : s.id = c.id => s.chain = Innermost(c.chain)

\* While nothing changes, each segment of a quicksearch's slug has a page, of a
\* district, an area and a poi in that order.
SlugHasPages ==
    \A q \in Got("quicksearch") :
        /\ \A r \in seen : r.op = "page" /\ r.id \in {q.chain[i] : i \in DOMAIN q.chain} =>
              r.code = 200
        /\ \A i \in DOMAIN q.chain : TypeOf[q.chain[i]] = <<"district", "area", "poi">>[i]
=============================================================================
