---------------------------- MODULE PlacesProofs -----------------------------
(***************************************************************************)
(* Proofs about Places.  A response that was not overtaken by a change is  *)
(* what the queries would return now (Current), and so is what a request   *)
(* on its way has read (Reading).  Its properties then compare the queries *)
(* on one status and one map.                                              *)
(***************************************************************************)
EXTENDS Places, SequenceTheorems, WellFoundedInduction, TLAPS

(* Least ids *)

LEMMA Minimal ==
  ASSUME NEW Q, NEW D, IsWellFoundedOn(Q, D), NEW B, B \subseteq D, B # {}
  PROVE  \E x \in B : \A y \in B : ~(<<y, x>> \in Q)
  BY WFMin

LEMMA LessIsWellFounded ==
  \E Q : /\ IsWellFoundedOn(Q, Nat)
         /\ \A x, y \in Nat : x < y => <<x, y>> \in Q
  <1>1. IsWellFoundedOn(OpToRel(<, Nat), Nat)
    BY NatLessThanWellFounded
  <1>2. \A x, y \in Nat : x < y => <<x, y>> \in OpToRel(<, Nat)
    BY DEF OpToRel
  <1> QED  BY <1>1, <1>2, Zenon

LEMMA Least ==
  ASSUME NEW S, S \subseteq Nat, S # {}
  PROVE  \E x \in S : \A y \in S : x <= y
  <1>1. PICK Q : /\ IsWellFoundedOn(Q, Nat)
                 /\ \A x, y \in Nat : x < y => <<x, y>> \in Q
    BY LessIsWellFounded
  <1>2. \E x \in S : \A y \in S : ~(<<y, x>> \in Q)
    <2> DEFINE D == Nat
    <2>1. IsWellFoundedOn(Q, D) /\ S \subseteq D
      BY <1>1
    <2> HIDE DEF D
    <2> QED  BY <2>1, Minimal, Zenon
  <1>3. PICK x \in S : \A y \in S : ~(<<y, x>> \in Q)
    BY <1>2
  <1>4. ASSUME NEW y \in S  PROVE x <= y
    <2>1. ~(<<y, x>> \in Q)
      BY <1>3
    <2>2. x \in Nat /\ y \in Nat
      OBVIOUS
    <2>3. ~(y < x)
      BY <1>1, <2>1, <2>2, Zenon
    <2> QED  BY <2>2, <2>3
  <1> QED  BY <1>4

\* What the lookup of one row returns
LEMMA FirstIs ==
  ASSUME NEW t, NEW rows \in SUBSET Locs
  PROVE  LET found == {y \in rows : TypeOf[y] = t /\ status[y] = "active"}
         IN /\ found = {} => First(t, rows) = <<>>
            /\ found # {} => \E y \in found : /\ First(t, rows) = <<y>>
                                              /\ \A z \in found : y <= z
  <1> DEFINE found == {y \in rows : TypeOf[y] = t /\ status[y] = "active"}
             least == CHOOSE y \in found : \A z \in found : y <= z
  <1>1. First(t, rows) = IF found = {} THEN <<>> ELSE <<least>>
    BY DEF First
  <1>2. ASSUME found # {}  PROVE least \in found /\ \A z \in found : least <= z
    <2>1. found \subseteq Nat
      BY LocsAssumption
    <2>2. \E y \in found : \A z \in found : y <= z
      <3> HIDE DEF found
      <3> QED  BY <1>2, <2>1, Least
    <2> HIDE DEF found
    <2> QED  BY <2>2
  <1> HIDE DEF found, least
  <1>3. /\ found = {} => First(t, rows) = <<>>
        /\ found # {} => \E y \in found : /\ First(t, rows) = <<y>>
                                          /\ \A z \in found : y <= z
    BY <1>1, <1>2
  <1> QED  BY <1>3 DEF found

LEMMA FirstCases ==
  ASSUME NEW t, NEW rows \in SUBSET Locs
  PROVE  \/ /\ First(t, rows) = <<>>
            /\ \A y \in rows : ~(TypeOf[y] = t /\ status[y] = "active")
         \/ \E y \in rows : /\ First(t, rows) = <<y>>
                            /\ TypeOf[y] = t /\ status[y] = "active"
                            /\ \A z \in rows : TypeOf[z] = t /\ status[z] = "active" => y <= z
  <1> DEFINE found == {y \in rows : TypeOf[y] = t /\ status[y] = "active"}
  <1>1. /\ found = {} => First(t, rows) = <<>>
        /\ found # {} => \E y \in found : /\ First(t, rows) = <<y>>
                                          /\ \A z \in found : y <= z
    BY FirstIs
  <1>2. CASE found = {}
    BY <1>1, <1>2
  <1>3. CASE found # {}
    <2>1. PICK y \in found : First(t, rows) = <<y>> /\ \A z \in found : y <= z
      BY <1>1, <1>3
    <2> QED  BY <2>1
  <1> QED  BY <1>2, <1>3

LEMMA FirstType ==
  ASSUME NEW t, NEW rows \in SUBSET Locs
  PROVE  First(t, rows) \in Seq(Locs)
  <1>1. ASSUME NEW y \in Locs  PROVE <<y>> \in Seq(Locs)
    OBVIOUS
  <1>2. <<>> \in Seq(Locs)
    OBVIOUS
  <1>3. First(t, rows) = <<>> \/ \E y \in rows : First(t, rows) = <<y>>
    BY FirstCases
  <1> QED  BY <1>1, <1>2, <1>3

----------------------------------------------------------------------------
(* Short sequences *)

LEMMA PairOf ==
  ASSUME NEW x, NEW y
  PROVE  <<x>> \o <<y>> = <<x, y>>
  <1> DEFINE S == {x, y}
  <1>1. /\ <<x>> \in Seq(S) /\ <<y>> \in Seq(S) /\ <<x, y>> \in Seq(S)
        /\ Len(<<x>>) = 1 /\ Len(<<y>>) = 1 /\ Len(<<x, y>>) = 2
    OBVIOUS
  <1>2. /\ <<x>> \o <<y>> \in Seq(S)
        /\ Len(<<x>> \o <<y>>) = 2
        /\ \A i \in 1..2 : (<<x>> \o <<y>>)[i] = IF i <= 1 THEN <<x>>[i] ELSE <<y>>[i - 1]
    <2> HIDE DEF S
    <2> QED  BY <1>1, ConcatProperties
  <1>3. \A i \in 1..2 : (<<x>> \o <<y>>)[i] = <<x, y>>[i]
    BY <1>2
  <1> HIDE DEF S
  <1> QED  BY <1>1, <1>2, <1>3, SeqEqual

LEMMA TripleOf ==
  ASSUME NEW x, NEW y, NEW z
  PROVE  <<x, y>> \o <<z>> = <<x, y, z>>
  <1> DEFINE S == {x, y, z}
  <1>1. /\ <<x, y>> \in Seq(S) /\ <<z>> \in Seq(S) /\ <<x, y, z>> \in Seq(S)
        /\ Len(<<x, y>>) = 2 /\ Len(<<z>>) = 1 /\ Len(<<x, y, z>>) = 3
    OBVIOUS
  <1>2. /\ <<x, y>> \o <<z>> \in Seq(S)
        /\ Len(<<x, y>> \o <<z>>) = 3
        /\ \A i \in 1..3 : (<<x, y>> \o <<z>>)[i] = IF i <= 2 THEN <<x, y>>[i] ELSE <<z>>[i - 2]
    <2> HIDE DEF S
    <2> QED  BY <1>1, ConcatProperties
  <1>3. \A i \in 1..3 : (<<x, y>> \o <<z>>)[i] = <<x, y, z>>[i]
    BY <1>2
  <1> HIDE DEF S
  <1> QED  BY <1>1, <1>2, <1>3, SeqEqual

----------------------------------------------------------------------------
(* Types *)

LEMMA SpacesWithin ==
  ASSUME NEW x
  PROVE  Within(x) \in SUBSET Locs /\ SurfaceWithin(x) \in SUBSET Locs
  BY DEF Within, SurfaceWithin

LEMMA ConcatTypes ==
  ASSUME NEW s \in Seq(Locs), NEW u \in Seq(Locs)
  PROVE  s \o u \in Seq(Locs)
  BY ConcatProperties

LEMMA FirstSpaces ==
  ASSUME NEW x, NEW t
  PROVE  First(t, Within(x)) \in Seq(Locs) /\ First(t, SurfaceWithin(x)) \in Seq(Locs)
  BY SpacesWithin, FirstType

LEMMA QueryTypes ==
  ASSUME NEW x \in Locs
  PROVE  /\ Descendants(x) \in SUBSET Locs
         /\ Ancestors(x) \in Seq(Locs)
         /\ Slug(x) \in Seq(Locs)
         /\ Breadcrumb(x) \in Seq(Locs)
         /\ CafeLocations(x) \in Seq(Locs)
         /\ NameAt(x) \in Seq(Locs)
         /\ CafesIn(x) \in SUBSET Rows
  <1> DEFINE d == First("district", SurfaceWithin(x))
             a == First("area", SurfaceWithin(x))
  <1>1. d \in Seq(Locs) /\ a \in Seq(Locs) /\ <<x>> \in Seq(Locs) /\ <<>> \in Seq(Locs)
    <2>1. <<x>> \in Seq(Locs) /\ <<>> \in Seq(Locs)
      OBVIOUS
    <2> QED  BY <2>1, FirstSpaces
  <1>2. Descendants(x) \in SUBSET Locs
    BY DEF Descendants
  <1>3. Ancestors(x) \in Seq(Locs)
    <2> DEFINE rows == {y \in SurfaceWithin(x) :
                          TypeOf[y] = "district" \/ (TypeOf[y] = "area" /\ TypeOf[x] = "poi")}
    <2>1. Ancestors(x) = First("district", rows) \o First("area", rows)
      BY DEF Ancestors
    <2>2. rows \in SUBSET Locs
      BY SpacesWithin
    <2> HIDE DEF rows
    <2> QED  BY <2>1, <2>2, FirstType, ConcatTypes
  <1>4. Slug(x) \in Seq(Locs)
    <2>1. Slug(x) \in {<<>>, <<x>>, d \o <<x>>, d \o a \o <<x>>}
      BY TypeAssumption DEF Slug, Types
    <2> HIDE DEF d, a
    <2>2. d \o <<x>> \in Seq(Locs) /\ d \o a \o <<x>> \in Seq(Locs)
      BY <1>1, ConcatTypes
    <2> QED  BY <1>1, <2>1, <2>2
  <1>5. Breadcrumb(x) \in Seq(Locs)
    <2> DEFINE c == IF TypeOf[x] = "district" THEN <<>> ELSE d
               b == IF TypeOf[x] = "poi" THEN a ELSE <<>>
    <2>1. Breadcrumb(x) \in {<<>>, c \o b \o <<x>>}
      BY DEF Breadcrumb
    <2>2. c \in Seq(Locs) /\ b \in Seq(Locs)
      BY <1>1
    <2> HIDE DEF c, b
    <2>3. c \o b \in Seq(Locs)
      BY <2>2, ConcatTypes
    <2>4. c \o b \o <<x>> \in Seq(Locs)
      BY <1>1, <2>3, ConcatTypes
    <2> QED  BY <1>1, <2>1, <2>4
  <1>6. CafeLocations(x) \in Seq(Locs)
    BY FirstSpaces, ConcatTypes DEF CafeLocations
  <1>7. NameAt(x) \in Seq(Locs)
    BY FirstSpaces DEF NameAt
  <1>8. CafesIn(x) \in SUBSET Rows
    <2>1. ASSUME NEW c \in Locs  PROVE [id |-> c, of |-> First("area", Within(c))] \in Rows
      BY FirstSpaces DEF Rows
    <2> QED  BY <2>1 DEF CafesIn
  <1> QED  BY <1>2, <1>3, <1>4, <1>5, <1>6, <1>7, <1>8

\* The records that are under way
Calls == [at: Ops \cup {"ancestors", "descendants", "cafes"}, op: Ops, id: Locs,
          chain: Seq(Locs), listed: SUBSET Rows, todo: SUBSET Locs]

LEMMA CallsNotIdle ==
  ASSUME TypeOK, call.at # "idle"
  PROVE  call \in Calls
  BY DEF TypeOK, Idle, Calls

LEMMA ServingType ==
  ASSUME TypeOK, call.at # "idle", UNCHANGED <<tables, calm, seen, edits>>,
         NEW at \in {"ancestors", "descendants", "cafes"}, NEW chain \in Seq(Locs),
         NEW listed \in SUBSET Rows, NEW todo \in SUBSET Locs, Serving(at, chain, listed, todo)
  PROVE  TypeOK'
  <1>1. call \in Calls
    BY CallsNotIdle
  <1>2. call' \in Calls
    BY <1>1 DEF Serving, Calls
  <1> QED  BY <1>2 DEF TypeOK, Calls, tables

LEMMA ReplyType ==
  ASSUME TypeOK, call.at # "idle", NEW code \in {200, 400, 404}, NEW chain \in Seq(Locs),
         NEW listed \in SUBSET Rows, Reply(code, chain, listed)
  PROVE  TypeOK'
  <1>1. call \in Calls
    BY CallsNotIdle
  <1> DEFINE response == [op |-> call.op, id |-> call.id, code |-> code,
                          chain |-> chain, listed |-> listed]
  <1>2. response \in Response
    BY <1>1 DEF Response, Calls
  <1>3. /\ call' = Idle /\ UNCHANGED <<tables, calm, edits>>
        /\ seen' = seen \/ \E older \in SUBSET seen : seen' = older \cup {response}
    <2>1. /\ call' = Idle /\ UNCHANGED <<tables, calm, edits>>
          /\ IF calm THEN \E older \in SUBSET seen : /\ \A q, u \in older : q = u
                                                     /\ seen' = older \cup {response}
                     ELSE UNCHANGED seen
      BY DEF Reply
    <2> HIDE DEF response
    <2>2. CASE calm
      <3>1. PICK older \in SUBSET seen : seen' = older \cup {response}
        BY <2>1, <2>2
      <3> QED  BY <2>1, <3>1
    <2>3. CASE ~calm
      BY <2>1, <2>3
    <2> QED  BY <2>2, <2>3
  <1> HIDE DEF response
  <1>4. seen' \in SUBSET Response
    BY <1>2, <1>3 DEF TypeOK
  <1> QED  BY <1>3, <1>4 DEF TypeOK, tables

LEMMA ChangeType ==
  ASSUME TypeOK, Change, status' \in [Locs -> Statuses], map' \in Maps
  PROVE  TypeOK'
  <1>1. edits' \in 0..MaxEdits
    BY BoundsAssumption DEF TypeOK, Change
  <1> QED  BY <1>1 DEF TypeOK, Change

LEMMA StutterType ==
  ASSUME TypeOK, UNCHANGED <<tables, calm, seen, edits>>, call' = Idle
  PROVE  TypeOK'
  BY DEF TypeOK, tables

LEMMA InitType ==
  Init => TypeOK
  BY BoundsAssumption DEF Init, TypeOK, Statuses

LEMMA RefuseType ==
  ASSUME TypeOK, call.at # "idle", NEW code \in {400, 404}, Refuse(code)
  PROVE  TypeOK'
  <1> DEFINE none == <<>>
  <1>1. Reply(code, none, {})
    BY DEF Refuse
  <1>2. none \in Seq(Locs) /\ {} \in SUBSET Rows /\ code \in {200, 400, 404}
    OBVIOUS
  <1> HIDE DEF none
  <1> QED  BY <1>1, <1>2, ReplyType

LEMMA TypeStep ==
  TypeOK /\ [Next]_vars => TypeOK'
  <1> SUFFICES ASSUME TypeOK, [Next]_vars
               PROVE  TypeOK'
    OBVIOUS
  <1> USE DEF Serve
  <1>0. /\ call.at # "idle" => call \in Calls
        /\ \A x \in Locs : <<>> \in Seq(Locs)
        /\ {} \in SUBSET Rows /\ {} \in SUBSET Locs
    BY CallsNotIdle
  <1>1. ASSUME NEW op \in Ops, NEW id \in Locs, Ask(op, id)  PROVE TypeOK'
    <2>1. call' \in Calls
      BY <1>1 DEF Ask, Calls, Ops
    <2> QED  BY <1>1, <2>1 DEF Ask, TypeOK, Calls, tables
  <1>2. CASE GetByID
    <2>1. call.at # "idle"
      BY <1>2 DEF GetByID
    <2>2. ASSUME NEW code \in {400, 404}, Refuse(code)  PROVE TypeOK'
      BY <2>1, <2>2, RefuseType
    <2>3. CASE Serving("ancestors", <<>>, {}, {}) /\ UNCHANGED <<tables, calm, seen, edits>>
      BY <1>0, <2>1, <2>3, ServingType DEF Calls
    <2> QED  BY <1>2, <2>2, <2>3 DEF GetByID
  <1>3. CASE ReadAncestors
    <2>1. call.at # "idle" /\ call.id \in Locs
      BY <1>0, <1>3 DEF ReadAncestors, Calls
    <2>2. Ancestors(call.id) \in Seq(Locs) /\ {call.id} \in SUBSET Locs
      BY <2>1, QueryTypes
    <2> QED  BY <1>0, <1>3, <2>1, <2>2, ServingType DEF ReadAncestors
  <1>4. CASE Districts
    <2>1. call.at # "idle" /\ call \in Calls
      BY <1>0, <1>4 DEF Districts
    <2>2. Serving("descendants", <<>>, {}, {d \in Locs : TypeOf[d] = "district" /\ status[d] = "active"})
      BY <1>4 DEF Districts
    <2>3. /\ {d \in Locs : TypeOf[d] = "district" /\ status[d] = "active"} \in SUBSET Locs
          /\ <<>> \in Seq(Locs) /\ {} \in SUBSET Rows
      OBVIOUS
    <2>4. UNCHANGED <<tables, calm, seen, edits>>
      BY <1>4 DEF Districts
    <2> QED  BY <2>1, <2>2, <2>3, <2>4, ServingType
  <1>5. ASSUME NEW x \in Locs, ReadDescendants(x)  PROVE TypeOK'
    <2>1. call.at # "idle" /\ call \in Calls
      BY <1>0, <1>5 DEF ReadDescendants
    <2> DEFINE more == {[id |-> y, of |-> <<x>>] : y \in Descendants(x)}
    <2>2. more \in SUBSET Rows
      <3>1. ASSUME NEW y \in Locs  PROVE [id |-> y, of |-> <<x>>] \in Rows
        <4>1. <<x>> \in Seq(Locs)
          OBVIOUS
        <4> QED  BY <4>1 DEF Rows
      <3> QED  BY <3>1, QueryTypes
    <2>3. /\ Serving("descendants", call.chain, call.listed \cup more, call.todo \ {x})
          /\ UNCHANGED <<tables, calm, seen, edits>>
      BY <1>5 DEF ReadDescendants
    <2> HIDE DEF more
    <2>4. /\ call.chain \in Seq(Locs) /\ call.listed \cup more \in SUBSET Rows
          /\ call.todo \ {x} \in SUBSET Locs
      BY <2>1, <2>2 DEF Calls
    <2> QED  BY <2>1, <2>3, <2>4, ServingType
  <1>6. CASE Respond
    <2>1. call.at # "idle" /\ call \in Calls
      BY <1>0, <1>6 DEF Respond
    <2> QED  BY <1>6, <2>1, ReplyType DEF Respond, Calls
  <1>7. CASE Quicksearch
    <2>1. call.at # "idle" /\ call.id \in Locs
      BY <1>0, <1>7 DEF Quicksearch, Calls
    <2> QED  BY <1>0, <1>7, <2>1, ReplyType, QueryTypes DEF Quicksearch
  <1>8. CASE NoHit
    BY <1>8, StutterType DEF NoHit
  <1>9. CASE ResolveFocus
    <2>1. call.at # "idle" /\ call.id \in Locs
      BY <1>0, <1>9 DEF ResolveFocus, Calls
    <2>2. CASE Refuse(404)
      BY <2>1, <2>2, RefuseType
    <2>3. CASE Serving("cafes", Breadcrumb(call.id), {}, {}) /\ UNCHANGED <<tables, calm, seen, edits>>
      BY <1>0, <2>1, <2>3, ServingType, QueryTypes
    <2> QED  BY <1>9, <2>2, <2>3 DEF ResolveFocus
  <1>10. CASE Search
    <2>1. call.at # "idle" /\ call \in Calls
      BY <1>0, <1>10 DEF Search
    <2> QED  BY <1>10, <2>1, ReplyType, QueryTypes DEF Search, Calls
  <1>11. CASE LocationNameAt
    <2>1. call.at # "idle" /\ call.id \in Locs
      BY <1>0, <1>11 DEF LocationNameAt, Calls
    <2> QED  BY <1>0, <1>11, <2>1, ReplyType, QueryTypes DEF LocationNameAt
  <1>12. CASE CafeByLocationID
    <2>1. call.at # "idle" /\ call.id \in Locs
      BY <1>0, <1>12 DEF CafeByLocationID, Calls
    <2> QED  BY <1>0, <1>12, <2>1, ReplyType, QueryTypes DEF CafeByLocationID
  <1>13. CASE DbError
    BY <1>13, StutterType DEF DbError
  <1>14. ASSUME NEW x \in Locs, NEW st \in Statuses, SetStatus(x, st)  PROVE TypeOK'
    BY <1>14, ChangeType DEF SetStatus, TypeOK
  <1>15. ASSUME NEW m \in Maps, Redraw(m)  PROVE TypeOK'
    BY <1>15, ChangeType DEF Redraw, TypeOK
  <1>16. CASE UNCHANGED vars
    BY <1>16 DEF TypeOK, vars, tables
  <1> QED  BY <1>1, <1>2, <1>3, <1>4, <1>5, <1>6, <1>7, <1>8, <1>9, <1>10, <1>11, <1>12,
              <1>13, <1>14, <1>15, <1>16 DEF Next

\* Every variable of Places has its type: every chain and slug is made of ids,
\* whatever is closed or redrawn.
THEOREM PlacesTypeCorrect ==
  Spec => []TypeOK
  <1> QED  BY InitType, TypeStep, PTL DEF Spec

----------------------------------------------------------------------------
(* What a response and a request have read *)

ActiveDistricts == {d \in Locs : TypeOf[d] = "district" /\ status[d] = "active"}

\* It lists the descendants of S, under their parents.
Holds(listed, S) ==
    \A x, y \in Locs : [id |-> y, of |-> <<x>>] \in listed <=> x \in S /\ y \in Descendants(x)

Current(r) ==
    /\ r.op = "page" =>
          /\ status[r.id] # "deleted" /\ TypeOf[r.id] # "cafe" => r.code = 200
          /\ r.code = 200 => r.chain = Ancestors(r.id) /\ Holds(r.listed, {r.id})
    /\ r.op = "districts" => Holds(r.listed, ActiveDistricts)
    /\ r.op = "quicksearch" => status[r.id] = "active" /\ r.chain = Slug(r.id)
    /\ r.op = "search" =>
          /\ status[r.id] # "deleted" => r.code = 200
          /\ r.code = 200 => r.chain = Breadcrumb(r.id) /\ r.listed = CafesIn(r.id)
    /\ r.op = "spot" => r.chain = NameAt(r.id)
    /\ r.op = "cafe" => TypeOf[r.id] = "cafe" /\ r.chain = CafeLocations(r.id)

Reads(c) ==
    /\ c.at = "cafes" => c.chain = Breadcrumb(c.id)
    /\ c.at = "descendants" =>
          \/ /\ c.op = "page" /\ c.chain = Ancestors(c.id) /\ c.todo \subseteq {c.id}
             /\ Holds(c.listed, {c.id} \ c.todo)
          \/ /\ c.op = "districts" /\ c.todo \subseteq ActiveDistricts
             /\ Holds(c.listed, ActiveDistricts \ c.todo)

\* call is bound, so that Reads can be primed with c.
Reading ==
    /\ call.at \in Ops => call.op = call.at
    /\ call.at \in {"cafe", "spot"} => TypeOf[call.id] = "cafe"
    /\ call.at = "ancestors" => call.op = "page"
    /\ call.at = "cafes" => call.op = "search"
    /\ calm => \A c \in {call} : Reads(c)

IInv == TypeOK /\ Reading /\ \A r \in seen : Current(r)

LEMMA QueriesStay ==
  ASSUME UNCHANGED tables, NEW x
  PROVE  /\ Descendants(x)' = Descendants(x)
         /\ Ancestors(x)' = Ancestors(x)
         /\ Slug(x)' = Slug(x)
         /\ Breadcrumb(x)' = Breadcrumb(x)
         /\ CafeLocations(x)' = CafeLocations(x)
         /\ CafesIn(x)' = CafesIn(x)
         /\ NameAt(x)' = NameAt(x)
         /\ ActiveDistricts' = ActiveDistricts
  <1>1. status' = status /\ map' = map
    BY DEF tables
  <1>2. Descendants(x)' = Descendants(x)
    BY <1>1 DEF Descendants, Within
  <1>3. Ancestors(x)' = Ancestors(x)
    BY <1>1 DEF Ancestors, First, SurfaceWithin
  <1>4. Slug(x)' = Slug(x)
    BY <1>1 DEF Slug, First, SurfaceWithin
  <1>5. Breadcrumb(x)' = Breadcrumb(x)
    BY <1>1 DEF Breadcrumb, First, SurfaceWithin
  <1>6. CafeLocations(x)' = CafeLocations(x)
    BY <1>1 DEF CafeLocations, First, Within
  <1>7. CafesIn(x)' = CafesIn(x)
    BY <1>1 DEF CafesIn, First, Within
  <1>8. NameAt(x)' = NameAt(x)
    BY <1>1 DEF NameAt, First, Within
  <1>9. ActiveDistricts' = ActiveDistricts
    BY <1>1 DEF ActiveDistricts
  <1> QED  BY <1>2, <1>3, <1>4, <1>5, <1>6, <1>7, <1>8, <1>9

LEMMA CurrentStays ==
  ASSUME UNCHANGED tables, NEW r, Current(r)
  PROVE  Current(r)'
  <1>1. status' = status
    BY DEF tables
  <1>2. \A listed, S : Holds(listed, S)' <=> Holds(listed, S)
    BY QueriesStay DEF Holds
  <1>3. ActiveDistricts' = ActiveDistricts
    BY QueriesStay
  <1>4. Holds(r.listed, ActiveDistricts)' <=> Holds(r.listed, ActiveDistricts)
    BY <1>3, QueriesStay DEF Holds
  <1> QED  BY <1>1, <1>2, <1>4, QueriesStay DEF Current

\* One case per response
LEMMA ReplyStep ==
  ASSUME IInv, call.at # "idle", NEW code, NEW chain, NEW listed, Reply(code, chain, listed),
         calm => Current([op |-> call.op, id |-> call.id, code |-> code,
                          chain |-> chain, listed |-> listed])
  PROVE  Reading' /\ \A r \in seen' : Current(r)'
  <1> DEFINE response == [op |-> call.op, id |-> call.id, code |-> code,
                          chain |-> chain, listed |-> listed]
  <1>1. /\ call' = Idle /\ UNCHANGED tables
        /\ IF calm THEN \E older \in SUBSET seen : /\ \A q, u \in older : q = u
                                                   /\ seen' = older \cup {response}
                   ELSE UNCHANGED seen
    BY DEF Reply
  <1>2. calm => Current(response)
    OBVIOUS
  <1> HIDE DEF response
  <1>3. \A r \in seen' : r \in seen \/ (calm /\ r = response)
    <2>1. CASE calm
      <3>1. PICK older \in SUBSET seen : seen' = older \cup {response}
        BY <1>1, <2>1
      <3> QED  BY <2>1, <3>1
    <2>2. CASE ~calm
      BY <1>1, <2>2
    <2> QED  BY <2>1, <2>2
  <1>4. ASSUME NEW r \in seen'  PROVE Current(r)'
    <2>1. Current(r)
      BY <1>2, <1>3 DEF IInv
    <2> QED  BY <1>1, <2>1, CurrentStays
  <1>5. Reading'
    BY <1>1 DEF Reading, Reads, Idle, Ops
  <1> QED  BY <1>4, <1>5

LEMMA ReadsStay ==
  ASSUME UNCHANGED tables, NEW c, Reads(c)
  PROVE  Reads(c)'
  <1>1. \A listed, S : Holds(listed, S)' <=> Holds(listed, S)
    BY QueriesStay DEF Holds
  <1>2. ActiveDistricts' = ActiveDistricts
    BY QueriesStay
  <1>3. Holds(c.listed, ActiveDistricts \ c.todo)' <=> Holds(c.listed, ActiveDistricts \ c.todo)
    BY <1>2, QueriesStay DEF Holds
  <1> QED  BY <1>1, <1>2, <1>3, QueriesStay DEF Reads

LEMMA ServingStep ==
  ASSUME IInv, UNCHANGED <<tables, calm, seen, edits>>,
         call'.at \in {"ancestors", "descendants", "cafes"},
         call'.at = "ancestors" => call'.op = "page",
         call'.at = "cafes" => call'.op = "search",
         \A c : calm /\ c = call' => Reads(c)
  PROVE  Reading' /\ \A r \in seen' : Current(r)'
  <1>1. ASSUME NEW r \in seen'  PROVE Current(r)'
    <2>1. Current(r) /\ UNCHANGED tables
      BY DEF IInv
    <2> QED  BY <2>1, CurrentStays
  <1>2. ASSUME calm', NEW c \in {call'}  PROVE Reads(c)'
    <2>1. Reads(c) /\ UNCHANGED tables
      BY <1>2
    <2> QED  BY <2>1, ReadsStay
  <1>3. Reading'
    BY <1>2 DEF Reading, Ops
  <1> QED  BY <1>1, <1>3

LEMMA ServingReading ==
  ASSUME call \in Calls, NEW at, NEW chain, NEW listed, NEW todo,
         Serving(at, chain, listed, todo)
  PROVE  /\ call'.at = at /\ call'.op = call.op /\ call'.id = call.id
         /\ call'.chain = chain /\ call'.listed = listed /\ call'.todo = todo
  BY DEF Serving, Calls

\* One more location's descendants
LEMMA HoldsMore ==
  ASSUME NEW listed, NEW S \in SUBSET Locs, NEW x \in Locs, x \notin S, Holds(listed, S)
  PROVE  Holds(listed \cup {[id |-> y, of |-> <<x>>] : y \in Descendants(x)}, S \cup {x})
  <1> DEFINE more == {[id |-> y, of |-> <<x>>] : y \in Descendants(x)}
  <1>1. ASSUME NEW u \in Locs, NEW y \in Locs
        PROVE  [id |-> y, of |-> <<u>>] \in more <=> u = x /\ y \in Descendants(x)
    <2>1. ASSUME NEW z, [id |-> y, of |-> <<u>>] = [id |-> z, of |-> <<x>>]
          PROVE  y = z /\ u = x
      BY <2>1
    <2> QED  BY <2>1
  <1> HIDE DEF more
  <1>2. ASSUME NEW u \in Locs, NEW y \in Locs
        PROVE  [id |-> y, of |-> <<u>>] \in listed \cup more
               <=> u \in S \cup {x} /\ y \in Descendants(u)
    BY <1>1 DEF Holds
  <1>3. Holds(listed \cup more, S \cup {x})
    BY <1>2 DEF Holds
  <1> QED  BY <1>3 DEF more

LEMMA ChangeStep ==
  ASSUME IInv, Change
  PROVE  Reading' /\ \A r \in seen' : Current(r)'
  <1>1. Reading'
    BY DEF IInv, Change, Reading
  <1>2. seen' = {}
    BY DEF Change
  <1> QED  BY <1>1, <1>2

LEMMA IdleStep ==
  ASSUME IInv, UNCHANGED <<tables, calm, seen, edits>>, call' = Idle
  PROVE  Reading' /\ \A r \in seen' : Current(r)'
  <1>1. ASSUME NEW r \in seen'  PROVE Current(r)'
    <2>1. Current(r) /\ UNCHANGED tables
      BY DEF IInv
    <2> QED  BY <2>1, CurrentStays
  <1>2. Reading'
    BY DEF Reading, Reads, Idle, Ops
  <1> QED  BY <1>1, <1>2

LEMMA CurrentStep ==
  ASSUME IInv, [Next]_vars
  PROVE  Reading' /\ \A r \in seen' : Current(r)'
  <1> DEFINE Goal == Reading /\ \A r \in seen : Current(r)
             Quiet == UNCHANGED <<tables, calm, seen, edits>>
  <1>0. /\ call.at # "idle" => call \in Calls
        /\ TypeOK /\ Reading
    BY CallsNotIdle DEF IInv
  <1>1. ASSUME NEW op \in Ops, NEW id \in Locs, Ask(op, id)  PROVE Goal'
    <2>1. /\ call' = [at |-> op, op |-> op, id |-> id, chain |-> <<>>, listed |-> {}, todo |-> {}]
          /\ op \in {"cafe", "spot"} => TypeOf[id] = "cafe"
          /\ UNCHANGED tables /\ seen' = seen
      BY <1>1 DEF Ask
    <2>2. Reading'
      BY <2>1 DEF Reading, Reads, Ops
    <2>3. ASSUME NEW r \in seen'  PROVE Current(r)'
      <3>1. Current(r)
        BY <2>1 DEF IInv
      <3> QED  BY <2>1, <3>1, CurrentStays
    <2> QED  BY <2>2, <2>3
  <1>2. CASE GetByID
    <2>1. call.at = "page" /\ call.op = "page"
      BY <1>0, <1>2 DEF GetByID, Reading, Ops
    <2>2. ASSUME NEW code, Refuse(code), code # 200,
                 ~(status[call.id] # "deleted" /\ TypeOf[call.id] # "cafe")
          PROVE  Goal'
      <3>1. Reply(code, <<>>, {})
        BY <2>2 DEF Refuse
      <3>2. Current([op |-> call.op, id |-> call.id, code |-> code, chain |-> <<>>, listed |-> {}])
        BY <2>1, <2>2 DEF Current
      <3> QED  BY <2>1, <3>1, <3>2, ReplyStep
    <2>3. CASE Serving("ancestors", <<>>, {}, {}) /\ Quiet
      <3>1. call'.at = "ancestors" /\ call'.op = "page"
        BY <1>0, <2>1, <2>3, ServingReading
      <3>2. \A c : c = call' => Reads(c)
        BY <3>1 DEF Reads
      <3> QED  BY <2>3, <3>1, <3>2, ServingStep
    <2> QED  BY <1>2, <2>2, <2>3 DEF GetByID
  <1>3. CASE ReadAncestors
    <2>1. call.at = "ancestors" /\ call.op = "page" /\ call \in Calls
      BY <1>0, <1>3 DEF ReadAncestors, Reading
    <2>2. /\ Serving("descendants", Ancestors(call.id), {}, {call.id})
          /\ Quiet
      BY <1>3 DEF ReadAncestors
    <2>3. /\ call'.at = "descendants" /\ call'.op = "page" /\ call'.id = call.id
          /\ call'.chain = Ancestors(call.id)
          /\ call'.listed = {} /\ call'.todo = {call.id}
      BY <2>1, <2>2, ServingReading
    <2>4. ASSUME NEW c, c = call'  PROVE Reads(c)
      <3>1. Holds(c.listed, {c.id} \ c.todo)
        BY <2>3, <2>4 DEF Holds
      <3> QED  BY <2>3, <2>4, <3>1 DEF Reads
    <2> QED  BY <2>2, <2>3, <2>4, ServingStep
  <1>4. CASE Districts
    <2>1. call.at = "districts" /\ call.op = "districts" /\ call \in Calls
      BY <1>0, <1>4 DEF Districts, Reading, Ops
    <2>2. Serving("descendants", <<>>, {}, ActiveDistricts) /\ Quiet
      BY <1>4 DEF Districts, ActiveDistricts
    <2>3. /\ call'.at = "descendants" /\ call'.op = "districts"
          /\ call'.listed = {} /\ call'.todo = ActiveDistricts
      BY <2>1, <2>2, ServingReading
    <2>4. ASSUME NEW c, c = call'  PROVE Reads(c)
      <3>1. Holds(c.listed, ActiveDistricts \ c.todo)
        BY <2>3, <2>4 DEF Holds
      <3> QED  BY <2>3, <2>4, <3>1 DEF Reads
    <2> QED  BY <2>2, <2>3, <2>4, ServingStep
  <1>5. ASSUME NEW x \in Locs, ReadDescendants(x)  PROVE Goal'
    <2> DEFINE more == {[id |-> y, of |-> <<x>>] : y \in Descendants(x)}
    <2>1. /\ call.at = "descendants" /\ call \in Calls /\ x \in call.todo
          /\ Serving("descendants", call.chain, call.listed \cup more, call.todo \ {x})
          /\ Quiet
      BY <1>0, <1>5 DEF ReadDescendants
    <2>2. /\ call'.at = "descendants" /\ call'.op = call.op /\ call'.id = call.id
          /\ call'.chain = call.chain
          /\ call'.listed = call.listed \cup more /\ call'.todo = call.todo \ {x}
      <3> HIDE DEF more
      <3> QED  BY <2>1, ServingReading
    <2>3. ASSUME NEW S \in SUBSET Locs, x \notin S, Holds(call.listed, S)
          PROVE  Holds(call.listed \cup more, S \cup {x})
      BY <2>3, HoldsMore
    <2> HIDE DEF more
    <2>4. ASSUME calm, NEW c, c = call'  PROVE Reads(c)
      <3>1. Reads(call)
        BY <1>0, <2>4 DEF Reading
      <3>2. CASE /\ call.op = "page" /\ call.chain = Ancestors(call.id)
                 /\ call.todo \subseteq {call.id} /\ Holds(call.listed, {call.id} \ call.todo)
        <4>1. {call.id} \ call.todo \in SUBSET Locs /\ x \notin {call.id} \ call.todo
          BY <2>1 DEF Calls
        <4>2. Holds(call.listed \cup more, ({call.id} \ call.todo) \cup {x})
          BY <2>3, <3>2, <4>1
        <4>3. ({call.id} \ call.todo) \cup {x} = {call.id} \ (call.todo \ {x})
          BY <2>1, <3>2
        <4>4. Holds(call.listed \cup more, {call.id} \ (call.todo \ {x}))
          BY <4>2, <4>3, Zenon
        <4>5. call.todo \ {x} \subseteq {call.id}
          BY <3>2
        <4> QED  BY <2>2, <2>4, <3>2, <4>4, <4>5 DEF Reads
      <3>3. CASE /\ call.op = "districts" /\ call.todo \subseteq ActiveDistricts
                 /\ Holds(call.listed, ActiveDistricts \ call.todo)
        <4>1. ActiveDistricts \ call.todo \in SUBSET Locs /\ x \notin ActiveDistricts \ call.todo
          BY <2>1 DEF ActiveDistricts
        <4>2. Holds(call.listed \cup more, (ActiveDistricts \ call.todo) \cup {x})
          BY <2>3, <3>3, <4>1
        <4>3. (ActiveDistricts \ call.todo) \cup {x} = ActiveDistricts \ (call.todo \ {x})
          BY <2>1, <3>3
        <4>4. Holds(call.listed \cup more, ActiveDistricts \ (call.todo \ {x}))
          BY <4>2, <4>3, Zenon
        <4>5. call.todo \ {x} \subseteq ActiveDistricts
          BY <3>3
        <4> QED  BY <2>2, <2>4, <3>3, <4>4, <4>5 DEF Reads
      <3> QED  BY <2>1, <3>1, <3>2, <3>3 DEF Reads
    <2> QED  BY <2>1, <2>2, <2>4, ServingStep
  <1>6. CASE Respond
    <2>1. /\ call.at = "descendants" /\ call.todo = {} /\ Reply(200, call.chain, call.listed)
      BY <1>6 DEF Respond
    <2>2. ASSUME calm
          PROVE  Current([op |-> call.op, id |-> call.id, code |-> 200,
                          chain |-> call.chain, listed |-> call.listed])
      <3>1. Reads(call)
        BY <1>0, <2>2 DEF Reading
      <3>2. {call.id} \ call.todo = {call.id} /\ ActiveDistricts \ call.todo = ActiveDistricts
        BY <2>1
      <3>3. \/ /\ call.op = "page" /\ call.chain = Ancestors(call.id)
               /\ Holds(call.listed, {call.id} \ call.todo)
            \/ /\ call.op = "districts" /\ Holds(call.listed, ActiveDistricts \ call.todo)
        BY <2>1, <3>1 DEF Reads
      <3>4. \/ /\ call.op = "page" /\ call.chain = Ancestors(call.id)
               /\ Holds(call.listed, {call.id})
            \/ /\ call.op = "districts" /\ Holds(call.listed, ActiveDistricts)
        BY <3>2, <3>3, Zenon
      <3> QED  BY <3>4 DEF Current
    <2> QED  BY <2>1, <2>2, ReplyStep
  <1>7. CASE Quicksearch
    <2>1. /\ call.at = "quicksearch" /\ call.op = "quicksearch"
          /\ status[call.id] = "active"
          /\ Reply(200, Slug(call.id), {})
      BY <1>0, <1>7 DEF Quicksearch, Reading, Ops
    <2>2. Current([op |-> call.op, id |-> call.id, code |-> 200,
                   chain |-> Slug(call.id), listed |-> {}])
      BY <2>1 DEF Current
    <2> QED  BY <2>1, <2>2, ReplyStep
  <1>8. CASE NoHit
    BY <1>8, IdleStep DEF NoHit
  <1>9. CASE ResolveFocus
    <2>1. call.at = "search" /\ call.op = "search"
      BY <1>0, <1>9 DEF ResolveFocus, Reading, Ops
    <2>2. CASE status[call.id] = "deleted" /\ Refuse(404)
      <3>1. Reply(404, <<>>, {})
        BY <2>2 DEF Refuse
      <3>2. Current([op |-> call.op, id |-> call.id, code |-> 404, chain |-> <<>>, listed |-> {}])
        BY <2>1, <2>2 DEF Current
      <3> QED  BY <2>1, <3>1, <3>2, ReplyStep
    <2>3. CASE Serving("cafes", Breadcrumb(call.id), {}, {}) /\ Quiet
      <3>1. /\ call'.at = "cafes" /\ call'.op = "search" /\ call'.id = call.id
            /\ call'.chain = Breadcrumb(call.id)
        BY <1>0, <2>1, <2>3, ServingReading
      <3>2. \A c : c = call' => Reads(c)
        BY <3>1 DEF Reads
      <3> QED  BY <2>3, <3>1, <3>2, ServingStep
    <2> QED  BY <1>9, <2>2, <2>3 DEF ResolveFocus
  <1>10. CASE Search
    <2>1. /\ call.at = "cafes" /\ call.op = "search"
          /\ Reply(200, call.chain, CafesIn(call.id))
      BY <1>0, <1>10 DEF Search, Reading
    <2>2. ASSUME calm
          PROVE  Current([op |-> call.op, id |-> call.id, code |-> 200,
                          chain |-> call.chain, listed |-> CafesIn(call.id)])
      <3>1. Reads(call)
        BY <1>0, <2>2 DEF Reading
      <3> QED  BY <2>1, <3>1 DEF Reads, Current
    <2> QED  BY <2>1, <2>2, ReplyStep
  <1>11. CASE LocationNameAt
    <2>1. /\ call.at = "spot" /\ call.op = "spot" /\ Reply(200, NameAt(call.id), {})
      BY <1>0, <1>11 DEF LocationNameAt, Reading, Ops
    <2>2. Current([op |-> call.op, id |-> call.id, code |-> 200,
                   chain |-> NameAt(call.id), listed |-> {}])
      BY <2>1 DEF Current
    <2> QED  BY <2>1, <2>2, ReplyStep
  <1>12. CASE CafeByLocationID
    <2>1. /\ call.at = "cafe" /\ call.op = "cafe" /\ TypeOf[call.id] = "cafe"
          /\ Reply(200, CafeLocations(call.id), {})
      BY <1>0, <1>12 DEF CafeByLocationID, Reading, Ops
    <2>2. Current([op |-> call.op, id |-> call.id, code |-> 200,
                   chain |-> CafeLocations(call.id), listed |-> {}])
      BY <2>1 DEF Current
    <2> QED  BY <2>1, <2>2, ReplyStep
  <1>13. CASE DbError
    BY <1>13, IdleStep DEF DbError
  <1>14. ASSUME NEW x \in Locs, NEW st \in Statuses, SetStatus(x, st)  PROVE Goal'
    BY <1>14, ChangeStep DEF SetStatus
  <1>15. ASSUME NEW m \in Maps, Redraw(m)  PROVE Goal'
    BY <1>15, ChangeStep DEF Redraw
  <1>16. CASE UNCHANGED vars
    <2>1. call' = call /\ calm' = calm /\ seen' = seen /\ UNCHANGED tables
      BY <1>16 DEF vars
    <2>2. ASSUME NEW r \in seen'  PROVE Current(r)'
      <3>1. Current(r)
        BY <2>1 DEF IInv
      <3> QED  BY <2>1, <3>1, CurrentStays
    <2>3. ASSUME calm', NEW c \in {call'}  PROVE Reads(c)'
      <3>1. Reads(c)
        BY <1>0, <2>1, <2>3 DEF Reading
      <3> QED  BY <2>1, <3>1, ReadsStay
    <2>4. Reading'
      BY <1>0, <2>1, <2>3 DEF Reading
    <2> QED  BY <2>2, <2>4
  <1> QED
    BY <1>1, <1>2, <1>3, <1>4, <1>5, <1>6, <1>7, <1>8, <1>9, <1>10, <1>11, <1>12,
       <1>13, <1>14, <1>15, <1>16 DEF Next, Serve

LEMMA Invariance ==
  Spec => []IInv
  <1>1. Init => IInv
    BY InitType DEF IInv, Init, Reading, Reads, Idle, Ops
  <1>2. IInv /\ [Next]_vars => IInv'
    BY TypeStep, CurrentStep DEF IInv
  <1> QED  BY <1>1, <1>2, PTL DEF Spec

----------------------------------------------------------------------------
(* The queries on one status and one map *)

Active(t, y) == TypeOf[y] = t /\ status[y] = "active"

\* A district and an area found in the same rows, one after the other
LEMMA Chains ==
  ASSUME NEW rows \in SUBSET Locs
  PROVE  LET d == First("district", rows)
             a == First("area", rows)
         IN \/ d = <<>> /\ a = <<>> /\ d \o a = <<>>
            \/ \E y \in rows : d = <<y>> /\ a = <<>> /\ d \o a = <<y>> /\ Active("district", y)
            \/ \E z \in rows : d = <<>> /\ a = <<z>> /\ d \o a = <<z>> /\ Active("area", z)
            \/ \E y, z \in rows : /\ d = <<y>> /\ a = <<z>> /\ d \o a = <<y, z>>
                                  /\ Active("district", y) /\ Active("area", z)
  <1> DEFINE d == First("district", rows)
             a == First("area", rows)
  <1>1. d = <<>> \/ \E y \in rows : d = <<y>> /\ Active("district", y)
    BY FirstCases DEF Active
  <1>2. a = <<>> \/ \E z \in rows : a = <<z>> /\ Active("area", z)
    BY FirstCases DEF Active
  <1> HIDE DEF d, a
  <1>3. CASE d = <<>> /\ a = <<>>
    <2>1. d \o a = <<>>
      BY <1>3
    <2> QED  BY <1>3, <2>1 DEF d, a
  <1>4. ASSUME a = <<>>, NEW y \in rows, d = <<y>>, Active("district", y)
        PROVE  d \o a = <<y>>
    BY <1>4
  <1>5. ASSUME d = <<>>, NEW z \in rows, a = <<z>>, Active("area", z)
        PROVE  d \o a = <<z>>
    BY <1>5
  <1>6. ASSUME NEW y \in rows, d = <<y>>, NEW z \in rows, a = <<z>>
        PROVE  d \o a = <<y, z>>
    BY <1>6, PairOf
  <1> QED  BY <1>1, <1>2, <1>3, <1>4, <1>5, <1>6 DEF d, a

LEMMA Seen ==
  ASSUME IInv, NEW r \in seen
  PROVE  Current(r) /\ r.id \in Locs
  BY DEF IInv, TypeOK, Response

\* The chain that a cafe's page, a search and a spot show
LEMMA CafeChain ==
  ASSUME NEW c \in Locs
  PROVE  /\ \A i \in DOMAIN CafeLocations(c) :
               LET y == CafeLocations(c)[i]
               IN y \in Within(c) /\ (Active("district", y) \/ Active("area", y))
         /\ AreaOf(CafeLocations(c)) = First("area", Within(c))
         /\ Innermost(CafeLocations(c)) = NameAt(c)
  <1> DEFINE d == First("district", Within(c))
             a == First("area", Within(c))
  <1>1. CafeLocations(c) = d \o a /\ NameAt(c) = IF a # <<>> THEN a ELSE d
    BY DEF CafeLocations, NameAt
  <1>2. \/ d = <<>> /\ a = <<>> /\ d \o a = <<>>
        \/ \E y \in Within(c) : d = <<y>> /\ a = <<>> /\ d \o a = <<y>> /\ Active("district", y)
        \/ \E z \in Within(c) : d = <<>> /\ a = <<z>> /\ d \o a = <<z>> /\ Active("area", z)
        \/ \E y, z \in Within(c) : /\ d = <<y>> /\ a = <<z>> /\ d \o a = <<y, z>>
                                   /\ Active("district", y) /\ Active("area", z)
    BY SpacesWithin, Chains
  <1> HIDE DEF d, a
  <1>3. CASE d = <<>> /\ a = <<>> /\ d \o a = <<>>
    BY <1>1, <1>3 DEF AreaOf, Innermost, a
  <1>4. ASSUME NEW y \in Within(c), d = <<y>>, a = <<>>, d \o a = <<y>>, Active("district", y)
        PROVE  /\ \A i \in DOMAIN <<y>> : <<y>>[i] = y
               /\ AreaOf(<<y>>) = <<>> /\ Innermost(<<y>>) = <<y>>
    BY <1>4 DEF AreaOf, Innermost, Active
  <1>5. ASSUME NEW z \in Within(c), d = <<>>, a = <<z>>, d \o a = <<z>>, Active("area", z)
        PROVE  /\ \A i \in DOMAIN <<z>> : <<z>>[i] = z
               /\ AreaOf(<<z>>) = <<z>> /\ Innermost(<<z>>) = <<z>>
    BY <1>5 DEF AreaOf, Innermost, Active
  <1>6. ASSUME NEW y \in Within(c), NEW z \in Within(c), Active("area", z)
        PROVE  /\ \A i \in DOMAIN <<y, z>> : <<y, z>>[i] \in {y, z}
               /\ AreaOf(<<y, z>>) = <<z>> /\ Innermost(<<y, z>>) = <<z>>
    BY <1>6 DEF AreaOf, Innermost, Active
  <1>7. ASSUME NEW y  PROVE <<y>> # <<>>
    OBVIOUS
  <1>8. CASE \E y \in Within(c) : d = <<y>> /\ a = <<>> /\ d \o a = <<y>> /\ Active("district", y)
    BY <1>1, <1>4, <1>8 DEF a
  <1>9. CASE \E z \in Within(c) : d = <<>> /\ a = <<z>> /\ d \o a = <<z>> /\ Active("area", z)
    BY <1>1, <1>5, <1>7, <1>9 DEF a
  <1>10. CASE \E y, z \in Within(c) : /\ d = <<y>> /\ a = <<z>> /\ d \o a = <<y, z>>
                                      /\ Active("district", y) /\ Active("area", z)
    <2>1. PICK y \in Within(c), z \in Within(c) :
             /\ d = <<y>> /\ a = <<z>> /\ d \o a = <<y, z>>
             /\ Active("district", y) /\ Active("area", z)
      BY <1>10
    <2>2. CafeLocations(c) = <<y, z>> /\ NameAt(c) = <<z>>
      BY <1>1, <1>7, <2>1
    <2> QED  BY <1>6, <2>1, <2>2 DEF a
  <1> QED  BY <1>2, <1>3, <1>8, <1>9, <1>10

LEMMA NamedAreas ==
  IInv => NamedAreaHasCafe
  <1> SUFFICES ASSUME IInv, NEW c \in Got("cafe"), status[c.id] = "active"
               PROVE  /\ \A s \in seen :
                            s.op = "search" /\ s.id \in {c.chain[i] : i \in DOMAIN c.chain} =>
                               /\ s.code = 200
                               /\ \E row \in s.listed : row.id = c.id /\ row.of = AreaOf(c.chain)
                      /\ \A s \in Got("spot") : s.id = c.id => s.chain = Innermost(c.chain)
    BY DEF NamedAreaHasCafe
  <1>1. c \in seen /\ c.id \in Locs /\ TypeOf[c.id] = "cafe" /\ c.chain = CafeLocations(c.id)
    BY Seen DEF Got, Current
  <1>2. ASSUME NEW s \in seen, s.op = "search", s.id \in {c.chain[i] : i \in DOMAIN c.chain}
        PROVE  /\ s.code = 200
               /\ \E row \in s.listed : row.id = c.id /\ row.of = AreaOf(c.chain)
    <2>1. s.id \in Within(c.id) /\ (Active("district", s.id) \/ Active("area", s.id))
      BY <1>1, <1>2, CafeChain
    <2>2. s.code = 200 /\ s.listed = CafesIn(s.id)
      BY <1>2, <2>1, Seen DEF Current, Active
    <2> DEFINE row == [id |-> c.id, of |-> First("area", Within(c.id))]
    <2>3. row \in CafesIn(s.id)
      BY <1>1, <2>1 DEF CafesIn, Active
    <2>4. row.id = c.id /\ row.of = AreaOf(c.chain)
      BY <1>1, CafeChain
    <2> QED  BY <2>2, <2>3, <2>4
  <1>3. ASSUME NEW s \in Got("spot"), s.id = c.id  PROVE s.chain = Innermost(c.chain)
    <2>1. s \in seen /\ s.chain = NameAt(s.id)
      BY Seen DEF Got, Current
    <2> QED  BY <1>1, <1>3, <2>1, CafeChain
  <1> QED  BY <1>2, <1>3

LEMMA SlugShape ==
  ASSUME NEW x \in Locs, status[x] = "active", NEW i \in DOMAIN Slug(x)
  PROVE  /\ Slug(x)[i] \in Locs /\ status[Slug(x)[i]] = "active"
         /\ TypeOf[Slug(x)[i]] = <<"district", "area", "poi">>[i]
         /\ TypeOf[Slug(x)[i]] # "cafe"
  <1> DEFINE d == First("district", SurfaceWithin(x))
             a == First("area", SurfaceWithin(x))
             Good(s) == \A j \in DOMAIN s : /\ s[j] \in Locs /\ status[s[j]] = "active"
                                            /\ TypeOf[s[j]] = <<"district", "area", "poi">>[j]
                                            /\ TypeOf[s[j]] # "cafe"
  <1>1. \/ Slug(x) = <<>>
        \/ TypeOf[x] = "district" /\ Slug(x) = <<x>>
        \/ TypeOf[x] = "area" /\ d # <<>> /\ Slug(x) = d \o <<x>>
        \/ TypeOf[x] = "poi" /\ d # <<>> /\ a # <<>> /\ Slug(x) = d \o a \o <<x>>
    BY TypeAssumption DEF Slug, Types
  <1>2. /\ d = <<>> \/ \E y \in Locs : d = <<y>> /\ Active("district", y)
        /\ a = <<>> \/ \E z \in Locs : a = <<z>> /\ Active("area", z)
    BY SpacesWithin, FirstCases DEF Active
  <1> HIDE DEF d, a
  <1>3. CASE Slug(x) = <<>>
    BY <1>3
  <1>4. CASE TypeOf[x] = "district" /\ Slug(x) = <<x>>
    <2>1. Good(<<x>>)
      BY <1>4
    <2> QED  BY <1>4, <2>1
  <1>5. CASE TypeOf[x] = "area" /\ d # <<>> /\ Slug(x) = d \o <<x>>
    <2>1. PICK y \in Locs : d = <<y>> /\ Active("district", y)
      BY <1>2, <1>5
    <2>2. Slug(x) = <<y, x>>
      BY <1>5, <2>1, PairOf
    <2>3. Good(<<y, x>>)
      BY <1>5, <2>1 DEF Active
    <2> QED  BY <2>2, <2>3
  <1>6. CASE TypeOf[x] = "poi" /\ d # <<>> /\ a # <<>> /\ Slug(x) = d \o a \o <<x>>
    <2>1. PICK y \in Locs, z \in Locs : /\ d = <<y>> /\ Active("district", y)
                                        /\ a = <<z>> /\ Active("area", z)
      BY <1>2, <1>6
    <2>2. Slug(x) = <<y, z, x>>
      <3>1. <<y>> \o <<z>> = <<y, z>> /\ <<y, z>> \o <<x>> = <<y, z, x>>
        BY PairOf, TripleOf
      <3> QED  BY <1>6, <2>1, <3>1, Zenon
    <2>3. Good(<<y, z, x>>)
      BY <1>6, <2>1 DEF Active
    <2> QED  BY <2>2, <2>3
  <1> QED  BY <1>1, <1>3, <1>4, <1>5, <1>6

LEMMA SlugPages ==
  IInv => SlugHasPages
  <1> SUFFICES ASSUME IInv, NEW q \in Got("quicksearch")
               PROVE  /\ \A r \in seen :
                            r.op = "page" /\ r.id \in {q.chain[i] : i \in DOMAIN q.chain} =>
                               r.code = 200
                      /\ \A i \in DOMAIN q.chain :
                            TypeOf[q.chain[i]] = <<"district", "area", "poi">>[i]
    BY DEF SlugHasPages
  <1>1. q.id \in Locs /\ status[q.id] = "active" /\ q.chain = Slug(q.id)
    BY Seen DEF Got, Current
  <1>2. ASSUME NEW i \in DOMAIN q.chain
        PROVE  /\ q.chain[i] \in Locs /\ status[q.chain[i]] = "active"
               /\ TypeOf[q.chain[i]] = <<"district", "area", "poi">>[i]
               /\ TypeOf[q.chain[i]] # "cafe"
    BY <1>1, SlugShape
  <1>3. ASSUME NEW r \in seen, r.op = "page", r.id \in {q.chain[i] : i \in DOMAIN q.chain}
        PROVE  r.code = 200
    <2>1. status[r.id] # "deleted" /\ TypeOf[r.id] # "cafe"
      BY <1>2, <1>3
    <2> QED  BY <1>3, <2>1, Seen DEF Current
  <1> QED  BY <1>2, <1>3

LEMMA FirstSame ==
  ASSUME NEW t, NEW rows, NEW others,
         \A y : y \in rows /\ Active(t, y) <=> y \in others /\ Active(t, y)
  PROVE  First(t, rows) = First(t, others)
  <1>1. {y \in rows : TypeOf[y] = t /\ status[y] = "active"}
        = {y \in others : TypeOf[y] = t /\ status[y] = "active"}
    BY DEF Active
  <1> DEFINE Lowest(found) == IF found = {} THEN <<>>
                              ELSE <<CHOOSE y \in found : \A z \in found : y <= z>>
  <1>2. \A S : First(t, S) = Lowest({y \in S : TypeOf[y] = t /\ status[y] = "active"})
    BY DEF First
  <1> HIDE DEF Lowest
  <1> QED  BY <1>1, <1>2, Zenon

\* A page names the district, and a poi's page the area, that other pages name.
LEMMA AncestorsAre ==
  ASSUME NEW x \in Locs
  PROVE  /\ TypeOf[x] = "area" => Ancestors(x) = First("district", SurfaceWithin(x)) \o <<>>
         /\ TypeOf[x] = "poi" => Ancestors(x) = First("district", SurfaceWithin(x))
                                               \o First("area", SurfaceWithin(x))
  <1> DEFINE rows == {y \in SurfaceWithin(x) :
                        TypeOf[y] = "district" \/ (TypeOf[y] = "area" /\ TypeOf[x] = "poi")}
  <1>1. Ancestors(x) = First("district", rows) \o First("area", rows)
    BY DEF Ancestors
  <1>2. First("district", rows) = First("district", SurfaceWithin(x))
    <2>1. \A y : y \in rows /\ Active("district", y)
                <=> y \in SurfaceWithin(x) /\ Active("district", y)
      BY DEF Active
    <2> HIDE DEF rows
    <2> QED  BY <2>1, FirstSame
  <1>3. ASSUME TypeOf[x] = "poi"
        PROVE  First("area", rows) = First("area", SurfaceWithin(x))
    <2>1. \A y : y \in rows /\ Active("area", y)
                <=> y \in SurfaceWithin(x) /\ Active("area", y)
      BY <1>3 DEF Active
    <2> HIDE DEF rows
    <2> QED  BY <2>1, FirstSame
  <1>4. ASSUME TypeOf[x] = "area"  PROVE First("area", rows) = <<>>
    <2>1. rows \in SUBSET Locs /\ \A y \in rows : TypeOf[y] # "area"
      BY <1>4, SpacesWithin
    <2> HIDE DEF rows
    <2> QED  BY <2>1, FirstCases
  <1> HIDE DEF rows
  <1> QED  BY <1>1, <1>2, <1>3, <1>4

LEMMA Lengths ==
  /\ Len(<<>>) = 0
  /\ \A x : Len(<<x>>) = 1 /\ <<x>> # <<>>
  /\ \A x, y : Len(<<x, y>>) = 2
  /\ \A x, y, z : Len(<<x, y, z>>) = 3
  OBVIOUS

LEMMA Addresses ==
  ASSUME NEW x \in Locs, TypeOf[x] \in {"area", "poi"}
  PROVE  LET path == Ancestors(x) \o <<x>>
         IN /\ Breadcrumb(x) = path
            /\ Slug(x) = IF Len(path) = (IF TypeOf[x] = "poi" THEN 3 ELSE 2)
                         THEN path ELSE <<>>
  <1> DEFINE d == First("district", SurfaceWithin(x))
             a == First("area", SurfaceWithin(x))
  <1>1. \/ d = <<>> /\ a = <<>> /\ d \o a = <<>>
        \/ \E y : d = <<y>> /\ a = <<>> /\ d \o a = <<y>>
        \/ \E z : d = <<>> /\ a = <<z>> /\ d \o a = <<z>>
        \/ \E y, z : d = <<y>> /\ a = <<z>> /\ d \o a = <<y, z>>
    BY SpacesWithin, Chains
  <1>2. <<>> \o <<x>> = <<x>>
    OBVIOUS
  <1>3. CASE TypeOf[x] = "area"
    <2>1. /\ Ancestors(x) = d \o <<>>
          /\ Breadcrumb(x) = d \o <<>> \o <<x>>
          /\ Slug(x) = IF d = <<>> THEN <<>> ELSE d \o <<x>>
      BY <1>3, AncestorsAre DEF Breadcrumb, Slug
    <2>2. d \o <<>> = d
      BY FirstSpaces, ConcatEmptySeq
    <2> HIDE DEF d, a
    <2>3. CASE d = <<>>
      BY <1>2, <1>3, <2>1, <2>2, <2>3, Lengths
    <2>4. ASSUME NEW y, d = <<y>>
          PROVE  /\ Breadcrumb(x) = Ancestors(x) \o <<x>>
                 /\ Len(Ancestors(x) \o <<x>>) = 2 /\ Slug(x) = Ancestors(x) \o <<x>>
      <3>1. <<y>> \o <<x>> = <<y, x>>
        BY PairOf
      <3>2. Len(<<y, x>>) = 2 /\ <<y>> # <<>>
        BY Lengths
      <3>3. Slug(x) = d \o <<x>>
        BY <2>1, <2>4, <3>2
      <3> QED  BY <2>1, <2>2, <2>4, <3>1, <3>2, <3>3, Zenon
    <2> QED  BY <1>1, <1>3, <2>3, <2>4
  <1>4. CASE TypeOf[x] = "poi"
    <2>1. /\ Ancestors(x) = d \o a
          /\ Breadcrumb(x) = d \o a \o <<x>>
          /\ Slug(x) = IF d = <<>> \/ a = <<>> THEN <<>> ELSE d \o a \o <<x>>
      BY <1>4, AncestorsAre DEF Breadcrumb, Slug
    <2> HIDE DEF d, a
    <2>2. CASE d = <<>> /\ a = <<>> /\ d \o a = <<>>
      BY <1>2, <1>4, <2>1, <2>2, Lengths
    <2>3. ASSUME NEW y, d \o a = <<y>>, d = <<>> \/ a = <<>>
          PROVE  /\ Breadcrumb(x) = Ancestors(x) \o <<x>>
                 /\ Len(Ancestors(x) \o <<x>>) # 3 /\ Slug(x) = <<>>
      <3>1. <<y>> \o <<x>> = <<y, x>>
        BY PairOf
      <3>2. Len(<<y, x>>) = 2 /\ 2 # 3
        BY Lengths
      <3>3. Slug(x) = <<>>
        BY <2>1, <2>3
      <3> QED  BY <2>1, <2>3, <3>1, <3>2, <3>3, Zenon
    <2>4. ASSUME NEW y, NEW z, d = <<y>>, a = <<z>>, d \o a = <<y, z>>
          PROVE  /\ Breadcrumb(x) = Ancestors(x) \o <<x>>
                 /\ Len(Ancestors(x) \o <<x>>) = 3 /\ Slug(x) = Ancestors(x) \o <<x>>
      <3>1. <<y, z>> \o <<x>> = <<y, z, x>>
        BY TripleOf
      <3>2. Len(<<y, z, x>>) = 3 /\ <<y>> # <<>> /\ <<z>> # <<>>
        BY Lengths
      <3>3. Slug(x) = d \o a \o <<x>>
        BY <2>1, <2>4, <3>2
      <3> QED  BY <2>1, <2>4, <3>1, <3>2, <3>3, Zenon
    <2> QED  BY <1>1, <1>4, <2>2, <2>3, <2>4
  <1> QED  BY <1>3, <1>4

LEMMA Addressed ==
  IInv => OneAddress
  <1> SUFFICES ASSUME IInv, NEW p \in Got("page"), TypeOf[p.id] \in {"area", "poi"}
               PROVE  /\ \A s \in Got("search") : s.id = p.id => s.chain = Path(p)
                      /\ \A q \in Got("quicksearch") :
                            q.id = p.id =>
                               q.chain = IF Len(Path(p)) = (IF TypeOf[p.id] = "poi" THEN 3 ELSE 2)
                                         THEN Path(p) ELSE <<>>
    BY DEF OneAddress
  <1>1. p.id \in Locs /\ Path(p) = Ancestors(p.id) \o <<p.id>>
    BY Seen DEF Got, Current, Path
  <1>2. ASSUME NEW s \in Got("search"), s.id = p.id  PROVE s.chain = Path(p)
    <2>1. s \in seen /\ s.op = "search" /\ s.code = 200 /\ Current(s)
      BY Seen DEF Got
    <2>2. s.chain = Breadcrumb(s.id)
      BY <2>1 DEF Current
    <2> QED  BY <1>1, <1>2, <2>2, Addresses
  <1>3. ASSUME NEW q \in Got("quicksearch"), q.id = p.id
        PROVE  q.chain = IF Len(Path(p)) = (IF TypeOf[p.id] = "poi" THEN 3 ELSE 2)
                         THEN Path(p) ELSE <<>>
    <2>1. q \in seen /\ q.op = "quicksearch" /\ Current(q)
      BY Seen DEF Got
    <2>2. q.chain = Slug(q.id)
      BY <2>1 DEF Current
    <2> QED  BY <1>1, <1>3, <2>2, Addresses
  <1> QED  BY <1>2, <1>3

AncestorsOf(x) == {Ancestors(x)[i] : i \in DOMAIN Ancestors(x)}

\* Ancestors and descendants are the same relation read twice, up to the lowest id.
LEMMA ChildOfAncestor ==
  ASSUME TypeOK, NEW x \in Locs, TypeOf[x] \in {"area", "poi"}, status[x] = "active",
         NEW y \in Locs, Active(ParentType(x), y)
  PROVE  /\ y \in AncestorsOf(x) => x \in Descendants(y)
         /\ x \in Descendants(y) =>
               \E z \in AncestorsOf(x) : TypeOf[z] = TypeOf[y] /\ z <= y
  <1> DEFINE d == First("district", SurfaceWithin(x))
             a == First("area", SurfaceWithin(x))
             rows == SurfaceWithin(x)
  <1>1. x \in Descendants(y) <=> y \in rows
    <2>1. /\ map.whole \subseteq map.surface
          /\ TypeOf[x] = "poi" => (<<x, y>> \in map.surface => <<x, y>> \in map.whole)
      BY MapsAssumption DEF TypeOK
    <2>2. x # y
      BY DEF Active, ParentType
    <2> QED  BY <2>1, <2>2 DEF Descendants, Within, SurfaceWithin, Active, ParentType
  <1>2. /\ \/ d = <<>> /\ \A z \in rows : ~Active("district", z)
           \/ \E u \in rows : /\ d = <<u>> /\ Active("district", u)
                               /\ \A z \in rows : Active("district", z) => u <= z
        /\ \/ a = <<>> /\ \A z \in rows : ~Active("area", z)
           \/ \E u \in rows : /\ a = <<u>> /\ Active("area", u)
                               /\ \A z \in rows : Active("area", z) => u <= z
    BY SpacesWithin, FirstCases DEF Active
  <1>3. /\ TypeOf[x] = "area" => Ancestors(x) = d \o <<>>
        /\ TypeOf[x] = "poi" => Ancestors(x) = d \o a
    BY AncestorsAre
  <1>4. d \o <<>> = d
    BY FirstSpaces, ConcatEmptySeq
  <1> DEFINE parents == AncestorsOf(x)
             own == IF TypeOf[x] = "poi" THEN a ELSE d
  <1> HIDE DEF d, a, rows
  <1>5. \A u : /\ \A i \in DOMAIN <<u>> : <<u>>[i] = u
              /\ 1 \in DOMAIN <<u>> /\ <<u>>[1] = u
    OBVIOUS
  <1>6. \A u, v : /\ \A i \in DOMAIN <<u, v>> : <<u, v>>[i] \in {u, v}
                 /\ 2 \in DOMAIN <<u, v>> /\ <<u, v>>[2] = v
    OBVIOUS
  <1>7. DOMAIN <<>> = {}
    OBVIOUS
  <1>8. /\ own = <<>> => \A z \in parents : TypeOf[z] # ParentType(x)
        /\ \A u : own = <<u>> => u \in parents /\ \A z \in parents : TypeOf[z] = ParentType(x) => z = u
    <2>1. CASE TypeOf[x] = "area"
      <3>1. own = d /\ Ancestors(x) = d
        BY <1>3, <1>4, <2>1
      <3> QED  BY <1>5, <1>7, <3>1 DEF AncestorsOf
    <2>2. CASE TypeOf[x] = "poi"
      <3>1. own = a /\ Ancestors(x) = d \o a /\ ParentType(x) = "area"
        BY <1>3, <2>2 DEF ParentType
      <3>2. CASE d = <<>> /\ a = <<>>
        <4>1. Ancestors(x) = <<>>
          BY <3>1, <3>2
        <4> QED  BY <1>7, <3>1, <3>2, <4>1, Lengths DEF AncestorsOf
      <3>3. ASSUME NEW u, d = <<u>>, Active("district", u), a = <<>>
            PROVE  own = <<>> /\ \A z \in parents : TypeOf[z] # ParentType(x)
        <4>1. Ancestors(x) = <<u>>
          BY <3>1, <3>3
        <4> QED  BY <1>5, <3>1, <3>3, <4>1 DEF Active, AncestorsOf
      <3>4. ASSUME d = <<>>, NEW v, a = <<v>>
            PROVE  /\ own = <<v>> /\ v \in parents
                   /\ \A z \in parents : TypeOf[z] = ParentType(x) => z = v
        <4>1. Ancestors(x) = <<v>>
          BY <3>1, <3>4
        <4> QED  BY <1>5, <3>1, <3>4, <4>1 DEF AncestorsOf
      <3>5. ASSUME NEW u, d = <<u>>, Active("district", u), NEW v, a = <<v>>
            PROVE  /\ own = <<v>> /\ v \in parents
                   /\ \A z \in parents : TypeOf[z] = ParentType(x) => z = v
        <4>1. Ancestors(x) = <<u, v>>
          BY <3>1, <3>5, PairOf
        <4> QED  BY <1>6, <3>1, <3>5, <4>1 DEF Active, AncestorsOf
      <3>6. \A u, v : <<u>> # <<>> /\ (<<u>> = <<v>> => u = v)
        OBVIOUS
      <3>7. d = <<>> \/ \E u : d = <<u>> /\ Active("district", u)
        BY <1>2
      <3>8. a = <<>> \/ \E v : a = <<v>>
        BY <1>2
      <3> HIDE DEF parents, own
      <3> QED  BY <3>2, <3>3, <3>4, <3>5, <3>6, <3>7, <3>8
    <2> QED  BY <2>1, <2>2
  <1>9. \/ own = <<>> /\ \A z \in rows : ~Active(ParentType(x), z)
        \/ \E u \in rows : /\ own = <<u>> /\ Active(ParentType(x), u)
                            /\ \A z \in rows : Active(ParentType(x), z) => u <= z
    BY <1>2 DEF ParentType
  <1> HIDE DEF parents, own
  <1>10. /\ y \in parents => y \in rows
         /\ y \in rows => \E z \in parents : TypeOf[z] = TypeOf[y] /\ z <= y
    BY <1>8, <1>9 DEF Active
  <1> QED  BY <1>1, <1>10 DEF parents

LEMMA Listed ==
  IInv => ParentListsChild
  <1> SUFFICES ASSUME IInv, NEW p \in Got("page"), TypeOf[p.id] \in {"area", "poi"},
                      status[p.id] = "active", NEW r \in Got("page") \cup Got("districts"),
                      NEW y \in Locs, TypeOf[y] = ParentType(p.id), status[y] = "active",
                      Shows(r, y)
               PROVE  LET parents == {p.chain[i] : i \in DOMAIN p.chain}
                      IN /\ y \in parents => Lists(r, y, p.id)
                         /\ Lists(r, y, p.id) =>
                               \E z \in parents : TypeOf[z] = TypeOf[y] /\ z <= y
    BY DEF ParentListsChild
  <1>1. p.id \in Locs /\ p.chain = Ancestors(p.id)
    BY Seen DEF Got, Current
  <1>2. Lists(r, y, p.id) <=> p.id \in Descendants(y)
    <2>1. CASE r.op = "page" /\ r.id = y
      <3>1. Holds(r.listed, {y})
        BY <2>1, Seen DEF Got, Current
      <3> QED  BY <1>1, <3>1 DEF Holds, Lists
    <2>2. CASE r.op # "page" \/ r.id # y
      <3>1. Holds(r.listed, ActiveDistricts) /\ y \in ActiveDistricts
        BY <2>2, Seen DEF Got, Current, Shows, ActiveDistricts
      <3> QED  BY <1>1, <3>1 DEF Holds, Lists
    <2> QED  BY <2>1, <2>2
  <1>3. TypeOK /\ Active(ParentType(p.id), y)
    BY DEF IInv, Active
  <1>4. {p.chain[i] : i \in DOMAIN p.chain} = AncestorsOf(p.id)
    BY <1>1 DEF AncestorsOf
  <1> QED  BY <1>1, <1>2, <1>3, <1>4, ChildOfAncestor

----------------------------------------------------------------------------
\* While nothing changes, the page, the search and the quicksearch of an area
\* or poi agree on where it is.
THEOREM OneAddressAlways ==
  Spec => []OneAddress
  <1> QED  BY Invariance, Addressed, PTL

\* While nothing changes, the ancestors of a page and the descendants of another,
\* which two different queries compute, agree on who is whose child.
THEOREM ParentListsChildAlways ==
  Spec => []ParentListsChild
  <1> QED  BY Invariance, Listed, PTL

\* While nothing changes, a cafe is found in the places that its page names, and
\* its spot has the name of the innermost.
THEOREM NamedAreaHasCafeAlways ==
  Spec => []NamedAreaHasCafe
  <1> QED  BY Invariance, NamedAreas, PTL

\* While nothing changes, every segment of a slug that the quicksearch returns
\* leads to a page.
THEOREM SlugHasPagesAlways ==
  Spec => []SlugHasPages
  <1> QED  BY Invariance, SlugPages, PTL
=============================================================================
