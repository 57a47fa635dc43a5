-------------------------- MODULE CafeSearchProofs --------------------------
(***************************************************************************)
(* Proofs about CafeSearch: types, the weather of a response, how far away *)
(* its cafes are, and that the pages of a walk are those of one order.     *)
(***************************************************************************)
EXTENDS CafeSearch, FiniteSetTheorems, SequenceTheorems, WellFoundedInduction, TLAPS

\* A query that passed the handler and validate
Fit(q) ==
    /\ q \in Query
    /\ q.id = Null <=> q.type = Null
    /\ q.coords # Null => q.id = Null
    /\ q.type \in {Null, "cafe", "poi", "area", "district"}
    /\ q.weather \subseteq conditions \/ q.weather = {"current"}
    /\ q.coords \in {Null} \cup Spots
    /\ q.radius \in {Null} \cup Positive
    /\ q.size \in {Null} \cup Positive

\* What validate makes of it
Answers(req, q) ==
    /\ req.id = q.id /\ req.type = q.type /\ req.coords = q.coords /\ req.weather = q.weather
    /\ req.radius = RadiusMax(q)
    /\ req.size \in 1..maxPageSize
    /\ req.page \in Positive

CallInv ==
    call # NoCall =>
        /\ call = [at |-> call.at, req |-> call.req, weather |-> call.weather,
                   banner |-> call.banner]
        /\ Fit(walk.query)
        /\ Answers(call.req, walk.query)
        /\ call.at = "rows" /\ call.req.weather = {"current"} =>
              call.weather = {call.banner} \ {Null}

ReplyInv == reply.code = 200 => Fit(walk.query) /\ reply.page \in Positive

WalkInv == walk = [query |-> walk.query, pages |-> walk.pages, calm |-> walk.calm]

IInv == TypeOK /\ CallInv /\ ReplyInv /\ WalkInv

----------------------------------------------------------------------------
(* Queries *)

LEMMA MinOfTwo ==
    ASSUME NEW a \in Int, NEW b \in Int
    PROVE  Min({a, b}) = IF a <= b THEN a ELSE b
<1> DEFINE least == IF a <= b THEN a ELSE b
<1>1. least \in {a, b} /\ \A y \in {a, b} : least =< y  OBVIOUS
<1>2. \A x \in {a, b} : (\A y \in {a, b} : x =< y) => x = least  OBVIOUS
<1> QED  BY <1>1, <1>2 DEF Min

LEMMA AcceptedIsFit ==
    ASSUME NEW q \in Query, Parsed(q), Valid(q)
    PROVE  Fit(q)
<1>1. q.coords # Bad /\ q.radius # Bad /\ q.size # Bad  BY DEF Parsed, Query
<1> QED  BY <1>1 DEF Fit, Valid, Query, Sent

LEMMA NormalisedAnswers ==
    ASSUME NEW q, Fit(q), q.page \in {Null} \cup Positive
    PROVE  Answers(Normalised(q), q)
<1> DEFINE req == Normalised(q)
<1>1. q \in Query  BY DEF Fit
<1>2. /\ req.id = q.id /\ req.type = q.type /\ req.coords = q.coords /\ req.weather = q.weather
      /\ req.radius = RadiusMax(q) /\ req.size = Size(q) /\ req.page = Default(q.page, 1)
  BY <1>1 DEF Normalised, Query
<1>3. Default(q.size, 8) \in Positive  BY DEF Fit, Default, Positive
<1>4. Size(q) \in 1..maxPageSize  BY <1>3, MinOfTwo DEF Size, maxPageSize, Positive
<1>5. Default(q.page, 1) \in Positive  BY DEF Default, Positive
<1> QED  BY <1>2, <1>4, <1>5 DEF Answers

\* The query of a further page differs in its page only.
LEMMA NextIsFit ==
    ASSUME NEW q, Fit(q), NEW p \in Positive
    PROVE  LET next == [q EXCEPT !.page = p]
           IN Fit(next) /\ next.page = p /\ \A req : Answers(req, next) => Answers(req, q)
<1> DEFINE next == [q EXCEPT !.page = p]
<1>1. q \in Query  BY DEF Fit
<1>2. next \in Query  BY <1>1 DEF Query, Sent
<1>3. /\ next.id = q.id /\ next.type = q.type /\ next.coords = q.coords
      /\ next.weather = q.weather /\ next.radius = q.radius /\ next.size = q.size
      /\ next.page = p
  BY <1>1 DEF Query
<1>4. Fit(next)  BY <1>2, <1>3 DEF Fit
<1>5. RadiusMax(next) = RadiusMax(q)  BY <1>3 DEF RadiusMax
<1> QED  BY <1>3, <1>4, <1>5 DEF Answers

----------------------------------------------------------------------------
(* The rows of a response *)

LEMMA FoundIsFinite ==
    ASSUME NEW q, NEW weather
    PROVE  /\ Found(q, weather) \subseteq Cafes
           /\ IsFiniteSet(Found(q, weather))
           /\ Cardinality(Found(q, weather)) \in Nat
<1>1. Found(q, weather) \subseteq Cafes  BY DEF Found
<1>2. IsFiniteSet(Found(q, weather))  BY <1>1, FS_Subset, CafesAssumption
<1> QED  BY <1>1, <1>2, FS_CardinalityType

\* An order of a finite set lists as many rows as there are.
LEMMA OrderListsAll ==
    ASSUME NEW rows, IsFiniteSet(rows), NEW q, NEW order \in Orders(rows, q)
    PROVE  order \in Seq(rows) /\ Len(order) = Cardinality(rows)
<1>1. Cardinality(rows) \in Nat  BY FS_CardinalityType
<1>2. order \in [1..Cardinality(rows) -> rows]  BY DEF Orders, SetToSeqs
<1> QED  BY <1>1, <1>2

LEMMA OffsetIsInt ==
    ASSUME NEW req, NEW q, Answers(req, q)
    PROVE  Offset(req) \in Int
<1>1. req.page \in Int /\ req.size \in Int  BY DEF Answers, Positive, maxPageSize
<1>2. (req.page - 1) * req.size \in Int  BY <1>1
<1>3. Half \in Int /\ 2 * Half > 0  BY HalfAssumption DEF maxPageSize
<1>4. ((req.page - 1) * req.size + Half) % (2 * Half) \in Int  BY <1>2, <1>3
<1> QED  BY <1>3, <1>4 DEF Offset, Wrap

\* A page is a piece of the order.
LEMMA PageOfOrder ==
    ASSUME NEW rows, NEW order \in Seq(rows), NEW req, Offset(req) \in Nat, req.size \in Nat
    PROVE  /\ Page(order, req) \in Seq(rows)
           /\ Len(Page(order, req)) <= req.size
           /\ ToSet(Page(order, req)) \subseteq rows
<1> DEFINE from == Offset(req)
           last == Min({from + req.size, Len(order)})
<1> HIDE DEF from
<1>0. from \in Nat  BY DEF from
<1>1. last \in Nat /\ last <= from + req.size /\ last <= Len(order)
  <2>1. from + req.size \in Nat /\ Len(order) \in Nat  BY <1>0
  <2>2. last = IF from + req.size <= Len(order) THEN from + req.size ELSE Len(order)
    BY <2>1, MinOfTwo
  <2> QED  BY <2>1, <2>2
<1>2. Page(order, req) = SubSeq(order, from + 1, last)  BY DEF Page, from
<1> HIDE DEF last
<1>3. SubSeq(order, from + 1, last) \in Seq(rows)
  <2>1. \A i \in (from + 1)..last : order[i] \in rows  BY <1>0, <1>1
  <2> QED  BY <1>0, <1>1, <2>1
<1>4. Len(SubSeq(order, from + 1, last)) <= req.size  BY <1>0, <1>1
<1>5. Page(order, req) \in Seq(rows) /\ Len(Page(order, req)) <= req.size
  BY <1>2, <1>3, <1>4
<1>6. ToSet(Page(order, req)) \subseteq rows  BY <1>5 DEF ToSet
<1> QED  BY <1>5, <1>6

\* What SearchRows answers: a page of the cafes that match.
LEMMA RowsOfPage ==
    ASSUME IInv, SearchRows, reply'.code = 200
    PROVE  /\ call.at = "rows" /\ call # NoCall /\ Answers(call.req, walk.query)
           /\ Fit(walk.query)
           /\ call' = NoCall /\ walk' = [walk EXCEPT !.pages = Append(@, reply'.rows)]
           /\ reply'.rows \in Seq(Cafes)
           /\ Len(reply'.rows) <= reply'.size
           /\ ToSet(reply'.rows) \subseteq Found(call.req, call.weather)
           /\ reply'.total = IF reply'.rows = <<>> THEN 0
                             ELSE Cardinality(Found(call.req, call.weather))
           /\ reply'.size = call.req.size /\ reply'.page = call.req.page
           /\ reply'.banner = call.banner
<1>1. call.at = "rows" /\ call # NoCall  BY DEF SearchRows, NoCall
<1>2. Answers(call.req, walk.query) /\ Fit(walk.query)  BY <1>1 DEF IInv, CallInv
<1>3. Offset(call.req) \in Int  BY <1>2, OffsetIsInt
<1>4. ~(Offset(call.req) < 0 /\ Refuse(500))  BY DEF Refuse
<1>5. /\ Offset(call.req) >= 0
      /\ call' = NoCall
      /\ \E order \in Orders(Found(call.req, call.weather), call.req) :
            /\ reply' = [code |-> 200, rows |-> Page(order, call.req), page |-> call.req.page,
                         size |-> call.req.size, banner |-> call.banner,
                         total |-> IF Page(order, call.req) = <<>> THEN 0 ELSE Len(order)]
            /\ walk' = [walk EXCEPT !.pages = Append(@, Page(order, call.req))]
  BY <1>4 DEF SearchRows, WeatherFilter
<1>6. PICK order \in Orders(Found(call.req, call.weather), call.req) :
         /\ reply' = [code |-> 200, rows |-> Page(order, call.req), page |-> call.req.page,
                      size |-> call.req.size, banner |-> call.banner,
                      total |-> IF Page(order, call.req) = <<>> THEN 0 ELSE Len(order)]
         /\ walk' = [walk EXCEPT !.pages = Append(@, Page(order, call.req))]
  BY <1>5
<1>7. /\ reply'.rows = Page(order, call.req)
      /\ reply'.size = call.req.size /\ reply'.page = call.req.page
      /\ reply'.banner = call.banner
      /\ reply'.total = IF Page(order, call.req) = <<>> THEN 0 ELSE Len(order)
  BY <1>6
<1>8. order \in Seq(Found(call.req, call.weather))
      /\ Len(order) = Cardinality(Found(call.req, call.weather))
  BY OrderListsAll, FoundIsFinite
<1>9. Offset(call.req) \in Nat /\ call.req.size \in Nat
  <2>1. Offset(call.req) \in Nat  BY <1>3, <1>5
  <2> QED  BY <1>2, <2>1 DEF Answers, maxPageSize
<1>10. /\ Page(order, call.req) \in Seq(Found(call.req, call.weather))
       /\ Len(Page(order, call.req)) <= call.req.size
       /\ ToSet(Page(order, call.req)) \subseteq Found(call.req, call.weather)
  BY <1>8, <1>9, PageOfOrder
<1>11. Page(order, call.req) \in Seq(Cafes)
  <2>1. Found(call.req, call.weather) \subseteq Cafes  BY FoundIsFinite
  <2> QED  BY <1>10, <2>1
<1> QED  BY <1>1, <1>2, <1>5, <1>6, <1>7, <1>8, <1>10, <1>11

----------------------------------------------------------------------------
(* The invariant *)

WorldInv == /\ cafes \in [Cafes -> Cafe]
            /\ places \in [Places -> Statuses]
            /\ reading \in conditions \cup {Null}
            /\ edits \in 0..MaxEdits

CallType == call = NoCall \/ /\ call.at \in {"focus", "filters", "weather", "rows"}
                             /\ call.weather \subseteq conditions
                             /\ call.banner \in conditions \cup {Null}

ReplyType == /\ reply.code \in {0, 200, 400, 404, 500}
             /\ reply.code = 200 => /\ reply.rows \in Seq(Cafes)
                                    /\ reply.size \in 1..maxPageSize
                                    /\ Len(reply.rows) <= reply.size
                                    /\ reply.total \in Nat

LEMMA PartsOfTypeOK == TypeOK <=> WorldInv /\ CallType /\ ReplyType
BY DEF TypeOK, WorldInv, CallType, ReplyType

\* A request is refused, or it is served as normalised.
LEMMA RequestInv ==
    ASSUME NEW q \in Query, Request(q), walk'.query \in Query,
           Fit(q) => Fit(walk'.query),
           \A req : Fit(q) /\ Answers(req, q) => Answers(req, walk'.query)
    PROVE  CallType' /\ ReplyType' /\ CallInv' /\ ReplyInv'
<1>1. CASE Refuse(400)
  BY <1>1 DEF Refuse, CallType, ReplyType, CallInv, ReplyInv
<1>2. CASE /\ Parsed(q) /\ Valid(q)
           /\ call' = [at |-> "focus", req |-> Normalised(q), weather |-> {}, banner |-> Null]
           /\ reply' = NoReply
  <2>1. Fit(q)  BY <1>2, AcceptedIsFit
  <2>2. q.page \in {Null} \cup Positive  BY <1>2 DEF Parsed, Query, Sent
  <2>3. Answers(Normalised(q), q)  BY <2>1, <2>2, NormalisedAnswers
  <2>4. Fit(walk'.query) /\ Answers(Normalised(q), walk'.query)  BY <2>1, <2>3
  <2>5. /\ call'.at = "focus" /\ call'.req = Normalised(q) /\ call'.weather = {}
        /\ call'.banner = Null
    BY <1>2
  <2>6. call' = [at |-> call'.at, req |-> call'.req, weather |-> call'.weather,
                 banner |-> call'.banner]
    BY <1>2, <2>5
  <2>7. reply'.code = 0  BY <1>2 DEF NoReply
  <2>8. CallInv'
    <3> HIDE DEF Answers
    <3> QED  BY <2>4, <2>5, <2>6 DEF CallInv
  <2>9. CallType' /\ ReplyType' /\ ReplyInv'  BY <2>5, <2>7 DEF CallType, ReplyType, ReplyInv
  <2> QED  BY <2>8, <2>9
<1> QED  BY <1>1, <1>2 DEF Request

LEMMA InvInit == Init => IInv
<1> SUFFICES ASSUME Init PROVE IInv  OBVIOUS
<1>1. WorldInv  BY VersionsAssumption, BoundsAssumption DEF Init, WorldInv, Statuses
<1>2. CallType /\ CallInv  BY DEF Init, CallType, CallInv
<1>3. ReplyType /\ ReplyInv  BY DEF Init, NoReply, ReplyType, ReplyInv
<1>4. WalkInv  BY DEF Init, NoWalk, WalkInv
<1> QED  BY <1>1, <1>2, <1>3, <1>4, PartsOfTypeOK DEF IInv

\* A refusal ends the request.
LEMMA RefusedInv ==
    ASSUME NEW code \in {400, 404, 500}, Refuse(code)
    PROVE  CallType' /\ ReplyType' /\ CallInv' /\ ReplyInv'
BY DEF Refuse, CallType, ReplyType, CallInv, ReplyInv

\* Nor does going on change what is known of it.
LEMMA GotoInv ==
    ASSUME IInv, call # NoCall, NEW at \in {"filters", "weather"}, Goto(at), UNCHANGED walk
    PROVE  CallType' /\ ReplyType' /\ CallInv' /\ ReplyInv'
<1>1. /\ call'.at = at /\ call'.req = call.req /\ call'.weather = call.weather
      /\ call'.banner = call.banner
      /\ call' = [at |-> at, req |-> call.req, weather |-> call.weather,
                  banner |-> call.banner]
  BY DEF IInv, CallInv, Goto
<1>2. CallInv'  BY <1>1 DEF IInv, CallInv, Answers
<1>3. CallType'  BY <1>1, PartsOfTypeOK DEF IInv, CallType
<1>4. ReplyType' /\ ReplyInv'  BY PartsOfTypeOK DEF IInv, ReplyType, ReplyInv, Goto
<1> QED  BY <1>2, <1>3, <1>4

LEMMA InvNext == IInv /\ [Next]_vars => IInv'
<1> SUFFICES ASSUME IInv, [Next]_vars PROVE IInv'  OBVIOUS
<1> USE DEF world
<1>0. WorldInv /\ CallType /\ ReplyType /\ CallInv /\ ReplyInv /\ WalkInv
  BY PartsOfTypeOK DEF IInv
<1> SUFFICES WorldInv' /\ CallType' /\ ReplyType' /\ CallInv' /\ ReplyInv' /\ WalkInv'
  BY DEF IInv, TypeOK, WorldInv, CallType, ReplyType
<1> DEFINE Kept == WorldInv' /\ CallType' /\ ReplyType' /\ CallInv' /\ ReplyInv' /\ WalkInv'
<1>1. ASSUME NEW q \in Queries, Ask(q) PROVE Kept
  <2>1. walk' = [query |-> q, pages |-> <<>>, calm |-> TRUE]  BY <1>1 DEF Ask
  <2>2. q \in Query /\ walk'.query = q  BY <2>1, QueriesAssumption
  <2>3. CallType' /\ ReplyType' /\ CallInv' /\ ReplyInv'  BY <1>1, <2>2, RequestInv DEF Ask
  <2>4. WalkInv'  BY <2>1 DEF WalkInv
  <2>5. WorldInv'  BY <1>0, <1>1 DEF Ask, WorldInv
  <2> QED  BY <2>3, <2>4, <2>5
<1>2. CASE NextPage
  <2> DEFINE next == [walk.query EXCEPT !.page = reply.page + 1]
  <2>1. Fit(walk.query) /\ reply.page + 1 \in Positive
    BY <1>0, <1>2 DEF NextPage, ReplyInv, Positive
  <2>2. Fit(next) /\ \A req : Answers(req, next) => Answers(req, walk.query)
    BY <2>1, NextIsFit
  <2>3. next \in Query /\ walk.query \in Query  BY <2>1, <2>2 DEF Fit
  <2>4. Request(next) /\ walk' = walk  BY <1>2 DEF NextPage
  <2> HIDE DEF next
  <2>5. CallType' /\ ReplyType' /\ CallInv' /\ ReplyInv'
    BY <2>1, <2>2, <2>3, <2>4, RequestInv
  <2> QED  BY <1>0, <1>2, <2>4, <2>5 DEF NextPage, WorldInv, WalkInv
<1>3. CASE ResolveFocus
  <2>1. call # NoCall /\ walk' = walk  BY <1>3 DEF ResolveFocus, NoCall
  <2>2. Goto("filters") \/ Refuse(404) \/ Refuse(500)  BY <1>3 DEF ResolveFocus
  <2>3. CallType' /\ ReplyType' /\ CallInv' /\ ReplyInv'
    BY <2>1, <2>2, GotoInv, RefusedInv
  <2> QED  BY <1>0, <1>3, <2>1, <2>3 DEF ResolveFocus, WorldInv, WalkInv
<1>4. CASE ResolveFilters
  <2>1. call # NoCall /\ walk' = walk  BY <1>4 DEF ResolveFilters, NoCall
  <2>2. Goto("weather") \/ Refuse(404) \/ Refuse(400)  BY <1>4 DEF ResolveFilters
  <2>3. CallType' /\ ReplyType' /\ CallInv' /\ ReplyInv'
    BY <2>1, <2>2, GotoInv, RefusedInv
  <2> QED  BY <1>0, <1>4, <2>1, <2>3 DEF ResolveFilters, WorldInv, WalkInv
<1>5. CASE ResolveWeather
  <2>1. call.at = "weather" /\ call # NoCall /\ walk' = walk /\ reply' = reply
    BY <1>5 DEF ResolveWeather, NoCall
  <2>2. ASSUME call.req.weather = {"current"} PROVE CallType' /\ CallInv'
    <3>1. call' = [at |-> "rows", req |-> call.req, weather |-> {reading} \ {Null},
                   banner |-> reading]
      BY <1>0, <1>5, <2>1, <2>2 DEF ResolveWeather, CallInv
    <3>2. reading \in conditions \cup {Null}  BY <1>0 DEF WorldInv
    <3>3. CallType'  BY <3>1, <3>2 DEF CallType
    <3>4. CallInv'  BY <1>0, <2>1, <3>1 DEF CallInv, Answers
    <3> QED  BY <3>3, <3>4
  <2>3. ASSUME call.req.weather # {"current"} PROVE CallType' /\ CallInv'
    <3>1. call' = [at |-> "rows", req |-> call.req, weather |-> call.req.weather,
                   banner |-> call.banner]
      BY <1>0, <1>5, <2>1, <2>3 DEF ResolveWeather, CallInv
    <3>2. call.req.weather \subseteq conditions
      BY <1>0, <2>1, <2>3 DEF CallInv, Fit, Answers
    <3>3. CallType'  BY <1>0, <2>1, <3>1, <3>2 DEF CallType
    <3>4. CallInv'  BY <1>0, <2>1, <2>3, <3>1 DEF CallInv, Answers
    <3> QED  BY <3>3, <3>4
  <2>4. ReplyType' /\ ReplyInv'  BY <1>0, <2>1 DEF ReplyType, ReplyInv
  <2> QED  BY <1>0, <1>5, <2>1, <2>2, <2>3, <2>4 DEF ResolveWeather, WorldInv, WalkInv
<1>6. CASE SearchRows
  <2>1. CASE reply'.code = 200
    <3>1. /\ Answers(call.req, walk.query) /\ Fit(walk.query)
          /\ call' = NoCall /\ walk' = [walk EXCEPT !.pages = Append(@, reply'.rows)]
          /\ reply'.rows \in Seq(Cafes) /\ Len(reply'.rows) <= reply'.size
          /\ reply'.total = IF reply'.rows = <<>> THEN 0
                            ELSE Cardinality(Found(call.req, call.weather))
          /\ reply'.size = call.req.size /\ reply'.page = call.req.page
      BY <1>6, <2>1, RowsOfPage
    <3>2. reply'.size \in 1..maxPageSize /\ reply'.page \in Positive  BY <3>1 DEF Answers
    <3>3. reply'.total \in Nat  BY <3>1, FoundIsFinite
    <3>4. walk' = [query |-> walk.query, pages |-> walk'.pages, calm |-> walk.calm]
      BY <1>0, <3>1 DEF WalkInv
    <3>5. WalkInv' /\ walk'.query = walk.query  BY <3>4 DEF WalkInv
    <3>6. ReplyType'  BY <2>1, <3>1, <3>2, <3>3 DEF ReplyType
    <3>7. CallType' /\ CallInv' /\ ReplyInv'
      BY <3>1, <3>2, <3>5 DEF CallType, CallInv, ReplyInv
    <3>8. WorldInv'  BY <1>0, <1>6 DEF SearchRows, WorldInv
    <3> QED  BY <3>5, <3>6, <3>7, <3>8
  <2>2. CASE reply'.code # 200
    <3>1. Refuse(500) /\ walk' = walk
      <4>1. \A b : [code |-> 200, rows |-> b[1], page |-> b[2], size |-> b[3],
                    banner |-> b[4], total |-> b[5]].code = 200
        OBVIOUS
      <4> QED  BY <1>6, <2>2 DEF SearchRows
    <3>2. CallType' /\ ReplyType' /\ CallInv' /\ ReplyInv'  BY <3>1, RefusedInv
    <3> QED  BY <1>0, <1>6, <3>1, <3>2 DEF SearchRows, WorldInv, WalkInv
  <2> QED  BY <2>1, <2>2
<1>7. CASE DbError
  <2>1. CallType' /\ ReplyType' /\ CallInv' /\ ReplyInv'  BY <1>7, RefusedInv DEF DbError
  <2> QED  BY <1>0, <1>7, <2>1 DEF DbError, WorldInv, WalkInv
<1>8. ASSUME Outside PROVE CallType' /\ ReplyType' /\ CallInv' /\ ReplyInv' /\ WalkInv'
  <2>1. walk' = [query |-> walk.query, pages |-> walk.pages, calm |-> FALSE]
    BY <1>0, <1>8 DEF Outside, WalkInv
  <2>2. WalkInv' /\ walk'.query = walk.query  BY <2>1 DEF WalkInv
  <2>3. call' = call /\ reply' = reply  BY <1>8 DEF Outside
  <2> QED  BY <1>0, <2>2, <2>3 DEF CallType, ReplyType, CallInv, ReplyInv
<1>9. ASSUME Outside PROVE edits' \in 0..MaxEdits
  BY <1>0, <1>9, BoundsAssumption DEF Outside, WorldInv
<1>10. ASSUME NEW c \in Cafes, NEW version \in Versions, EditCafe(c, version) PROVE Kept
  <2>1. WorldInv'
    BY <1>0, <1>9, <1>10, VersionsAssumption DEF EditCafe, WorldInv
  <2> QED  BY <1>8, <1>10, <2>1 DEF EditCafe
<1>11. ASSUME NEW p \in Places, NEW status \in Statuses, EditPlace(p, status) PROVE Kept
  <2>1. WorldInv'  BY <1>0, <1>9, <1>11 DEF EditPlace, WorldInv
  <2> QED  BY <1>8, <1>11, <2>1 DEF EditPlace
<1>12. ASSUME NEW r \in conditions \cup {Null}, WeatherChanges(r) PROVE Kept
  <2>1. WorldInv'  BY <1>0, <1>9, <1>12 DEF WeatherChanges, WorldInv
  <2> QED  BY <1>8, <1>12, <2>1 DEF WeatherChanges
<1>13. CASE UNCHANGED vars
  BY <1>0, <1>13 DEF vars, WorldInv, CallType, ReplyType, CallInv, ReplyInv, WalkInv
<1> QED
  BY <1>1, <1>2, <1>3, <1>4, <1>5, <1>6, <1>7, <1>10, <1>11, <1>12, <1>13 DEF Next

THEOREM Invariant == Spec => []IInv
BY InvInit, InvNext, PTL DEF Spec

\* Every variable has its type: a page never holds more than 50 cafes, nor more
\* than its size, whatever was asked for.
THEOREM SearchTypeCorrect == Spec => []TypeOK
<1>1. IInv => TypeOK  BY DEF IInv
<1> QED  BY <1>1, Invariant, PTL

\* The weather of a response is the weather its cafes were filtered by.
THEOREM BannerMatchesCafesAlways == Spec => BannerMatchesCafes
<1>1. ASSUME IInv, SearchRows, reply'.code = 200, call.req.weather = {"current"}
      PROVE  /\ reply'.banner # Null =>
                   \A c \in ToSet(reply'.rows) : reply'.banner \in cafes[c].weather
             /\ reply'.banner = Null /\ reply'.rows # <<>> =>
                   reply'.total = Cardinality(Found(call.req, {}))
  <2>1. /\ call.at = "rows" /\ call # NoCall /\ reply'.banner = call.banner
        /\ ToSet(reply'.rows) \subseteq Found(call.req, call.weather)
        /\ reply'.total = IF reply'.rows = <<>> THEN 0
                          ELSE Cardinality(Found(call.req, call.weather))
    BY <1>1, RowsOfPage
  <2>2. call.weather = {reply'.banner} \ {Null}  BY <1>1, <2>1 DEF IInv, CallInv
  <2>3. ASSUME reply'.banner # Null, NEW c \in ToSet(reply'.rows)
        PROVE  reply'.banner \in cafes[c].weather
    <3>1. Matches(c, call.req, call.weather)  BY <2>1, <2>3 DEF Found
    <3>2. call.weather \cap cafes[c].weather # {}  BY <2>2, <2>3, <3>1 DEF Matches
    <3> QED  BY <2>2, <3>2
  <2>4. ASSUME reply'.banner = Null, reply'.rows # <<>>
        PROVE  reply'.total = Cardinality(Found(call.req, {}))
    <3>1. call.weather = {}  BY <2>2, <2>4
    <3> QED  BY <2>1, <2>4, <3>1
  <2> QED  BY <2>3, <2>4
<1> QED  BY <1>1, Invariant, PTL DEF BannerMatchesCafes

----------------------------------------------------------------------------
(* Distances *)

\* Rounding to metres cannot carry a distance over a whole radius.
LEMMA RoundingKeepsRadius ==
    ASSUME NEW d \in Nat, NEW r \in Nat, d <= 2 * r
    PROVE  (d + 1) \div 2 \in Nat /\ (d + 1) \div 2 <= r
OBVIOUS

LEMMA RadiusIsKept ==
    ASSUME NEW q, Fit(q), ByDistance(q)
    PROVE  /\ RadiusMax(q) \in Nat
           /\ RadiusMax(q) <= IF q.radius = Null THEN 3000 ELSE q.radius
BY NullAssumption DEF Fit, ByDistance, RadiusMax, Default, Positive

\* Near a spot, a cafe or a point of interest no cafe is listed that is farther
\* away than the radius asked for, or than 3 km, nor the cafe itself.
THEOREM NearbyMeansNearbyAlways == Spec => NearbyMeansNearby
<1>1. ASSUME IInv, SearchRows, reply'.code = 200, ByDistance(call.req),
             NEW c \in ToSet(reply'.rows)
      PROVE  /\ c # call.req.id
             /\ distance_m(c, call.req) # Null
             /\ distance_m(c, call.req) <= IF walk.query.radius = Null THEN 3000
                                          ELSE walk.query.radius
  <2> DEFINE q == call.req
             d == DistanceOf(c, q)
  <2>1. /\ Fit(walk.query) /\ Answers(q, walk.query)
        /\ ToSet(reply'.rows) \subseteq Found(q, call.weather)
    BY <1>1, RowsOfPage
  <2>2. c \in Cafes /\ Matches(c, q, call.weather)  BY <1>1, <2>1 DEF Found
  <2>3. q.type \notin {"area", "district"}  BY <1>1, <2>1, NullAssumption DEF Fit, Answers, ByDistance
  <2>4. ByDistance(walk.query)  BY <1>1, <2>1 DEF Answers, ByDistance
  <2>5. /\ q.radius \in Nat
        /\ q.radius <= IF walk.query.radius = Null THEN 3000 ELSE walk.query.radius
    BY <2>1, <2>4, RadiusIsKept DEF Answers
  <2>6. q.radius # Null  BY <2>5, NullAssumption
  <2>7. c # q.id /\ d # Null /\ d <= 2 * q.radius
    BY <1>1, <2>2, <2>3, <2>6 DEF Matches, InMode
  <2>8. d \in Nat
    <3>1. Point(q) # Null /\ d = Distance[c][Point(q)]  BY <2>7 DEF DistanceOf
    <3>2. Point(q) \in Cafes \cup Places \cup Spots
      BY <2>1, <3>1 DEF Point, Fit, Answers, Query
    <3> QED  BY <2>2, <2>7, <3>1, <3>2, DistanceAssumption
  <2>9. distance_m(c, q) = (d + 1) \div 2  BY <2>7 DEF distance_m
  <2>10. (d + 1) \div 2 \in Nat /\ (d + 1) \div 2 <= q.radius
    <3> HIDE DEF d, q
    <3> QED  BY <2>5, <2>7, <2>8, RoundingKeepsRadius
  <2>11. walk.query.radius \in {Null} \cup Nat  BY <2>1 DEF Fit, Positive
  <2> QED  BY <2>5, <2>7, <2>9, <2>10, <2>11, NullAssumption
<1>2. ASSUME IInv, SearchRows, reply'.code = 200, ByDistance(call.req)
      PROVE  \A c \in ToSet(reply'.rows) :
                 /\ c # call.req.id
                 /\ distance_m(c, call.req) # Null
                 /\ distance_m(c, call.req) <= IF walk.query.radius = Null THEN 3000
                                              ELSE walk.query.radius
  BY <1>1, <1>2
<1> QED  BY <1>2, Invariant, PTL DEF NearbyMeansNearby

----------------------------------------------------------------------------
(* The pages of a walk *)

Sorts == {"default", "updated_at", "distance", "rating", "price_range"}

\* The request for the first page, and what part of an order page i is
Base == Normalised(walk.query)

Slice(order, size, i) ==
    SubSeq(order, (i - 1) * size + 1, IF i * size <= Len(order) THEN i * size ELSE Len(order))

AskedInv == call # NoCall \/ reply.code = 200 \/ walk.pages # <<>> =>
                /\ Fit(walk.query) /\ walk.query.sort \in {Null} \cup Sorts
                /\ walk.query.page \in {Null} \cup Positive

\* Where the client is: the pages it has are the first ones of one order, and the
\* one on its way is the next.  As long as that is so, no offset has overflowed.
Far == walk.pages # <<>> => (Len(walk.pages) - 1) * Base.size < Half

Filter == IF Base.weather = {"current"} THEN {reading} \ {Null} ELSE Base.weather

OnItsWay == call # NoCall =>
    /\ Far
    /\ call.req = [Base EXCEPT !.page = Len(walk.pages) + 1]
    /\ call.at = "rows" => call.weather = Filter

Answered == reply.code = 200 =>
    /\ walk.pages # <<>> /\ Far
    /\ reply.page = Len(walk.pages)
    /\ reply.rows # <<>> => reply.total = Cardinality(Matching)

Gathered == walk.pages # <<>> =>
    \E order \in Orders(Matching, Base) :
        \A i \in 1..Len(walk.pages) : walk.pages[i] = Slice(order, Base.size, i)

PagesInv ==
    /\ walk.pages \in Seq(Seq(Cafes))
    /\ walk.calm /\ Base.page = 1 => OnItsWay /\ Answered /\ Gathered

LEMMA Minimal ==
  ASSUME NEW Q, NEW D, IsWellFoundedOn(Q, D), NEW B, B \subseteq D, B # {}
  PROVE  \E x \in B : \A y \in B : ~(<<y, x>> \in Q)
  BY WFMin

LEMMA LessIsWellFounded ==
  \E Q : /\ IsWellFoundedOn(Q, Nat)
         /\ \A x, y \in Nat : x < y => <<x, y>> \in Q
  <1>1. IsWellFoundedOn(OpToRel(<, Nat), Nat)
    BY NatLessThanWellFounded
  <1>2. \A x, y \in Nat : x < y => <<x, y>> \in OpToRel(<, Nat)
    BY DEF OpToRel
  <1> QED  BY <1>1, <1>2, Zenon

LEMMA Least ==
  ASSUME NEW S, S \subseteq Nat, S # {}
  PROVE  \E x \in S : \A y \in S : x <= y
  <1>1. PICK Q : /\ IsWellFoundedOn(Q, Nat)
                 /\ \A x, y \in Nat : x < y => <<x, y>> \in Q
    BY LessIsWellFounded
  <1>2. \E x \in S : \A y \in S : ~(<<y, x>> \in Q)
    <2> DEFINE D == Nat
    <2>1. IsWellFoundedOn(Q, D) /\ S \subseteq D
      BY <1>1
    <2> HIDE DEF D
    <2> QED  BY <2>1, Minimal, Zenon
  <1>3. PICK x \in S : \A y \in S : ~(<<y, x>> \in Q)
    BY <1>2
  <1>4. ASSUME NEW y \in S  PROVE x <= y
    <2>1. ~(<<y, x>> \in Q)
      BY <1>3
    <2>2. x \in Nat /\ y \in Nat
      OBVIOUS
    <2>3. ~(y < x)
      BY <1>1, <2>1, <2>2, Zenon
    <2> QED  BY <2>2, <2>3
  <1> QED  BY <1>4

----------------------------------------------------------------------------
(* The order of a search *)

Pair == Int \X Int

LEMMA PairsCompare ==
    ASSUME NEW a \in Pair, NEW b \in Pair, a # b
    PROVE  \/ a[1] < b[1] \/ (a[1] = b[1] /\ a[2] < b[2])
           \/ b[1] < a[1] \/ (b[1] = a[1] /\ b[2] < a[2])
<1>1. a = <<a[1], a[2]>> /\ b = <<b[1], b[2]>>  BY DEF Pair
<1>2. a[1] \in Int /\ a[2] \in Int /\ b[1] \in Int /\ b[2] \in Int  BY DEF Pair
<1> QED  BY <1>1, <1>2

\* Of two different keys one is before the other.
LEMMA KeysCompare ==
    ASSUME NEW a \in Seq(Pair), NEW b \in Seq(Pair), Len(a) = Len(b), a # b
    PROVE  Before(a, b) \/ Before(b, a)
<1> DEFINE D == {i \in 1..Len(a) : a[i] # b[i]}
<1>1. D # {} /\ D \subseteq Nat
  <2>1. \E i \in 1..Len(a) : a[i] # b[i]  OBVIOUS
  <2> QED  BY <2>1
<1>2. PICK i \in D : \A j \in D : i <= j  BY <1>1, Least
<1>3. i \in 1..Len(a) /\ a[i] # b[i] /\ \A j \in 1..(i - 1) : a[j] = b[j]
  <2>1. ASSUME NEW j \in 1..(i - 1) PROVE a[j] = b[j]
    <3>1. i \in Nat /\ i <= Len(a) /\ Len(a) \in Nat  OBVIOUS
    <3>2. j \in 1..Len(a) /\ ~(i <= j)  BY <3>1
    <3> QED  BY <1>2, <3>2
  <2> QED  BY <2>1
<1>4. a[i] \in Pair /\ b[i] \in Pair /\ i \in DOMAIN a /\ i \in DOMAIN b  BY <1>3
<1> QED  BY <1>3, <1>4, PairsCompare DEF Before

Number == Nat \cup {Null}

LEMMA AscIs ==
    ASSUME NEW v \in Number
    PROVE  Asc(v) \in Pair /\ Desc(v) \in Pair
BY DEF Asc, Desc, Pair, Number

LEMMA FirstIs ==
    ASSUME NEW b \in BOOLEAN
    PROVE  TrueFirst(b) \in Pair
BY DEF TrueFirst, Pair

\* The keys of a search are of one length.
LEMMA SortKeyIs ==
    ASSUME cafes \in [Cafes -> Cafe], NEW q, q.sort \in Sorts,
           \A c \in Cafes : distance_m(c, q) \in Number
    PROVE  \E n \in Nat : \A c \in Cafes : SortKey(c, q) \in Seq(Pair) /\ Len(SortKey(c, q)) = n
<1>1. ASSUME NEW c \in Cafes
      PROVE  /\ cafes[c].updated \in Number /\ cafes[c].min \in Number /\ cafes[c].max \in Number
             /\ cafes[c].overall \in Number
             /\ cafes[c].image \in BOOLEAN /\ cafes[c].featured \in BOOLEAN
  <2>1. cafes[c] \in Cafe  OBVIOUS
  <2> QED  BY <2>1 DEF Cafe, Number
<1> DEFINE One(c) == \E a \in Pair : SortKey(c, q) = <<a>>
           Four(c) == \E a, b, d, e \in Pair : SortKey(c, q) = <<a, b, d, e>>
           Long(n) == \A c \in Cafes : SortKey(c, q) \in Seq(Pair) /\ Len(SortKey(c, q)) = n
<1>one. ASSUME \A c \in Cafes : One(c) PROVE \E n \in Nat : Long(n)
  <2>1. ASSUME NEW c \in Cafes PROVE SortKey(c, q) \in Seq(Pair) /\ Len(SortKey(c, q)) = 1
    <3>1. PICK a \in Pair : SortKey(c, q) = <<a>>  BY <1>one
    <3> QED  BY <3>1
  <2>2. Long(1) /\ 1 \in Nat  BY <2>1
  <2> HIDE DEF Long
  <2> QED  BY <2>2
<1>four. ASSUME \A c \in Cafes : Four(c) PROVE \E n \in Nat : Long(n)
  <2>1. ASSUME NEW c \in Cafes PROVE SortKey(c, q) \in Seq(Pair) /\ Len(SortKey(c, q)) = 4
    <3>1. PICK a, b, d, e \in Pair : SortKey(c, q) = <<a, b, d, e>>  BY <1>four
    <3> QED  BY <3>1
  <2>2. Long(4) /\ 4 \in Nat  BY <2>1
  <2> HIDE DEF Long
  <2> QED  BY <2>2
<1>2. CASE q.sort = "updated_at"
  <2>1. ASSUME NEW c \in Cafes PROVE One(c)
    <3>1. Asc(cafes[c].updated) \in Pair /\ Desc(cafes[c].updated) \in Pair  BY <1>1, AscIs
    <3>2. SortKey(c, q) = IF q.order = "asc" THEN <<Asc(cafes[c].updated)>>
                          ELSE <<Desc(cafes[c].updated)>>
      BY <1>2 DEF SortKey
    <3> QED  BY <3>1, <3>2
  <2> HIDE DEF One
  <2> QED  BY <2>1, <1>one
<1>3. CASE q.sort = "distance"
  <2>1. ASSUME NEW c \in Cafes PROVE One(c)
    <3>1. Asc(distance_m(c, q)) \in Pair /\ Desc(distance_m(c, q)) \in Pair  BY AscIs
    <3>2. SortKey(c, q) = IF q.order = "desc" THEN <<Desc(distance_m(c, q))>>
                          ELSE <<Asc(distance_m(c, q))>>
      BY <1>3 DEF SortKey
    <3> QED  BY <3>1, <3>2
  <2> HIDE DEF One
  <2> QED  BY <2>1, <1>one
<1>4. CASE q.sort = "rating"
  <2>1. ASSUME NEW c \in Cafes PROVE One(c)
    <3>1. Asc(cafes[c].overall) \in Pair /\ Desc(cafes[c].overall) \in Pair  BY <1>1, AscIs
    <3>2. SortKey(c, q) = IF q.order = "asc" THEN <<Asc(cafes[c].overall)>>
                          ELSE <<Desc(cafes[c].overall)>>
      BY <1>4 DEF SortKey
    <3> QED  BY <3>1, <3>2
  <2> HIDE DEF One
  <2> QED  BY <2>1, <1>one
<1>5. CASE q.sort = "price_range"
  <2>1. ASSUME NEW c \in Cafes PROVE One(c)
    <3>1. Desc(cafes[c].max) \in Pair /\ Asc(cafes[c].min) \in Pair  BY <1>1, AscIs
    <3>2. SortKey(c, q) = IF q.order = "desc" THEN <<Desc(cafes[c].max)>>
                          ELSE <<Asc(cafes[c].min)>>
      BY <1>5 DEF SortKey
    <3> QED  BY <3>1, <3>2
  <2> HIDE DEF One
  <2> QED  BY <2>1, <1>one
<1>6. CASE q.sort = "default"
  <2>1. ASSUME NEW c \in Cafes PROVE Four(c)
    <3> DEFINE f == TrueFirst(cafes[c].featured)
               i == TrueFirst(cafes[c].image)
               u == Desc(cafes[c].updated)
               near == Asc(distance_m(c, q))
    <3>1. f \in Pair /\ i \in Pair /\ u \in Pair /\ near \in Pair  BY <1>1, AscIs, FirstIs
    <3>2. SortKey(c, q) = <<f>> \o (IF ByDistance(q) THEN <<near>> \o <<i, u>>
                                    ELSE <<i, u>> \o <<near>>)
      BY <1>6 DEF SortKey
    <3> HIDE DEF f, i, u, near
    <3>3. SortKey(c, q) = IF ByDistance(q) THEN <<f, near, i, u>> ELSE <<f, i, u, near>>
      BY <3>1, <3>2
    <3> QED  BY <3>1, <3>3
  <2> HIDE DEF Four
  <2> QED  BY <2>1, <1>four
<1> QED  BY <1>2, <1>3, <1>4, <1>5, <1>6 DEF Sorts

LEMMA PairAppended ==
    ASSUME NEW a \in Seq(Pair), NEW n \in Nat, Len(a) = n, NEW x \in Pair
    PROVE  /\ a \o <<x>> \in Seq(Pair)
           /\ Len(a \o <<x>>) = n + 1
           /\ (a \o <<x>>)[n + 1] = x
<1>1. a \o <<x>> = Append(a, x)  OBVIOUS
<1> QED  BY <1>1

\* The id breaks ties.
LEMMA OrderKeysCompare ==
    ASSUME cafes \in [Cafes -> Cafe], NEW q, q.sort \in Sorts,
           \A c \in Cafes : distance_m(c, q) \in Number,
           NEW c \in Cafes, NEW d \in Cafes, c # d
    PROVE  Before(OrderKey(c, q), OrderKey(d, q)) \/ Before(OrderKey(d, q), OrderKey(c, q))
<1>1. PICK n \in Nat : \A e \in Cafes : SortKey(e, q) \in Seq(Pair) /\ Len(SortKey(e, q)) = n
  BY SortKeyIs
<1>2. c \in Nat /\ d \in Nat /\ c # Null /\ d # Null  BY CafesAssumption, NullAssumption
<1>3. Asc(c) \in Pair /\ Asc(d) \in Pair /\ Asc(c) # Asc(d)
  <2>1. Asc(c) = <<0, c>> /\ Asc(d) = <<0, d>>  BY <1>2 DEF Asc
  <2> QED  BY <1>2, <2>1 DEF Pair
<1> DEFINE a == SortKey(c, q)
           b == SortKey(d, q)
<1>4. a \in Seq(Pair) /\ b \in Seq(Pair) /\ Len(a) = n /\ Len(b) = n  BY <1>1
<1>5. OrderKey(c, q) = a \o <<Asc(c)>> /\ OrderKey(d, q) = b \o <<Asc(d)>>  BY DEF OrderKey
<1> HIDE DEF a, b
<1>6. /\ OrderKey(c, q) \in Seq(Pair) /\ OrderKey(d, q) \in Seq(Pair)
      /\ Len(OrderKey(c, q)) = Len(OrderKey(d, q))
      /\ OrderKey(c, q)[n + 1] = Asc(c) /\ OrderKey(d, q)[n + 1] = Asc(d)
  <2>1. a \o <<Asc(c)>> \in Seq(Pair) /\ Len(a \o <<Asc(c)>>) = n + 1
        /\ (a \o <<Asc(c)>>)[n + 1] = Asc(c)
    BY <1>3, <1>4, PairAppended
  <2>2. b \o <<Asc(d)>> \in Seq(Pair) /\ Len(b \o <<Asc(d)>>) = n + 1
        /\ (b \o <<Asc(d)>>)[n + 1] = Asc(d)
    BY <1>3, <1>4, PairAppended
  <2> QED  BY <1>5, <2>1, <2>2
<1>7. OrderKey(c, q) # OrderKey(d, q)  BY <1>3, <1>6
<1> QED  BY <1>6, <1>7, KeysCompare

LEMMA SameFunction ==
    ASSUME NEW D, NEW R, NEW f \in [D -> R], NEW g \in [D -> R], \A x \in D : f[x] = g[x]
    PROVE  f = g
OBVIOUS

\* An order lists every row once.
LEMMA OrderIs ==
    ASSUME NEW rows, IsFiniteSet(rows), NEW q, NEW r \in Orders(rows, q)
    PROVE  LET n == Cardinality(rows)
           IN /\ r \in [1..n -> rows]
              /\ \A i, j \in 1..n : i # j => r[i] # r[j]
              /\ \A i, j \in 1..n : i < j => ~Before(OrderKey(r[j], q), OrderKey(r[i], q))
              /\ \A c \in rows : \E i \in 1..n : r[i] = c
<1> DEFINE n == Cardinality(rows)
<1>1. n \in Nat  BY FS_CardinalityType
<1>2. /\ r \in [1..n -> rows]
      /\ \A i, j \in 1..n : i # j => r[i] # r[j]
      /\ \A i, j \in 1..n : i < j => ~Before(OrderKey(r[j], q), OrderKey(r[i], q))
  BY DEF Orders, SetToSeqs
<1>3. \A c \in rows : \E i \in 1..n : r[i] = c
  <2>1. r \in Injection(1..n, rows)  BY <1>2 DEF Injection, IsInjective
  <2>2. IsFiniteSet(1..n) /\ Cardinality(1..n) = n  BY <1>1, FS_Interval
  <2>3. r \in Surjection(1..n, rows)  BY <1>1, <2>1, <2>2, FS_Injection
  <2> QED  BY <2>3 DEF Surjection
<1> QED  BY <1>2, <1>3

\* PostgreSQL may give the rows of a search in one order only.
LEMMA OneOrder ==
    ASSUME cafes \in [Cafes -> Cafe], NEW q, q.sort \in Sorts,
           \A c \in Cafes : distance_m(c, q) \in Number,
           NEW rows, rows \subseteq Cafes, NEW o \in Orders(rows, q), NEW p \in Orders(rows, q)
    PROVE  o = p
<1> DEFINE n == Cardinality(rows)
           Key(c) == OrderKey(c, q)
<1>1. IsFiniteSet(rows) /\ n \in Nat
  BY CafesAssumption, FS_Subset, FS_CardinalityType
<1>2. \A r \in Orders(rows, q) :
          /\ r \in [1..n -> rows]
          /\ \A i, j \in 1..n : i # j => r[i] # r[j]
          /\ \A i, j \in 1..n : i < j => ~Before(Key(r[j]), Key(r[i]))
          /\ \A c \in rows : \E i \in 1..n : r[i] = c
  BY <1>1, OrderIs
<1>3. \A c, d \in rows : c # d => Before(Key(c), Key(d)) \/ Before(Key(d), Key(c))
  BY OrderKeysCompare
<1> HIDE DEF n, Key
<1> DEFINE D == {i \in 1..n : o[i] # p[i]}
<1>4. D = {}
  <2>1. SUFFICES ASSUME D # {} PROVE FALSE  OBVIOUS
  <2>2. PICK i \in D : \A j \in D : i <= j
    <3>1. D \subseteq Nat  OBVIOUS
    <3> QED  BY <2>1, <3>1, Least
  <2>3. i \in 1..n /\ o[i] # p[i] /\ \A j \in 1..n : j < i => o[j] = p[j]  BY <2>2
  <2>4. o[i] \in rows /\ p[i] \in rows  BY <1>2, <2>3
  <2>5. PICK j \in 1..n : p[j] = o[i]  BY <1>2, <2>4
  <2>6. PICK k \in 1..n : o[k] = p[i]  BY <1>2, <2>4
  <2>7. i < j
    <3>1. j # i  BY <2>3, <2>5
    <3>2. ~(j < i)
      <4>1. j < i => o[j] = o[i]  BY <2>3, <2>5
      <4> QED  BY <1>2, <2>3, <4>1
    <3> QED  BY <2>3, <3>1, <3>2
  <2>8. i < k
    <3>1. k # i  BY <2>3, <2>6
    <3>2. ~(k < i)
      <4>1. k < i => p[k] = p[i]  BY <2>3, <2>6
      <4> QED  BY <1>2, <2>3, <4>1
    <3> QED  BY <2>3, <3>1, <3>2
  <2>9. ~Before(Key(o[i]), Key(p[i]))  BY <1>2, <2>3, <2>5, <2>7
  <2>10. ~Before(Key(p[i]), Key(o[i]))  BY <1>2, <2>3, <2>6, <2>8
  <2> QED  BY <1>3, <2>3, <2>4, <2>9, <2>10
<1>5. \A i \in 1..n : o[i] = p[i]  BY <1>4
<1>6. o \in [1..n -> rows] /\ p \in [1..n -> rows]  BY <1>2
<1> DEFINE T == 1..n
<1>7. o \in [T -> rows] /\ p \in [T -> rows] /\ \A i \in T : o[i] = p[i]  BY <1>5, <1>6
<1> HIDE DEF T
<1>8. \A f, g \in [T -> rows] : (\A i \in T : f[i] = g[i]) => f = g  BY SameFunction
<1> QED  BY <1>7, <1>8, Zenon

----------------------------------------------------------------------------
(* Pages of an order *)

LEMMA SliceIs ==
    ASSUME NEW S, NEW order \in Seq(S), NEW size \in Nat \ {0}, NEW i \in Nat \ {0}
    PROVE  /\ Slice(order, size, i) \in Seq(S)
           /\ Len(Slice(order, size, i)) < size => Len(order) < i * size
<1> DEFINE from == (i - 1) * size + 1
           last == IF i * size <= Len(order) THEN i * size ELSE Len(order)
<1>1. /\ (i - 1) * size \in Nat /\ i * size \in Nat /\ i * size = (i - 1) * size + size
      /\ Len(order) \in Nat
  OBVIOUS
<1>2. from \in Nat /\ from >= 1 /\ last \in Nat /\ last <= Len(order)  BY <1>1
<1>3. Slice(order, size, i) = SubSeq(order, from, last)  BY DEF Slice
<1>4. /\ SubSeq(order, from, last) \in Seq(S)
      /\ Len(SubSeq(order, from, last)) = IF from <= last THEN last - from + 1 ELSE 0
  <2> HIDE DEF from, last
  <2>1. \A j \in from..last : order[j] \in S  BY <1>1, <1>2
  <2> QED  BY <1>1, <1>2, <2>1
<1>5. i * size <= Len(order) => Len(SubSeq(order, from, last)) = size
  BY <1>1, <1>4
<1> HIDE DEF from, last
<1>6. ASSUME Len(Slice(order, size, i)) < size PROVE Len(order) < i * size
  <2>1. ~(i * size <= Len(order))
    <3>1. i * size <= Len(order) => Len(Slice(order, size, i)) = size  BY <1>3, <1>5
    <3> QED  BY <1>6, <3>1
  <2>2. i * size \in Nat /\ Len(order) \in Nat  BY <1>1
  <2> DEFINE m == i * size
  <2>3. m \in Nat /\ ~(m <= Len(order))  BY <2>1, <2>2
  <2> HIDE DEF m
  <2>4. Len(order) < m  BY <2>2, <2>3
  <2> QED  BY <2>4 DEF m
<1>7. Slice(order, size, i) \in Seq(S)  BY <1>3, <1>4
<1> QED  BY <1>6, <1>7

\* The first pages, one after the other
FirstPages(order, size, i) ==
    SubSeq(order, 1, IF i * size <= Len(order) THEN i * size ELSE Len(order))

LEMMA PagesGrow ==
    ASSUME NEW S, NEW order \in Seq(S), NEW size \in Nat \ {0}, NEW i \in Nat \ {0}
    PROVE  /\ i = 1 => FirstPages(order, size, i) = Slice(order, size, i)
           /\ i # 1 => FirstPages(order, size, i) =
                        FirstPages(order, size, i - 1) \o Slice(order, size, i)
<1> DEFINE k == (i - 1) * size
           m == i * size
<1>1. k \in Nat /\ m \in Nat /\ m = k + size /\ Len(order) \in Nat /\ size \in Nat  OBVIOUS
<1>2. i = 1 => k = 0  OBVIOUS
<1>3. /\ FirstPages(order, size, i) = SubSeq(order, 1, IF m <= Len(order) THEN m ELSE Len(order))
      /\ FirstPages(order, size, i - 1) = SubSeq(order, 1, IF k <= Len(order) THEN k ELSE Len(order))
      /\ Slice(order, size, i) = SubSeq(order, k + 1, IF m <= Len(order) THEN m ELSE Len(order))
  BY DEF FirstPages, Slice
<1> HIDE DEF k, m
<1>4. ASSUME i = 1 PROVE FirstPages(order, size, i) = Slice(order, size, i)
  <2>1. k + 1 = 1  BY <1>2, <1>4
  <2> QED  BY <1>3, <2>1
<1>5. ASSUME k <= Len(order)
      PROVE  FirstPages(order, size, i) = FirstPages(order, size, i - 1) \o Slice(order, size, i)
  <2> DEFINE e == IF m <= Len(order) THEN m ELSE Len(order)
  <2>1. e \in Nat /\ k <= e /\ e <= Len(order)  BY <1>1, <1>5
  <2>2. SubSeq(order, 1, k) \o SubSeq(order, k + 1, e) = SubSeq(order, 1, e)
    <3> HIDE DEF e
    <3>1. 1 \in 1..(Len(order) + 1) /\ k \in (1 - 1)..Len(order) /\ e \in k..Len(order)
      BY <1>1, <1>5, <2>1
    <3> QED  BY <3>1, ConcatAdjacentSubSeq
  <2> QED  BY <1>3, <1>5, <2>2
<1>6. ASSUME ~(k <= Len(order))
      PROVE  FirstPages(order, size, i) = FirstPages(order, size, i - 1) \o Slice(order, size, i)
  <2>1. ~(m <= Len(order))  BY <1>1, <1>6
  <2>2. SubSeq(order, k + 1, Len(order)) = <<>>  BY <1>1, <1>6
  <2>3. SubSeq(order, 1, Len(order)) \o <<>> = SubSeq(order, 1, Len(order))
    <3>1. SubSeq(order, 1, Len(order)) \in Seq(S)  OBVIOUS
    <3> QED  BY <3>1
  <2> QED  BY <1>3, <1>6, <2>1, <2>2, <2>3
<1> QED  BY <1>4, <1>5, <1>6

\* Pages flattened are the front of their order.
LEMMA PagesFlatten ==
    ASSUME NEW S, NEW order \in Seq(S), NEW size \in Nat \ {0},
           NEW pages \in Seq(Seq(S)), pages # <<>>,
           \A i \in 1..Len(pages) : pages[i] = Slice(order, size, i)
    PROVE  FlattenSeq(pages) = FirstPages(order, size, Len(pages))
<1> DEFINE n == Len(pages)
           Flat(f) == f = [i \in 1..n |-> IF i = 1 THEN pages[i] ELSE f[i - 1] \o pages[i]]
           g == [i \in 1..n |-> FirstPages(order, size, i)]
           h == CHOOSE f : Flat(f)
<1>1. n \in Nat /\ n # 0  OBVIOUS
<1>2. Flat(g)
  <2>1. ASSUME NEW i \in 1..n
        PROVE  g[i] = IF i = 1 THEN pages[i] ELSE g[i - 1] \o pages[i]
    <3>1. i \in Nat \ {0} /\ (i # 1 => i - 1 \in 1..n)  BY <1>1
    <3> QED  BY <3>1, PagesGrow
  <2> DEFINE f == [i \in 1..n |-> IF i = 1 THEN pages[i] ELSE g[i - 1] \o pages[i]]
  <2>2. \A i \in 1..n : g[i] = f[i]  BY <2>1
  <2> QED  BY <2>2
<1>3. Flat(h)
  <2> HIDE DEF Flat, g
  <2> QED  BY <1>2
<1>4. FlattenSeq(pages) = h[n]  BY <1>1, Zenon DEF FlattenSeq
<1> DEFINE D == {i \in 1..n : h[i] # g[i]}
<1>5. D = {}
  <2> HIDE DEF h, g
  <2>1. SUFFICES ASSUME D # {} PROVE FALSE  OBVIOUS
  <2>2. PICK i \in D : \A j \in D : i <= j
    <3>1. D \subseteq Nat  OBVIOUS
    <3> QED  BY <2>1, <3>1, Least
  <2>3. /\ h[i] = IF i = 1 THEN pages[i] ELSE h[i - 1] \o pages[i]
        /\ g[i] = IF i = 1 THEN pages[i] ELSE g[i - 1] \o pages[i]
    BY <1>2, <1>3
  <2>4. i # 1 => h[i - 1] = g[i - 1]
    <3>1. i # 1 => i - 1 \in 1..n /\ ~(i <= i - 1)  BY <1>1
    <3> QED  BY <2>2, <3>1
  <2> QED  BY <2>3, <2>4
<1>6. h[n] = g[n]
  <2> HIDE DEF h, g
  <2> QED  BY <1>1, <1>5
<1> QED  BY <1>1, <1>4, <1>6

LEMMA WrapIs ==
    ASSUME NEW m \in Nat, m < Half + maxPageSize, Wrap(m) >= 0
    PROVE  m < Half /\ Wrap(m) = m
<1> DEFINE h == Half
<1>1. h \in Nat /\ 50 < h /\ m < h + 50  BY HalfAssumption DEF maxPageSize
<1>2. Wrap(m) = ((m + h) % (2 * h)) - h  BY DEF Wrap
<1> HIDE DEF h
<1>3. CASE m < h
  <2>1. m + h < 2 * h /\ m + h \in Nat /\ 2 * h \in Nat  BY <1>1, <1>3
  <2>2. (m + h) % (2 * h) = m + h  BY <1>1, <2>1
  <2> QED  BY <1>2, <1>3, <2>2, <1>1 DEF h
<1>4. CASE h <= m
  <2>1. (m + h) % (2 * h) = m - h
    <3>1. m - h \in Nat /\ m - h < 2 * h /\ m + h = (m - h) + 1 * (2 * h)  BY <1>1, <1>4
    <3> QED  BY <1>1, <3>1
  <2>2. m - h - h < 0  BY <1>1
  <2> QED  BY <1>1, <1>2, <2>1, <2>2
<1> QED  BY <1>1, <1>3, <1>4

\* The page that a request asks for is a piece of the order, and its offset is what
\* it should be, or the request fails.
LEMMA PageIsSlice ==
    ASSUME NEW S, NEW order \in Seq(S), NEW n \in Nat, NEW req, req.size \in 1..maxPageSize,
           req.page = n + 1, n # 0 => (n - 1) * req.size < Half, Offset(req) >= 0
    PROVE  n * req.size < Half /\ Page(order, req) = Slice(order, req.size, n + 1)
<1> DEFINE size == req.size
           m == n * size
<1>1. size \in Nat /\ size <= maxPageSize /\ size # 0
  <2>1. \A s \in 1..maxPageSize : s \in Nat /\ s <= maxPageSize /\ s # 0  BY DEF maxPageSize
  <2> QED  BY <2>1
<1>2. m \in Nat /\ (n + 1) * size = m + size /\ ((n + 1) - 1) * size = m
  <2> HIDE DEF size
  <2> QED  BY <1>1
<1>3. m < Half + maxPageSize
  <2>1. CASE n = 0
    <3>1. m = 0  BY <1>1, <2>1
    <3> QED  BY <3>1, HalfAssumption DEF maxPageSize
  <2>2. CASE n # 0
    <3>1. m = (n - 1) * size + size /\ (n - 1) * size \in Nat
      <4> HIDE DEF size
      <4> QED  BY <1>1, <2>2
    <3>2. (n - 1) * size < Half  BY <2>2
    <3> QED  BY <1>1, <3>1, <3>2, HalfAssumption DEF maxPageSize
  <2> QED  BY <2>1, <2>2
<1>4. Offset(req) = Wrap(m)  BY <1>2 DEF Offset
<1>5. m < Half /\ Offset(req) = m
  <2> HIDE DEF m
  <2> QED  BY <1>2, <1>3, <1>4, WrapIs
<1>6. Page(order, req) = SubSeq(order, m + 1, Min({m + size, Len(order)}))  BY <1>5 DEF Page
<1>7. Slice(order, size, n + 1) = SubSeq(order, m + 1, IF m + size <= Len(order)
                                                       THEN m + size ELSE Len(order))
  BY <1>2 DEF Slice
<1>8. Min({m + size, Len(order)}) = IF m + size <= Len(order) THEN m + size ELSE Len(order)
  <2> HIDE DEF m, size
  <2> QED  BY <1>1, <1>2, MinOfTwo
<1> QED  BY <1>5, <1>6, <1>7, <1>8

\* A page is the only thing that the queries of a walk differ in, and no cafe is
\* found or ordered by it.
LEMMA PageDoesNotMatter ==
    ASSUME NEW q \in Query, NEW k, NEW weather, NEW rows
    PROVE  LET next == [q EXCEPT !.page = k]
           IN Found(next, weather) = Found(q, weather) /\ Orders(rows, next) = Orders(rows, q)
<1> DEFINE next == [q EXCEPT !.page = k]
<1>1. /\ next.id = q.id /\ next.type = q.type /\ next.coords = q.coords
      /\ next.radius = q.radius /\ next.ratings = q.ratings /\ next.tags = q.tags
      /\ next.open = q.open /\ next.min = q.min /\ next.max = q.max
      /\ next.featured = q.featured /\ next.status = q.status
      /\ next.order = q.order /\ next.sort = q.sort
  BY DEF Query
<1> HIDE DEF next
<1>2. ByDistance(next) <=> ByDistance(q)  BY <1>1 DEF ByDistance
<1>3. \A c : DistanceOf(c, next) = DistanceOf(c, q) /\ distance_m(c, next) = distance_m(c, q)
  BY <1>1 DEF Point, DistanceOf, distance_m
<1>4. \A c : Matches(c, next, weather) <=> Matches(c, q, weather)
  <2>1. \A c : InMode(c, next) <=> InMode(c, q)  BY <1>1, <1>2, <1>3 DEF InMode
  <2> QED  BY <1>1, <2>1 DEF Matches
<1>5. Found(next, weather) = Found(q, weather)  BY <1>4 DEF Found
<1>6. \A c : OrderKey(c, next) = OrderKey(c, q)
  <2>1. \A c : SortKey(c, next) = SortKey(c, q)  BY <1>1, <1>2, <1>3 DEF SortKey
  <2> QED  BY <2>1 DEF OrderKey
<1>7. Orders(rows, next) = Orders(rows, q)  BY <1>6 DEF Orders
<1> QED  BY <1>5, <1>7 DEF next

LEMMA BaseIs ==
    ASSUME Fit(walk.query), walk.query.sort \in {Null} \cup Sorts,
           walk.query.page \in {Null} \cup Positive
    PROVE  /\ Base \in Query
           /\ Base.size \in 1..maxPageSize
           /\ Base.sort \in Sorts
           /\ \A c \in Cafes : distance_m(c, Base) \in Number
           /\ Matching = Found(Base, Filter)
<1> DEFINE q == walk.query
<1>1. q \in Query  BY DEF Fit
<1>2. Answers(Base, q)  BY NormalisedAnswers DEF Base
<1>3. /\ Base.sort = Default(q.sort, "default") /\ Base.status = Default(q.status, "active")
      /\ Base.size = Size(q) /\ Base.radius = RadiusMax(q) /\ Base.page = Default(q.page, 1)
      /\ Base = [q EXCEPT !.radius = RadiusMax(q), !.size = Size(q),
                         !.page = Default(q.page, 1), !.status = Default(q.status, "active"),
                         !.sort = Default(q.sort, "default")]
  BY <1>1 DEF Base, Normalised, Query
<1>4. Base.sort \in Sorts  BY <1>3 DEF Sorts, Default
<1>5. Base \in Query
  <2>1. RadiusMax(q) \in Sent(Positive)
    BY DEF Fit, RadiusMax, Default, Sent, Positive
  <2>2. Size(q) \in Positive  BY <1>2, <1>3 DEF Answers, maxPageSize, Positive
  <2>3. Default(q.page, 1) \in Positive  BY DEF Default, Positive
  <2>4. Default(q.status, "active") \in {Null} \cup Statuses
    BY <1>1 DEF Query, Default, Statuses
  <2>5. Default(q.sort, "default") \in Sorts  BY <1>3, <1>4
  <2> QED  BY <1>1, <1>3, <2>1, <2>2, <2>3, <2>4, <2>5 DEF Query, Sent, Sorts
<1>6. Base.size \in 1..maxPageSize  BY <1>2 DEF Answers
<1>7. ASSUME NEW c \in Cafes PROVE distance_m(c, Base) \in Number
  <2> DEFINE d == DistanceOf(c, Base)
  <2>1. Point(Base) \in {Null} \cup Cafes \cup Places \cup Spots
    BY <1>2 DEF Fit, Answers, Point, Query
  <2>2. d \in Nat \cup {Null}  BY <2>1, DistanceAssumption DEF DistanceOf
  <2>3. distance_m(c, Base) = IF d = Null THEN Null ELSE (d + 1) \div 2  BY DEF distance_m
  <2> HIDE DEF d
  <2>4. d # Null => (d + 1) \div 2 \in Nat  BY <2>2
  <2> QED  BY <2>3, <2>4 DEF Number
<1>8. Matching = Found(Base, Filter)  BY DEF Matching, Filter, Base
<1> QED  BY <1>4, <1>5, <1>6, <1>7, <1>8

\* While the world stands still, so do the answers to a walk.
LEMMA QuietKeeps ==
    ASSUME cafes' = cafes, reading' = reading, walk'.query = walk.query
    PROVE  /\ Base' = Base /\ Filter' = Filter /\ Matching' = Matching
           /\ \A rows, q : Orders(rows, q)' = Orders(rows, q)
<1>1. Base' = Base  BY DEF Base, Normalised, Size, RadiusMax, Default
<1>2. Filter' = Filter  BY <1>1 DEF Filter
<1>3. \A q, weather : Found(q, weather)' = Found(q, weather)
  <2>1. \A q, weather, c : Matches(c, q, weather)' <=> Matches(c, q, weather)
    BY DEF Matches, InMode, DistanceOf, Point, ByDistance, Scored
  <2> QED  BY <2>1 DEF Found
<1>4. Matching' = Matching  BY <1>3 DEF Matching
<1>5. \A c, q : OrderKey(c, q)' = OrderKey(c, q)
  BY DEF OrderKey, SortKey, distance_m, DistanceOf, Point, ByDistance
<1>6. \A rows, q : Orders(rows, q)' = Orders(rows, q)  BY <1>5 DEF Orders
<1> QED  BY <1>1, <1>2, <1>4, <1>6

LEMMA GatheredStays ==
    ASSUME cafes' = cafes, reading' = reading, walk'.query = walk.query,
           walk'.pages = walk.pages, Gathered
    PROVE  Gathered'
<1>1. /\ Base' = Base /\ Matching' = Matching
      /\ \A rows, q : Orders(rows, q)' = Orders(rows, q)
  BY QuietKeeps
<1> QED  BY <1>1 DEF Gathered

\* The query of the next page is that of the first one but for its page.
LEMMA NextIsBase ==
    ASSUME NEW q \in Query, NEW k \in Positive
    PROVE  Normalised([q EXCEPT !.page = k]) = [Normalised(q) EXCEPT !.page = k]
<1> DEFINE next == [q EXCEPT !.page = k]
<1>1. next.radius = q.radius /\ next.coords = q.coords /\ next.type = q.type
      /\ next.size = q.size /\ next.status = q.status /\ next.sort = q.sort /\ next.page = k
  BY DEF Query
<1>2. RadiusMax(next) = RadiusMax(q) /\ Size(next) = Size(q)  BY <1>1 DEF RadiusMax, Size
<1>3. Default(k, 1) = k  BY NullAssumption DEF Default, Positive
<1> HIDE DEF next
<1>4. Normalised(next) = [next EXCEPT !.radius = RadiusMax(q), !.size = Size(q), !.page = k,
                                     !.status = Default(q.status, "active"),
                                     !.sort = Default(q.sort, "default")]
  BY <1>1, <1>2, <1>3 DEF Normalised
<1>5. [next EXCEPT !.radius = RadiusMax(q), !.size = Size(q), !.page = k,
                  !.status = Default(q.status, "active"), !.sort = Default(q.sort, "default")]
      = [Normalised(q) EXCEPT !.page = k]
  BY DEF next, Normalised, Query
<1> QED  BY <1>4, <1>5 DEF next

LEMMA FirstIsBase ==
    ASSUME NEW q \in Query, q.page = 1
    PROVE  q = [q EXCEPT !.page = 1]
BY DEF Query

----------------------------------------------------------------------------
(* The walk *)

LEMMA PagesInit == Init => AskedInv /\ PagesInv
BY DEF Init, NoCall, NoReply, NoWalk, AskedInv, PagesInv

LEMMA ValidSort ==
    ASSUME NEW q \in Query, Parsed(q), Valid(q)
    PROVE  /\ Fit(q) /\ q.sort \in {Null} \cup Sorts
           /\ q.page \in {Null} \cup Positive
<1>1. Fit(q)  BY AcceptedIsFit
<1>2. q.sort \in {Null} \cup Sorts  BY DEF Valid, Sorts
<1>3. q.page \in {Null} \cup Positive  BY DEF Parsed, Query, Sent
<1> QED  BY <1>1, <1>2, <1>3

LEMMA AskedNext == IInv /\ AskedInv /\ [Next]_vars => AskedInv'
<1> SUFFICES ASSUME IInv, AskedInv, [Next]_vars PROVE AskedInv'  OBVIOUS
<1>1. ASSUME NEW q \in Queries, Ask(q) PROVE AskedInv'
  <2>1. q \in Query  BY QueriesAssumption
  <2>2. walk'.query = q /\ walk'.pages = <<>>  BY <1>1 DEF Ask
  <2>3. CASE Refuse(400)  BY <2>2, <2>3 DEF Refuse, AskedInv
  <2>4. CASE Parsed(q) /\ Valid(q)  BY <2>1, <2>2, <2>4, ValidSort DEF AskedInv
  <2> QED  BY <1>1, <2>3, <2>4 DEF Ask, Request
<1>2. CASE NextPage  BY <1>2 DEF NextPage, AskedInv
<1>3. ASSUME call # NoCall, walk'.query = walk.query PROVE AskedInv'
  BY <1>3 DEF AskedInv
<1>4. CASE ResolveFocus  BY <1>3, <1>4 DEF ResolveFocus, NoCall
<1>5. CASE ResolveFilters  BY <1>3, <1>5 DEF ResolveFilters, NoCall
<1>6. CASE ResolveWeather  BY <1>3, <1>6 DEF ResolveWeather, NoCall
<1>7. CASE SearchRows
  <2>1. call # NoCall  BY <1>7 DEF SearchRows, NoCall
  <2>2. walk'.query = walk.query
    <3>1. walk' = walk \/ \E rows : walk' = [walk EXCEPT !.pages = Append(@, rows)]
      BY <1>7 DEF SearchRows
    <3>2. walk = [query |-> walk.query, pages |-> walk.pages, calm |-> walk.calm]
      BY DEF IInv, WalkInv
    <3> QED  BY <3>1, <3>2
  <2> QED  BY <1>3, <2>1, <2>2
<1>8. CASE DbError  BY <1>3, <1>8 DEF DbError, NoCall
<1>9. ASSUME Outside PROVE AskedInv'
  <2>1. walk' = [query |-> walk.query, pages |-> walk.pages, calm |-> FALSE]
    BY <1>9 DEF Outside, IInv, WalkInv
  <2>2. walk'.query = walk.query /\ walk'.pages = walk.pages  BY <2>1
  <2>3. call' = call /\ reply' = reply  BY <1>9 DEF Outside
  <2> QED  BY <2>2, <2>3 DEF AskedInv
<1>10. CASE UNCHANGED vars  BY <1>10 DEF vars, AskedInv
<1> QED
  BY <1>1, <1>2, <1>4, <1>5, <1>6, <1>7, <1>8, <1>9, <1>10
  DEF Next, EditCafe, EditPlace, WeatherChanges

\* The page that arrives is the next one of the order of the pages before it.
LEMMA RowsArrive ==
    ASSUME IInv, AskedInv, PagesInv, SearchRows, reply'.code = 200,
           walk.calm, Base.page = 1
    PROVE  LET n == Len(walk.pages)
           IN /\ reply'.page = n + 1
              /\ n * Base.size < Half
              /\ reply'.total = IF reply'.rows = <<>> THEN 0 ELSE Cardinality(Matching)
              /\ \E order \in Orders(Matching, Base) :
                    /\ \A i \in 1..n : walk.pages[i] = Slice(order, Base.size, i)
                    /\ reply'.rows = Slice(order, Base.size, n + 1)
<1> DEFINE n == Len(walk.pages)
           req == call.req
<1>1. call.at = "rows" /\ call # NoCall  BY DEF SearchRows, NoCall
<1>2. /\ Base \in Query /\ Base.size \in 1..maxPageSize /\ Base.sort \in Sorts
      /\ \A c \in Cafes : distance_m(c, Base) \in Number
      /\ Matching = Found(Base, Filter)
  BY <1>1, BaseIs DEF AskedInv
<1>3. /\ walk.pages \in Seq(Seq(Cafes)) /\ n \in Nat
      /\ Far /\ req = [Base EXCEPT !.page = n + 1] /\ call.weather = Filter
      /\ Gathered
  BY <1>1 DEF PagesInv, OnItsWay
<1>4. req.page = n + 1 /\ req.size = Base.size  BY <1>2, <1>3 DEF Query
<1>5. Found(req, call.weather) = Matching /\ Orders(Matching, req) = Orders(Matching, Base)
  <2> DEFINE next == [Base EXCEPT !.page = n + 1]
  <2>1. /\ Found(next, Filter) = Found(Base, Filter)
        /\ Orders(Matching, next) = Orders(Matching, Base)
    <3> HIDE DEF n
    <3> QED  BY <1>2, PageDoesNotMatter
  <2>2. req = next /\ call.weather = Filter  BY <1>3
  <2> HIDE DEF next, req
  <2> QED  BY <1>2, <2>1, <2>2 DEF req
<1>6. ~(Offset(req) < 0 /\ Refuse(500))  BY DEF Refuse
<1>7. PICK order \in Orders(Found(req, call.weather), req) :
         /\ Offset(req) >= 0
         /\ reply' = [code |-> 200, rows |-> Page(order, req), page |-> req.page,
                      size |-> req.size, banner |-> call.banner,
                      total |-> IF Page(order, req) = <<>> THEN 0 ELSE Len(order)]
  BY <1>6 DEF SearchRows, WeatherFilter
<1>8. order \in Orders(Matching, Base)  BY <1>5, <1>7
<1>9. IsFiniteSet(Matching) /\ Matching \subseteq Cafes  BY <1>2, FoundIsFinite
<1>10. order \in Seq(Matching) /\ Len(order) = Cardinality(Matching)
  BY <1>8, <1>9, OrderListsAll
<1>11. n # 0 => (n - 1) * req.size < Half  BY <1>3, <1>4 DEF Far
<1>12. n * req.size < Half /\ Page(order, req) = Slice(order, req.size, n + 1)
  <2>1. n \in Nat /\ req.page = n + 1  BY <1>3, <1>4
  <2>2. req.size \in 1..maxPageSize  BY <1>2, <1>4
  <2>3. Offset(req) >= 0  BY <1>7
  <2> HIDE DEF n, req
  <2> QED  BY <1>10, <1>11, <2>1, <2>2, <2>3, PageIsSlice
<1>13. \A i \in 1..n : walk.pages[i] = Slice(order, Base.size, i)
  <2>1. CASE n = 0  BY <2>1
  <2>2. CASE n # 0
    <3>1. PICK old \in Orders(Matching, Base) :
              \A i \in 1..n : walk.pages[i] = Slice(old, Base.size, i)
      BY <1>3, <2>2 DEF Gathered
    <3>2. cafes \in [Cafes -> Cafe]  BY DEF IInv, TypeOK
    <3>3. old = order  BY <1>2, <1>8, <1>9, <3>2, OneOrder
    <3> QED  BY <3>1, <3>3
  <2> QED  BY <2>1, <2>2
<1>14. /\ reply'.rows = Page(order, req) /\ reply'.page = req.page
       /\ reply'.total = IF Page(order, req) = <<>> THEN 0 ELSE Len(order)
  BY <1>7
<1> QED  BY <1>4, <1>8, <1>10, <1>12, <1>13, <1>14

Calm == walk.calm /\ Base.page = 1

LEMMA RefusedPages ==
    ASSUME NEW code \in {400, 404, 500}, Refuse(code)
    PROVE  OnItsWay' /\ Answered'
BY DEF Refuse, OnItsWay, Answered

\* A step that leaves the world and the walk alone disturbs the request and the
\* response only.
LEMMA WalkStays ==
    ASSUME PagesInv, cafes' = cafes, reading' = reading, walk' = walk,
           Calm /\ OnItsWay /\ Answered => OnItsWay' /\ Answered'
    PROVE  PagesInv'
<1>1. Base' = Base  BY QuietKeeps
<1>2. Gathered => Gathered'  BY GatheredStays
<1> QED  BY <1>1, <1>2 DEF PagesInv, Calm

LEMMA AskPages ==
    ASSUME IInv, NEW q \in Queries, Ask(q)
    PROVE  PagesInv'
<1>1. walk'.query = q /\ walk'.pages = <<>> /\ q \in Query
  BY QueriesAssumption DEF Ask
<1>2. Gathered' /\ Far'  BY <1>1 DEF Gathered, Far
<1>3. walk'.pages \in Seq(Seq(Cafes))  BY <1>1
<1>4. CASE Refuse(400)  BY <1>2, <1>3, <1>4, RefusedPages DEF PagesInv
<1>5. ASSUME Parsed(q), Valid(q), reply' = NoReply, Base'.page = 1,
             call' = [at |-> "focus", req |-> Normalised(q), weather |-> {}, banner |-> Null]
      PROVE  OnItsWay' /\ Answered'
  <2>1. Base' = Normalised(q)  BY <1>1 DEF Base
  <2>2. /\ Fit(walk'.query) /\ walk'.query.sort \in {Null} \cup Sorts
        /\ walk'.query.page \in {Null} \cup Positive
    BY <1>1, <1>5, ValidSort
  <2>3. Base' \in Query
    <3>1. (Fit(walk.query) /\ walk.query.sort \in {Null} \cup Sorts
           /\ walk.query.page \in {Null} \cup Positive)' => (Base \in Query)'
      BY BaseIs, PTL
    <3> QED  BY <2>2, <3>1
  <2>4. Base' = [Base' EXCEPT !.page = 1]  BY <1>5, <2>3, FirstIsBase
  <2>5. Len(walk'.pages) + 1 = 1  BY <1>1
  <2>6. call'.req = [Base' EXCEPT !.page = Len(walk'.pages) + 1] /\ call'.at = "focus"
    BY <1>5, <2>1, <2>4, <2>5
  <2>7. OnItsWay'  BY <1>2, <2>6 DEF OnItsWay
  <2>8. Answered'  BY <1>5 DEF NoReply, Answered
  <2> QED  BY <2>7, <2>8
<1> QED  BY <1>2, <1>3, <1>4, <1>5 DEF Ask, Request, PagesInv

LEMMA NextPages ==
    ASSUME IInv, AskedInv, PagesInv, NextPage
    PROVE  PagesInv'
<1> DEFINE n == Len(walk.pages)
           next == [walk.query EXCEPT !.page = reply.page + 1]
<1>1. /\ reply.code = 200 /\ Request(next)
      /\ walk' = walk /\ cafes' = cafes /\ reading' = reading
  BY DEF NextPage, world
<1>2. Fit(walk.query) /\ walk.query \in Query  BY <1>1 DEF AskedInv, Fit
<1>3. ASSUME Calm, OnItsWay, Answered PROVE OnItsWay' /\ Answered'
  <2>1. /\ walk.pages # <<>> /\ Far /\ reply.page = n /\ n \in Nat
    BY <1>1, <1>3 DEF Answered, PagesInv
  <2>2. Base' = Base /\ Far'
    <3>1. Base' = Base  BY <1>1, QuietKeeps
    <3> QED  BY <1>1, <2>1, <3>1 DEF Far
  <2>3. CASE Refuse(400)  BY <2>3, RefusedPages
  <2>4. CASE /\ call' = [at |-> "focus", req |-> Normalised(next), weather |-> {},
                         banner |-> Null]
             /\ reply' = NoReply
    <3>1. n + 1 \in Positive  BY <2>1 DEF Positive
    <3>2. Normalised(next) = [Base EXCEPT !.page = n + 1]
      <4>1. next = [walk.query EXCEPT !.page = n + 1]  BY <2>1
      <4> HIDE DEF next, n
      <4> QED  BY <1>2, <3>1, <4>1, NextIsBase DEF Base
    <3>3. call'.req = [Base' EXCEPT !.page = Len(walk'.pages) + 1] /\ call'.at = "focus"
      BY <1>1, <2>2, <2>4, <3>2
    <3>4. OnItsWay'  BY <2>2, <3>3 DEF OnItsWay
    <3>5. Answered'  BY <2>4 DEF NoReply, Answered
    <3> QED  BY <3>4, <3>5
  <2> QED  BY <1>1, <2>3, <2>4 DEF Request
<1> QED  BY <1>1, <1>3, WalkStays

\* A request goes on without a change of its query.
LEMMA GotoPages ==
    ASSUME IInv, PagesInv, call # NoCall, NEW at \in {"filters", "weather"}, Goto(at),
           walk' = walk, cafes' = cafes, reading' = reading
    PROVE  PagesInv'
<1>1. call'.at = at /\ call'.req = call.req /\ reply' = reply
  BY DEF IInv, CallInv, Goto
<1>2. Base' = Base /\ Matching' = Matching  BY QuietKeeps
<1>3. ASSUME OnItsWay, Answered PROVE OnItsWay' /\ Answered'
  <2>1. Far /\ call.req = [Base EXCEPT !.page = Len(walk.pages) + 1]  BY <1>3 DEF OnItsWay
  <2>2. Far <=> Far'  BY <1>2 DEF Far
  <2>3. OnItsWay'  BY <1>1, <1>2, <2>1, <2>2 DEF OnItsWay
  <2>4. Answered'  BY <1>1, <1>2, <1>3, <2>2 DEF Answered
  <2> QED  BY <2>3, <2>4
<1> QED  BY <1>3, WalkStays

LEMMA RefusedWalk ==
    ASSUME PagesInv, NEW code \in {400, 404, 500}, Refuse(code),
           walk' = walk, cafes' = cafes, reading' = reading
    PROVE  PagesInv'
BY RefusedPages, WalkStays

LEMMA WeatherPages ==
    ASSUME IInv, AskedInv, PagesInv, ResolveWeather
    PROVE  PagesInv'
<1>1. /\ call.at = "weather" /\ call # NoCall
      /\ reply' = reply /\ walk' = walk /\ cafes' = cafes /\ reading' = reading
  BY DEF ResolveWeather, NoCall, world
<1>2. /\ Base' = Base /\ Filter' = Filter /\ Matching' = Matching
  BY <1>1, QuietKeeps
<1>3. Base \in Query  BY <1>1, BaseIs DEF AskedInv
<1>4. ASSUME OnItsWay, Answered PROVE OnItsWay' /\ Answered'
  <2>1. Far /\ call.req = [Base EXCEPT !.page = Len(walk.pages) + 1]
    BY <1>1, <1>4 DEF OnItsWay
  <2>2. call.req.weather = Base.weather  BY <1>3, <2>1 DEF Query
  <2>3. call'.req = call.req
        /\ call'.weather = IF call.req.weather = {"current"} THEN {reading} \ {Null}
                           ELSE call.req.weather
    BY <1>1 DEF ResolveWeather, IInv, CallInv
  <2>4. call'.weather = Filter  BY <2>2, <2>3 DEF Filter
  <2>5. Far <=> Far'  BY <1>1, <1>2 DEF Far
  <2>6. OnItsWay'  BY <1>1, <1>2, <2>1, <2>3, <2>4, <2>5 DEF OnItsWay
  <2>7. Answered'  BY <1>1, <1>2, <1>4, <2>5 DEF Answered
  <2> QED  BY <2>6, <2>7
<1> QED  BY <1>1, <1>4, WalkStays

LEMMA RowsPages ==
    ASSUME IInv, AskedInv, PagesInv, SearchRows, reply'.code = 200
    PROVE  PagesInv'
<1> DEFINE n == Len(walk.pages)
           rows == reply'.rows
<1>1. /\ call' = NoCall /\ rows \in Seq(Cafes)
      /\ walk' = [walk EXCEPT !.pages = Append(@, rows)]
  BY RowsOfPage
<1>2. /\ walk'.query = walk.query /\ walk'.calm = walk.calm
      /\ walk'.pages = Append(walk.pages, rows)
  BY <1>1 DEF IInv, WalkInv
<1>3. cafes' = cafes /\ reading' = reading  BY DEF SearchRows, world
<1>4. walk.pages \in Seq(Seq(Cafes)) /\ n \in Nat  BY DEF PagesInv
<1>5. /\ walk'.pages \in Seq(Seq(Cafes)) /\ Len(walk'.pages) = n + 1 /\ walk'.pages # <<>>
      /\ \A i \in 1..n : walk'.pages[i] = walk.pages[i]
      /\ walk'.pages[n + 1] = rows
  BY <1>1, <1>2, <1>4
<1>6. /\ Base' = Base /\ Matching' = Matching
      /\ \A found, q : Orders(found, q)' = Orders(found, q)
  BY <1>2, <1>3, QuietKeeps
<1>7. ASSUME Calm PROVE OnItsWay' /\ Answered' /\ Gathered'
  <2>1. /\ reply'.page = n + 1
        /\ n * Base.size < Half
        /\ reply'.total = IF reply'.rows = <<>> THEN 0 ELSE Cardinality(Matching)
        /\ \E order \in Orders(Matching, Base) :
              /\ \A i \in 1..n : walk.pages[i] = Slice(order, Base.size, i)
              /\ reply'.rows = Slice(order, Base.size, n + 1)
    BY <1>7, RowsArrive DEF Calm
  <2>2. OnItsWay'  BY <1>1 DEF OnItsWay
  <2>3. Far'
    <3>1. Len(walk'.pages) - 1 = n  BY <1>4, <1>5
    <3> QED  BY <1>6, <2>1, <3>1 DEF Far
  <2>4. Answered'  BY <1>5, <1>6, <2>1, <2>3 DEF Answered
  <2>5. Gathered'
    <3>1. PICK order \in Orders(Matching, Base) :
              /\ \A i \in 1..n : walk.pages[i] = Slice(order, Base.size, i)
              /\ rows = Slice(order, Base.size, n + 1)
      BY <2>1
    <3>2. \A i \in 1..Len(walk'.pages) : walk'.pages[i] = Slice(order, Base.size, i)
      <4>1. ASSUME NEW i \in 1..(n + 1) PROVE walk'.pages[i] = Slice(order, Base.size, i)
        <5>1. i \in 1..n \/ i = n + 1  BY <1>4
        <5> HIDE DEF rows
        <5> QED  BY <1>5, <3>1, <5>1
      <4> QED  BY <1>5, <4>1
    <3> QED  BY <1>6, <3>1, <3>2 DEF Gathered
  <2> QED  BY <2>2, <2>4, <2>5
<1> QED  BY <1>2, <1>5, <1>6, <1>7 DEF PagesInv, Calm

LEMMA OutsidePages ==
    ASSUME IInv, PagesInv, Outside
    PROVE  PagesInv'
<1>1. walk' = [query |-> walk.query, pages |-> walk.pages, calm |-> FALSE]
  BY DEF Outside, IInv, WalkInv
<1> QED  BY <1>1 DEF PagesInv

LEMMA PagesNext == IInv /\ AskedInv /\ PagesInv /\ [Next]_vars => PagesInv'
<1> SUFFICES ASSUME IInv, AskedInv, PagesInv, [Next]_vars PROVE PagesInv'  OBVIOUS
<1> USE DEF world
<1>1. ASSUME NEW q \in Queries, Ask(q) PROVE PagesInv'  BY <1>1, AskPages
<1>2. CASE NextPage  BY <1>2, NextPages
<1>3. CASE ResolveFocus
  <2>1. call # NoCall /\ walk' = walk /\ cafes' = cafes /\ reading' = reading
    BY <1>3 DEF ResolveFocus, NoCall
  <2>2. Goto("filters") \/ Refuse(404) \/ Refuse(500)  BY <1>3 DEF ResolveFocus
  <2> QED  BY <2>1, <2>2, GotoPages, RefusedWalk
<1>4. CASE ResolveFilters
  <2>1. call # NoCall /\ walk' = walk /\ cafes' = cafes /\ reading' = reading
    BY <1>4 DEF ResolveFilters, NoCall
  <2>2. Goto("weather") \/ Refuse(404) \/ Refuse(400)  BY <1>4 DEF ResolveFilters
  <2> QED  BY <2>1, <2>2, GotoPages, RefusedWalk
<1>5. CASE ResolveWeather  BY <1>5, WeatherPages
<1>6. CASE SearchRows
  <2>1. CASE reply'.code = 200  BY <1>6, <2>1, RowsPages
  <2>2. CASE reply'.code # 200
    <3>1. Refuse(500) /\ walk' = walk
      <4>1. \A b : [code |-> 200, rows |-> b[1], page |-> b[2], size |-> b[3],
                    banner |-> b[4], total |-> b[5]].code = 200
        OBVIOUS
      <4> QED  BY <1>6, <2>2 DEF SearchRows
    <3> QED  BY <1>6, <3>1, RefusedWalk DEF SearchRows
  <2> QED  BY <2>1, <2>2
<1>7. CASE DbError  BY <1>7, RefusedWalk DEF DbError
<1>8. ASSUME Outside PROVE PagesInv'  BY <1>8, OutsidePages
<1>9. CASE UNCHANGED vars
  <2>1. /\ call' = call /\ reply' = reply /\ walk' = walk /\ cafes' = cafes
        /\ reading' = reading
    BY <1>9 DEF vars
  <2>2. Base' = Base /\ Filter' = Filter /\ Matching' = Matching  BY <2>1, QuietKeeps
  <2>3. OnItsWay /\ Answered => OnItsWay' /\ Answered'
    BY <2>1, <2>2 DEF OnItsWay, Answered, Far
  <2> QED  BY <2>1, <2>3, WalkStays
<1> QED
  BY <1>1, <1>2, <1>3, <1>4, <1>5, <1>6, <1>7, <1>8, <1>9
  DEF Next, EditCafe, EditPlace, WeatherChanges

THEOREM PagesInvariant == Spec => [](IInv /\ AskedInv /\ PagesInv)
BY InvInit, InvNext, PagesInit, AskedNext, PagesNext, PTL DEF Spec

LEMMA PagesOfOneOrder ==
    ASSUME IInv, AskedInv, PagesInv
    PROVE  PagesPartition
<1> SUFFICES ASSUME walk.calm, walk.pages # <<>>, Base.page = 1
             PROVE  LET listed == FlattenSeq(walk.pages)
                    IN /\ IsInjective(listed)
                       /\ ToSet(listed) \subseteq Matching
                       /\ Len(Last(walk.pages)) < Base.size => ToSet(listed) = Matching
                       /\ reply.code = 200 /\ reply.rows # <<>> =>
                             reply.total = Cardinality(Matching)
  BY DEF PagesPartition, Base
<1> DEFINE n == Len(walk.pages)
           size == Base.size
           N == Cardinality(Matching)
<1>1. Answered /\ Gathered /\ walk.pages \in Seq(Seq(Cafes))  BY DEF PagesInv
<1>2. size \in Nat \ {0} /\ Matching = Found(Base, Filter)
  <2>1. size \in 1..maxPageSize /\ Matching = Found(Base, Filter)  BY BaseIs DEF AskedInv
  <2>2. \A k \in 1..maxPageSize : k \in Nat \ {0}  BY DEF maxPageSize
  <2> QED  BY <2>1, <2>2
<1>3. n \in Nat \ {0}  BY <1>1
<1>4. IsFiniteSet(Matching) /\ Matching \subseteq Cafes /\ N \in Nat
  BY <1>2, FoundIsFinite
<1>5. PICK order \in Orders(Matching, Base) :
          \A i \in 1..n : walk.pages[i] = Slice(order, size, i)
  BY <1>1 DEF Gathered
<1>6. /\ order \in [1..N -> Matching]
      /\ \A i, j \in 1..N : i # j => order[i] # order[j]
      /\ \A c \in Matching : \E i \in 1..N : order[i] = c
  BY <1>4, OrderIs
<1>7. order \in Seq(Matching) /\ Len(order) = N  BY <1>4, OrderListsAll
<1>8. order \in Seq(Cafes)  BY <1>4, <1>7
<1> DEFINE m == n * size
           last == IF m <= N THEN m ELSE N
           listed == FlattenSeq(walk.pages)
<1>9. m \in Nat
  <2> HIDE DEF n, size
  <2> QED  BY <1>2, <1>3
<1>10. listed = SubSeq(order, 1, last)
  <2>1. listed = FirstPages(order, size, n)
    <3> HIDE DEF size
    <3> QED  BY <1>1, <1>2, <1>5, <1>8, PagesFlatten
  <2> QED  BY <1>7, <2>1 DEF FirstPages
<1>11. /\ last \in Nat /\ last <= N
       /\ DOMAIN listed = 1..last /\ \A i \in 1..last : listed[i] = order[i]
  <2>1. last \in Nat /\ last <= N
    <3> HIDE DEF m, N
    <3> QED  BY <1>4, <1>9
  <2> HIDE DEF last, listed
  <2> QED  BY <1>7, <1>10, <2>1
<1> HIDE DEF listed, last
<1>12. IsInjective(listed)  BY <1>4, <1>6, <1>11 DEF IsInjective
<1>13. ToSet(listed) \subseteq Matching  BY <1>4, <1>6, <1>11 DEF ToSet
<1>14. ASSUME Len(Last(walk.pages)) < size PROVE ToSet(listed) = Matching
  <2>1. Last(walk.pages) = Slice(order, size, n)  BY <1>3, <1>5 DEF Last
  <2>2. N < m
    <3> HIDE DEF size, n
    <3> QED  BY <1>2, <1>3, <1>7, <1>14, <2>1, SliceIs
  <2>3. last = N  BY <1>4, <1>9, <2>2 DEF last
  <2> QED  BY <1>6, <1>11, <2>3 DEF ToSet
<1> QED  BY <1>1, <1>12, <1>13, <1>14 DEF Answered, listed

\* A client that walks from the first page on, while nothing changes, gets no cafe
\* twice, and has got every match when a page is not full; total tells from the
\* first row on how many there are.
THEOREM PagesPartitionAlways == Spec => []PagesPartition
BY PagesInvariant, PagesOfOneOrder, PTL
=============================================================================
