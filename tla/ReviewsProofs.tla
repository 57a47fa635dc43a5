---------------------------- MODULE ReviewsProofs ----------------------------
(***************************************************************************)
(* Theorems about Reviews, for any requests, users, cafes and rating types *)
(* and before and after 012: types; why a user has one live review of a    *)
(* cafe; why a deleted review stays deleted; why the ratings of a review   *)
(* are those of its text; why Reviews implements ReviewBook; and why the   *)
(* answer of a POST or PUT is its own write or a later state.              *)
(***************************************************************************)
EXTENDS ReviewAnswers, FiniteSetTheorems, SequenceTheorems, TLAPS

----------------------------------------------------------------------------
(* Types *)

\* The orders in which the scores of a request may be inserted are sequences
\* of rating types.
LEMMA OrdersAreSequences ==
    ASSUME NEW S \in SUBSET Types, NEW s \in SetToSeqs(S)
    PROVE  s \in Seq(Types)
<1>1. IsFiniteSet(S)  BY TypesAssumption, FS_Subset
<1>2. Cardinality(S) \in Nat  BY <1>1, FS_CardinalityType
<1>3. s \in [1..Cardinality(S) -> S]  BY DEF SetToSeqs
<1> QED  BY <1>2, <1>3

\* ... one element of the sequence for each of the scores
LEMMA OrdersAreFull ==
    ASSUME NEW S \in SUBSET Types, S # {}, NEW s \in SetToSeqs(S)
    PROVE  s # <<>>
<1>1. IsFiniteSet(S)  BY TypesAssumption, FS_Subset
<1>2. Cardinality(S) \in Nat /\ Cardinality(S) # 0
  BY <1>1, FS_CardinalityType, FS_EmptySet
<1>3. s \in [1..Cardinality(S) -> S]  BY DEF SetToSeqs
<1> QED  BY <1>2, <1>3

\* Initially every variable has its type.
LEMMA TypeInit == Init => TypeOK
<1> SUFFICES ASSUME Init PROVE TypeOK  OBVIOUS
<1>1. review \in [Ids -> Row]  BY DEF Init, Row, Statuses
<1>2. rating \in [Ids -> SUBSET Score]  BY DEF Init, Score
<1>3. todo \in [Reqs -> Seq(Types)]  BY DEF Init
<1>4. resp \in [Reqs -> [code: Codes, items: SUBSET Item]]
  BY DEF Init, NoResponse, Codes
<1> QED  BY <1>1, <1>2, <1>3, <1>4 DEF Init, TypeOK, Locations, Returns

\* What a request asks for is one of the calls.
LEMMA CallsAreTyped ==
    ASSUME TypeOK, NEW q \in Reqs
    PROVE  /\ call[q] \in CallType
           /\ call[q].cafe \in Cafes
           /\ call[q].user \in Users
           /\ call[q].types \in SUBSET Types
<1>1. call[q] \in CallType  BY CallsAssumption DEF TypeOK
<1> QED  BY <1>1 DEF CallType

\* Every request is a review id.
LEMMA ReqIsId == Reqs \subseteq Ids
BY DEF Ids

\* A statement that writes a review has one, no other does, and one that
\* inserts a score has a type to insert.
InFlight == \A q \in Reqs :
    /\ pc[q] \in {"lock", "clear", "rate", "commit"} => row[q] \in Ids
    /\ pc[q] \notin {"lock", "clear", "rate", "commit"} => row[q] = NoId
    /\ pc[q] = "rate" => todo[q] # <<>>

TypeInv == TypeOK /\ InFlight

\* Its transaction has written its review and goes on.
Wrote(q) == pc[q] \in {"clear", "rate", "commit"}

\* They are what holds its row: every transaction ends with its request.
LEMMA HoldsWhileWriting ==
    ASSUME TypeInv, NEW q \in Reqs
    PROVE  /\ Holds(q) <=> Wrote(q)
           /\ HoldsRatings(q) <=> pc[q] \in {"rate", "commit"}
BY DistinctAssumption DEF TypeInv, InFlight, Holds, HoldsRatings, Wrote

\* The types of what a request is left with when it stops
LEMMA TypeReply ==
    ASSUME TypeOK, NEW q \in Reqs, NEW code \in Codes, NEW items \in SUBSET Item,
           Reply(q, code, items)
    PROVE  /\ pc' \in [Reqs -> Locations]
           /\ pc' = [pc EXCEPT ![q] = "done"]
           /\ resp' \in [Reqs -> [code: Codes, items: SUBSET Item]]
BY DEF TypeOK, Reply, Goto, Locations

LEMMA TypeEndTxn ==
    ASSUME TypeOK, NEW q \in Reqs, EndTxn(q)
    PROVE  /\ row' \in [Reqs -> Ids \cup {NoId}]
           /\ draft' \in [Reqs -> SUBSET Score]
           /\ todo' \in [Reqs -> Seq(Types)]
<1>1. <<>> \in Seq(Types)  OBVIOUS
<1> QED  BY <1>1 DEF TypeOK, EndTxn

LEMMA TypeAbort ==
    ASSUME TypeInv, NEW q \in Reqs, NEW code \in Codes, NEW error \in Returns,
           Abort(q, error, code), UNCHANGED <<world, call>>
    PROVE  TypeInv'
<1>1. /\ EndTxn(q)
      /\ ret' = [ret EXCEPT ![q] = error]
      /\ Reply(q, code, {})
      /\ UNCHANGED <<tables, page>>
  BY DEF Abort
<1>2. ret' \in [Reqs -> Returns]  BY <1>1 DEF TypeOK, TypeInv
<1>3. UNCHANGED <<review, rating, active, open, call, page>>
  BY <1>1 DEF tables, world
<1>4. {} \in SUBSET Item  OBVIOUS
<1>5. TypeOK'  BY <1>1, <1>2, <1>3, <1>4, TypeReply, TypeEndTxn DEF TypeOK, TypeInv
<1>6. InFlight'
  BY <1>1 DEF InFlight, TypeInv, TypeOK, Reply, Goto, EndTxn
<1> QED  BY <1>5, <1>6 DEF TypeInv

\* A step that only moves q on, to a statement that needs no review yet
LEMMA TypeGoto ==
    ASSUME TypeInv, NEW q \in Reqs, NEW l \in Locations, Goto(q, l),
           l \notin {"lock", "clear", "rate", "commit"},
           pc[q] \notin {"lock", "clear", "rate", "commit"},
           UNCHANGED <<review, rating, active, open, call, row, draft, todo,
                       ret, page, resp>>
    PROVE  TypeInv'
BY DEF TypeInv, TypeOK, InFlight, Goto

\* A step that only answers
LEMMA TypeAnswer ==
    ASSUME TypeInv, NEW q \in Reqs, NEW code \in Codes, NEW items \in SUBSET Item,
           Reply(q, code, items),
           pc[q] \notin {"lock", "clear", "rate", "commit"},
           page' \in [Reqs -> SUBSET Read],
           UNCHANGED <<review, rating, active, open, call, row, draft, todo, ret>>
    PROVE  TypeInv'
<1>1. TypeOK'  BY TypeReply DEF TypeInv, TypeOK
<1>2. InFlight'  BY TypeReply DEF TypeInv, TypeOK, InFlight
<1> QED  BY <1>1, <1>2 DEF TypeInv

\* What a transaction's COMMIT leaves in the tables
LEMMA TypeApply ==
    ASSUME TypeInv, NEW q \in Reqs, Apply(q)
    PROVE  review' \in [Ids -> Row] /\ rating' \in [Ids -> SUBSET Score]
<1>1. [status |-> "pending", body |-> q] \in Row  BY ReqIsId DEF Row, Statuses
<1>2. draft[q] \in SUBSET Score  BY DEF TypeInv, TypeOK
<1> QED  BY <1>1, <1>2 DEF Apply, TypeInv, TypeOK

\* A soft delete keeps the table's type.
LEMMA TypeDelete ==
    ASSUME TypeInv, NEW i \in Ids, NEW s \in Statuses,
           review' = [review EXCEPT ![i].status = s]
    PROVE  review' \in [Ids -> Row]
<1>1. [review[i] EXCEPT !.status = s] \in Row  BY DEF TypeInv, TypeOK, Row
<1> QED  BY <1>1 DEF TypeInv, TypeOK

\* The writes of a request keep every variable in its type.
LEMMA TypeWrites ==
    ASSUME TypeInv, NEW q \in Reqs,
           \/ CreateSelect(q) \/ CreateInsert(q)
           \/ FindOwn(q) \/ LostRow(q) \/ UpdateRow(q) \/ SoftDelete(q)
    PROVE  TypeInv'
<1> USE DEF tables, world, txn
<1>0. q \in Ids /\ TypeOK /\ InFlight  BY ReqIsId DEF TypeInv
<1>c. {"exists", "notfound", "nil", "err"} \subseteq Returns
      /\ {"409", "404", "204", "500"} \subseteq Codes
  BY DEF Returns, Codes
<1>1. CASE CreateSelect(q)
  <2>1. CASE Abort(q, "exists", "409")
    BY <1>1, <1>c, <2>1, TypeAbort DEF CreateSelect
  <2>2. CASE Goto(q, "insert") /\ UNCHANGED <<tables, txn, ret, page, resp>>
    BY <1>1, <2>2, TypeGoto DEF CreateSelect, Locations
  <2> QED  BY <1>1, <2>1, <2>2 DEF CreateSelect
<1>2. CASE CreateInsert(q)
  <2>1. CASE Abort(q, "exists", "409")
    BY <1>2, <1>c, <2>1, TypeAbort DEF CreateInsert
  <2>2. CASE /\ row' = [row EXCEPT ![q] = q]
             /\ Goto(q, "clear")
             /\ UNCHANGED <<tables, draft, todo, ret, page, resp>>
    <3>1. TypeOK'  BY <1>0, <1>2, <2>2 DEF CreateInsert, TypeOK, Goto, Locations
    <3>2. InFlight'  BY <1>0, <1>2, <2>2 DEF CreateInsert, TypeOK, InFlight, Goto
    <3> QED  BY <3>1, <3>2 DEF TypeInv
  <2> QED  BY <1>2, <2>1, <2>2 DEF CreateInsert
<1>3. CASE FindOwn(q)
  <2>1. CASE Abort(q, "notfound", "404")
    BY <1>3, <1>c, <2>1, TypeAbort DEF FindOwn
  <2>2. CASE \E i \in Ids : /\ row' = [row EXCEPT ![q] = i]
                            /\ Goto(q, "lock")
                            /\ UNCHANGED <<tables, draft, todo, ret, page, resp>>
    <3>1. TypeOK'  BY <1>0, <1>3, <2>2 DEF FindOwn, TypeOK, Goto, Locations
    <3>2. InFlight'  BY <1>0, <1>3, <2>2 DEF FindOwn, TypeOK, InFlight, Goto
    <3> QED  BY <3>1, <3>2 DEF TypeInv
  <2> QED  BY <1>3, <2>1, <2>2 DEF FindOwn
<1>4. CASE LostRow(q)
  BY <1>4, <1>c, TypeAbort DEF LostRow
<1>5. CASE UpdateRow(q)
  <2>1. rating[row[q]] \in SUBSET Score  BY <1>0, <1>5 DEF UpdateRow, TypeOK, InFlight
  <2>2. TypeOK'  BY <1>0, <1>5, <2>1 DEF UpdateRow, TypeOK, Goto, Locations
  <2>3. InFlight'  BY <1>0, <1>5 DEF UpdateRow, TypeOK, InFlight, Goto
  <2> QED  BY <2>2, <2>3 DEF TypeInv
<1>6. CASE SoftDelete(q)
  <2>1. row[q] \in Ids  BY <1>0, <1>6 DEF SoftDelete, InFlight
  <2>2. review' \in [Ids -> Row]  BY <1>6, <2>1, TypeDelete DEF SoftDelete, Statuses
  <2>3. TypeOK'
    BY <1>0, <1>6, <1>c, <2>2, TypeReply, TypeEndTxn DEF SoftDelete, TypeOK
  <2>4. InFlight'
    BY <1>0, <1>6 DEF SoftDelete, TypeOK, InFlight, Reply, Goto, EndTxn
  <2> QED  BY <2>3, <2>4 DEF TypeInv
<1> QED  BY <1>1, <1>2, <1>3, <1>4, <1>5, <1>6

\* So do the statements of replaceRatings and the end of the transaction.
LEMMA TypeRatings ==
    ASSUME TypeInv, NEW q \in Reqs,
           \/ ClearRatings(q) \/ InsertRating(q) \/ RatingRefused(q)
           \/ DeadlockVictim(q) \/ Commit(q)
    PROVE  TypeInv'
<1> USE DEF tables, world, txn
<1>0. q \in Ids /\ TypeOK /\ InFlight  BY ReqIsId DEF TypeInv
<1>c. {"nil", "err"} \subseteq Returns /\ "500" \in Codes  BY DEF Returns, Codes
<1>1. CASE ClearRatings(q)
  <2>1. draft' \in [Reqs -> SUBSET Score]
    BY <1>0, <1>1 DEF ClearRatings, DeleteRatings, TypeOK
  <2>2. CASE /\ call[q].types = {}
             /\ Goto(q, "commit")
             /\ UNCHANGED todo
    <3>1. TypeOK'  BY <1>0, <1>1, <2>1, <2>2 DEF ClearRatings, TypeOK, Goto, Locations
    <3>2. InFlight'  BY <1>0, <1>1, <2>2 DEF ClearRatings, TypeOK, InFlight, Goto
    <3> QED  BY <3>1, <3>2 DEF TypeInv
  <2>3. CASE /\ call[q].types # {}
             /\ \E order \in SetToSeqs(call[q].types) :
                   todo' = [todo EXCEPT ![q] = order]
             /\ Goto(q, "rate")
    <3>0. PICK order \in SetToSeqs(call[q].types) : todo' = [todo EXCEPT ![q] = order]
      BY <2>3
    <3>1. order \in Seq(Types) /\ order # <<>>
      BY <1>0, <2>3, CallsAreTyped, OrdersAreSequences, OrdersAreFull
    <3>2. TypeOK'
      BY <1>0, <1>1, <2>1, <2>3, <3>0, <3>1 DEF ClearRatings, TypeOK, Goto, Locations
    <3>3. InFlight'
      BY <1>0, <1>1, <2>3, <3>0, <3>1 DEF ClearRatings, TypeOK, InFlight, Goto
    <3> QED  BY <3>2, <3>3 DEF TypeInv
  <2> QED  BY <1>1, <2>2, <2>3 DEF ClearRatings
<1>2. CASE InsertRating(q)
  <2>1. todo[q] \in Seq(Types) /\ todo[q] # <<>>
    BY <1>0, <1>2 DEF InsertRating, TypeOK, InFlight
  <2>2. Head(todo[q]) \in Types /\ Tail(todo[q]) \in Seq(Types)  BY <2>1
  <2>3. draft' \in [Reqs -> SUBSET Score]
    BY <1>0, <1>2, <2>2 DEF InsertRating, TypeOK, Score
  <2>4. Len(todo[q]) # 1 => Tail(todo[q]) # <<>>
    <3>1. Len(todo[q]) \in Nat /\ Len(todo[q]) # 0  BY <2>1, EmptySeq
    <3>2. Len(Tail(todo[q])) = Len(todo[q]) - 1  BY <2>1, HeadTailProperties
    <3>3. Tail(todo[q]) = <<>> => Len(Tail(todo[q])) = 0  BY <2>2, EmptySeq
    <3> QED  BY <3>1, <3>2, <3>3
  <2>5. TypeOK'
    BY <1>0, <1>2, <2>2, <2>3 DEF InsertRating, TypeOK, Goto, Locations
  <2>6. InFlight'
    BY <1>0, <1>2, <2>4 DEF InsertRating, TypeOK, InFlight, Goto
  <2> QED  BY <2>5, <2>6 DEF TypeInv
<1>3. CASE RatingRefused(q)
  BY <1>3, <1>c, TypeAbort DEF RatingRefused
<1>4. CASE DeadlockVictim(q)
  BY <1>4, <1>c, TypeAbort DEF DeadlockVictim
<1>5. CASE Commit(q)
  <2>1. TypeOK'
    BY <1>0, <1>5, <1>c, TypeApply, TypeEndTxn DEF Commit, TypeOK, Goto, Locations
  <2>2. InFlight'
    BY <1>0, <1>5 DEF Commit, TypeOK, InFlight, EndTxn, Goto
  <2> QED  BY <2>1, <2>2 DEF TypeInv
<1> QED  BY <1>1, <1>2, <1>3, <1>4, <1>5

\* And the reads.
LEMMA TypeReads ==
    ASSUME TypeInv, NEW q \in Reqs,
           \/ Authenticate(q) \/ CafeIDByLocationID(q)
           \/ Mine(q) \/ VisibleReviews(q) \/ RatingsByReviewIDs(q)
    PROVE  TypeInv'
<1> USE DEF tables, world, txn
<1>0. /\ TypeOK /\ InFlight
      /\ call[q] \in CallType
      /\ page \in [Reqs -> SUBSET Read]
  BY CallsAreTyped DEF TypeInv, TypeOK
<1>c. {"401", "404", "200", "201"} \subseteq Codes  BY DEF Codes
<1>e. {} \in SUBSET Item  OBVIOUS
<1>r. \A i \in Ids : ReadRow(i) \in Read
  BY <1>0 DEF TypeOK, Row, Read, ReadRow
<1>i. \A r \in Read : ToItem(r) \in Item
  BY <1>0 DEF TypeOK, Read, Item, ToItem
<1>1. CASE Authenticate(q)
  <2>1. CASE Goto(q, "cafe") /\ UNCHANGED resp
    BY <1>1, <2>1, TypeGoto DEF Authenticate, Locations
  <2>2. CASE Reply(q, "401", {})
    BY <1>0, <1>1, <1>c, <1>e, <2>2, TypeAnswer DEF Authenticate
  <2> QED  BY <1>1, <2>1, <2>2 DEF Authenticate
<1>2. CASE CafeIDByLocationID(q)
  <2>1. CASE Goto(q, FirstStatement(call[q].op)) /\ UNCHANGED resp
    <3>1. FirstStatement(call[q].op) \in {"select", "find", "reread", "visible"}
      BY <1>0 DEF FirstStatement, CallType, Writes
    <3> QED  BY <1>2, <2>1, <3>1, TypeGoto DEF CafeIDByLocationID, Locations
  <2>2. CASE Reply(q, "404", {})
    BY <1>0, <1>2, <1>c, <1>e, <2>2, TypeAnswer DEF CafeIDByLocationID
  <2> QED  BY <1>2, <2>1, <2>2 DEF CafeIDByLocationID
<1>3. CASE Mine(q)
  <2>1. CASE \E i \in Ids : /\ page' = [page EXCEPT ![q] = {ReadRow(i)}]
                            /\ Goto(q, "ratings")
                            /\ UNCHANGED resp
    <3>1. page' \in [Reqs -> SUBSET Read]  BY <1>0, <1>r, <2>1
    <3>2. TypeOK'  BY <1>0, <1>3, <2>1, <3>1 DEF Mine, TypeOK, Goto, Locations
    <3>3. InFlight'  BY <1>0, <1>3, <2>1 DEF Mine, TypeOK, InFlight, Goto
    <3> QED  BY <3>2, <3>3 DEF TypeInv
  <2>2. CASE Reply(q, "404", {}) /\ UNCHANGED page
    BY <1>0, <1>3, <1>c, <1>e, <2>2, TypeAnswer DEF Mine
  <2> QED  BY <1>3, <2>1, <2>2 DEF Mine
<1>4. CASE VisibleReviews(q)
  <2>1. page' \in [Reqs -> SUBSET Read]  BY <1>0, <1>4, <1>r DEF VisibleReviews
  <2>2. TypeOK'  BY <1>0, <1>4, <2>1 DEF VisibleReviews, TypeOK, Goto, Locations
  <2>3. InFlight'  BY <1>0, <1>4 DEF VisibleReviews, TypeOK, InFlight, Goto
  <2> QED  BY <2>2, <2>3 DEF TypeInv
<1>5. CASE RatingsByReviewIDs(q)
  <2>1. {ToItem(r) : r \in page[q]} \in SUBSET Item  BY <1>0, <1>i
  <2>2. (IF call[q].op = "create" THEN "201" ELSE "200") \in Codes  BY <1>c
  <2>3. page' \in [Reqs -> SUBSET Read]  BY <1>0, <1>5 DEF RatingsByReviewIDs
  <2> QED  BY <1>5, <2>1, <2>2, <2>3, TypeAnswer DEF RatingsByReviewIDs
<1> QED  BY <1>1, <1>2, <1>3, <1>4, <1>5

\* Failures and the steps of mission control keep every variable in its type.
LEMMA TypeFaults ==
    ASSUME TypeInv, NEW q \in Reqs, Fault(q)
    PROVE  TypeInv'
<1> USE DEF tables, world
<1>0. q \in Ids /\ TypeOK /\ InFlight  BY ReqIsId DEF TypeInv
<1>c. "err" \in Returns /\ "500" \in Codes  BY DEF Returns, Codes
<1>1. CASE Fail(q)
  <2>1. ret' \in [Reqs -> Returns]  BY <1>0, <1>1, <1>c DEF Fail, TypeOK
  <2>2. page' \in [Reqs -> SUBSET Read]  BY <1>0, <1>1 DEF Fail, TypeOK
  <2>3. TypeOK'
    BY <1>0, <1>1, <1>c, <2>1, <2>2, TypeReply, TypeEndTxn DEF Fail, TypeOK
  <2>4. InFlight'
    BY <1>0, <1>1 DEF Fail, TypeOK, InFlight, Reply, Goto, EndTxn
  <2> QED  BY <2>3, <2>4 DEF TypeInv
<1>2. CASE CommitUnknown(q)
  <2>1. review' \in [Ids -> Row] /\ rating' \in [Ids -> SUBSET Score]
    <3>1. CASE Apply(q)  BY <3>1, TypeApply
    <3>2. CASE /\ pc[q] = "lock"
               /\ review' = [review EXCEPT ![row[q]].status = "deleted"]
               /\ UNCHANGED rating
      <4>1. row[q] \in Ids  BY <1>0, <3>2 DEF InFlight
      <4> QED  BY <1>0, <3>2, <4>1, TypeDelete DEF Statuses, TypeOK
    <3> QED  BY <1>2, <3>1, <3>2 DEF CommitUnknown
  <2>2. TypeOK'
    BY <1>0, <1>2, <1>c, <2>1, TypeReply, TypeEndTxn DEF CommitUnknown, TypeOK
  <2>3. InFlight'
    BY <1>0, <1>2 DEF CommitUnknown, TypeOK, InFlight, Reply, Goto, EndTxn
  <2> QED  BY <2>2, <2>3 DEF TypeInv
<1> QED  BY <1>1, <1>2 DEF Fault

LEMMA TypeExternal ==
    ASSUME TypeInv, External
    PROVE  TypeInv'
<1> USE DEF tables, world, requests, txn
<1>0. TypeOK /\ InFlight  BY DEF TypeInv
<1>1. ASSUME NEW i \in Ids, NEW s \in {"approved", "rejected", "deleted"}, Moderate(i, s)
      PROVE  TypeInv'
  <2>1. review' \in [Ids -> Row]  BY <1>1, TypeDelete DEF Moderate, Statuses
  <2> QED  BY <1>0, <1>1, <2>1 DEF Moderate, TypeOK, InFlight, TypeInv
<1>2. ASSUME NEW u \in Users, NEW b \in BOOLEAN, SetActive(u, b)
      PROVE  TypeInv'
  BY <1>0, <1>2 DEF SetActive, TypeOK, InFlight, TypeInv
<1>3. ASSUME NEW c \in Cafes, NEW b \in BOOLEAN, SetOpen(c, b)
      PROVE  TypeInv'
  BY <1>0, <1>3 DEF SetOpen, TypeOK, InFlight, TypeInv
<1> QED  BY <1>1, <1>2, <1>3 DEF External

LEMMA TypeNext == TypeInv /\ [Next]_vars => TypeInv'
<1> SUFFICES ASSUME TypeInv, [Next]_vars PROVE TypeInv'  OBVIOUS
<1>1. ASSUME NEW q \in Reqs, Step(q) PROVE TypeInv'
  BY <1>1, TypeWrites, TypeRatings, TypeReads DEF Step
<1>2. ASSUME NEW q \in Reqs, Fault(q) PROVE TypeInv'
  BY <1>2, TypeFaults
<1>3. CASE External  BY <1>3, TypeExternal
<1>4. CASE UNCHANGED vars
  BY <1>4 DEF vars, TypeInv, TypeOK, InFlight
<1> QED  BY <1>1, <1>2, <1>3, <1>4 DEF Next

LEMMA TypeAlways == Spec => []TypeInv
<1>1. Init => TypeInv  BY TypeInit DEF Init, InFlight, TypeInv
<1> QED  BY <1>1, TypeNext, PTL DEF Spec

\* Every variable of the review requests always has its type.
THEOREM TypeCorrect == Spec => []TypeOK
<1>1. TypeInv => TypeOK  BY DEF TypeInv
<1> QED  BY <1>1, TypeAlways, PTL

----------------------------------------------------------------------------
(* One live review of a cafe *)

\* Where a request has not inserted a review yet, and where it has one to write
Before == {"auth", "cafe", "select", "insert"}
Owning == {"lock", "clear", "rate", "commit"}

\* No review carries a request's id before that request inserts it.
Fresh == \A q \in Reqs : pc[q] \in Before => review[q].status = "absent"

\* The review a request writes is its user's, at its cafe.
Owned == \A q \in Reqs : pc[q] \in Owning => SameSlot(row[q], q)

\* A transaction holds a review that nobody else sees yet, or a live one.
HeldRow == \A q \in Reqs :
    Wrote(q) => \/ row[q] = q /\ review[q].status = "absent"
                \/ Live(row[q])

\* While a transaction holds a review, its user has no other one at the cafe.
OnlyHeld == \A q \in Reqs, i \in Ids :
    Wrote(q) /\ Live(i) /\ SameSlot(i, q) => i = row[q]

\* No two transactions write reviews of one user at one cafe.
Exclusive == \A p, q \in Reqs : Wrote(p) /\ Wrote(q) /\ SameSlot(p, q) => p = q

SlotInv == Fresh /\ Owned /\ HeldRow /\ OnlyHeld /\ Exclusive /\ OneLiveReview

\* What is the same before and after every step: the slot of a review
LEMMA SlotsFixed ==
    ASSUME call' = call
    PROVE  /\ \A i : CafeOf(i)' = CafeOf(i) /\ Author(i)' = Author(i)
           /\ \A i, j : SameSlot(i, j)' <=> SameSlot(i, j)
BY DEF CafeOf, Author, SameSlot

\* The user of a request is a user, so its slot is not a partnership review's.
LEMMA RequestSlot ==
    ASSUME TypeOK, NEW q \in Reqs
    PROVE  /\ q \in Ids
           /\ CafeOf(q) = call[q].cafe
           /\ Author(q) = call[q].user
           /\ Author(q) # NoUser
BY CallsAreTyped, ReqIsId, DistinctAssumption DEF CafeOf, Author

LEMMA OwnLiveSlot ==
    ASSUME TypeOK, NEW q \in Reqs, NEW i \in Ids
    PROVE  OwnLive(q, i) <=> Live(i) /\ SameSlot(i, q)
BY RequestSlot DEF OwnLive, SameSlot

LEMMA SlotInit == Init => SlotInv
<1> SUFFICES ASSUME Init PROVE SlotInv  OBVIOUS
<1>1. Fresh  BY DistinctAssumption, ReqIsId DEF Init, Fresh, Before
<1>2. Owned /\ HeldRow /\ OnlyHeld /\ Exclusive
  BY DEF Init, Owned, HeldRow, OnlyHeld, Exclusive, Wrote, Owning
<1>3. OneLiveReview
  BY DEF Init, OneLiveReview, Live, LiveStatuses, Author, Ids
<1> QED  BY <1>1, <1>2, <1>3 DEF SlotInv

\* Steps that insert no review, take hold of none and revive none: most of them
LEMMA SlotsKept ==
    ASSUME TypeInv, SlotInv, call' = call,
           \A p \in Reqs : pc'[p] \in Before => pc[p] \in Before,
           \A p \in Reqs : pc'[p] \in Owning => /\ pc[p] \in Owning
                                                /\ row'[p] = row[p],
           \A p \in Reqs : Wrote(p)' => Wrote(p),
           \A i \in Ids : Live(i)' => Live(i),
           \A i \in Ids : review[i].status = "absent" => review'[i].status = "absent",
           \A p \in Reqs : Wrote(p)' /\ Live(row[p]) => review'[row[p]].status \in LiveStatuses
    PROVE  SlotInv'
<1> USE SlotsFixed DEF SlotInv
<1>1. Fresh'  BY ReqIsId DEF Fresh
<1>2. Owned'  BY DEF Owned, SameSlot
<1>3. \A p \in Reqs : Wrote(p)' => row'[p] = row[p]  BY DEF Wrote, Owning
<1>4. HeldRow'  BY <1>3, ReqIsId DEF HeldRow, Live
<1>5. OnlyHeld'  BY <1>3 DEF OnlyHeld
<1>6. Exclusive'  BY DEF Exclusive
<1>7. OneLiveReview'  BY DEF OneLiveReview
<1> QED  BY <1>1, <1>2, <1>4, <1>5, <1>6, <1>7

\* A request answers, or goes on to a statement that writes nothing.
LEMMA SlotsQuiet ==
    ASSUME TypeInv, SlotInv, NEW q \in Reqs,
           NEW l, pc' = [pc EXCEPT ![q] = l],
           l \notin Owning, l \in Before => pc[q] \in Before,
           \A p \in Reqs \ {q} : row'[p] = row[p],
           UNCHANGED <<review, call>>
    PROVE  SlotInv'
<1>1. pc \in [Reqs -> Locations]  BY DEF TypeInv, TypeOK
<1>2. /\ pc'[q] = l
      /\ \A p \in Reqs \ {q} : pc'[p] = pc[p]
  BY <1>1
<1>3. \A p \in Reqs : Wrote(p)' => Wrote(p)  BY <1>2 DEF Wrote, Owning
<1> QED  BY <1>2, <1>3, SlotsKept DEF Live

LEMMA SlotsAbort ==
    ASSUME TypeInv, SlotInv, NEW q \in Reqs, NEW error, NEW code,
           Abort(q, error, code), call' = call
    PROVE  SlotInv'
<1>1. row \in [Reqs -> Ids \cup {NoId}]  BY DEF TypeInv, TypeOK
<1>2. /\ pc' = [pc EXCEPT ![q] = "done"]
      /\ review' = review
      /\ row' = [row EXCEPT ![q] = NoId]
  BY DEF Abort, Reply, Goto, EndTxn, tables
<1>3. \A p \in Reqs \ {q} : row'[p] = row[p]  BY <1>1, <1>2
<1>4. "done" \notin Owning /\ "done" \notin Before  BY DEF Owning, Before
<1> QED  BY <1>2, <1>3, <1>4, SlotsQuiet

\* A live review that nobody holds gets another status; nobody takes hold of
\* anything.
LEMMA SlotsStatus ==
    ASSUME TypeInv, SlotInv, NEW i \in Ids, Live(i),
           NEW s \in {"approved", "rejected", "deleted"},
           review' = [review EXCEPT ![i].status = s],
           call' = call,
           \A p \in Reqs : (pc'[p] = pc[p] /\ row'[p] = row[p]) \/ pc'[p] = "done",
           \A p \in Reqs : Wrote(p)' => row[p] # i
    PROVE  SlotInv'
<1>1. \A j \in Ids : j # i => review'[j] = review[j]  BY DEF TypeInv, TypeOK
<1>2. \A j \in Ids : Live(j)' => Live(j)  BY <1>1 DEF Live
<1>3. \A j \in Ids : review[j].status = "absent" => review'[j].status = "absent"
  BY <1>1 DEF Live, LiveStatuses
<1>4. \A p \in Reqs : pc'[p] \in Before => pc[p] \in Before  BY DEF Before
<1>5. \A p \in Reqs : pc'[p] \in Owning => pc[p] \in Owning /\ row'[p] = row[p]
  BY DEF Owning
<1>6. \A p \in Reqs : Wrote(p)' => Wrote(p)  BY DEF Wrote
<1>7. \A p \in Reqs : Wrote(p)' /\ Live(row[p]) => review'[row[p]].status \in LiveStatuses
  <2> SUFFICES ASSUME NEW p \in Reqs, Wrote(p)', Live(row[p])
               PROVE  review'[row[p]].status \in LiveStatuses
    OBVIOUS
  <2>1. row[p] \in Ids  BY <1>6 DEF TypeInv, InFlight, Wrote
  <2>2. row[p] # i  OBVIOUS
  <2> QED  BY <1>1, <2>1, <2>2 DEF Live
<1> QED  BY <1>2, <1>3, <1>4, <1>5, <1>6, <1>7, SlotsKept

\* The INSERT of Create: it ran when nobody had the key in flight and no live
\* review had it, so the new review is alone.
LEMMA SlotsInsert ==
    ASSUME TypeInv, SlotInv, NEW q \in Reqs, CreateInsert(q)
    PROVE  SlotInv'
<1> USE DEF world, tables
<1>1. CASE Abort(q, "exists", "409")
  BY <1>1, SlotsAbort DEF CreateInsert
<1>2. CASE /\ ~ \E i \in Ids : OwnLive(q, i)
           /\ row' = [row EXCEPT ![q] = q]
           /\ Goto(q, "clear")
           /\ UNCHANGED <<tables, draft, todo, ret, page, resp>>
  <2>1. /\ review' = review /\ call' = call
        /\ pc'[q] = "clear" /\ row'[q] = q
        /\ \A p \in Reqs \ {q} : pc'[p] = pc[p] /\ row'[p] = row[p]
        /\ pc[q] = "insert"
    BY <1>2 DEF CreateInsert, Goto, TypeInv, TypeOK
  <2>2. TypeOK  BY DEF TypeInv
  <2>3. \A i \in Ids : ~(Live(i) /\ SameSlot(i, q))
    BY <1>2, <2>2, OwnLiveSlot
  <2>4. \A p \in Reqs \ {q} : ~(Wrote(p) /\ SameSlot(p, q))
    BY HoldsWhileWriting DEF CreateInsert, KeyInFlight
  <2>5. review[q].status = "absent"  BY <2>1 DEF SlotInv, Fresh, Before
  <2>6. \A p \in Reqs \ {q} : Wrote(p)' <=> Wrote(p)  BY <2>1 DEF Wrote
  <2>7. Fresh'  BY <2>1 DEF SlotInv, Fresh, Before
  <2>8. Owned'  BY <2>1, SlotsFixed DEF SlotInv, Owned, SameSlot
  <2>9. HeldRow'  BY <2>1, <2>5, <2>6 DEF SlotInv, HeldRow, Live
  <2>10. OnlyHeld'
    BY <2>1, <2>3, <2>6, SlotsFixed DEF SlotInv, OnlyHeld, Live
  <2>11. Exclusive'
    BY <2>1, <2>4, <2>6, SlotsFixed DEF SlotInv, Exclusive, SameSlot
  <2>12. OneLiveReview'
    BY <2>1, SlotsFixed DEF SlotInv, OneLiveReview, Live
  <2> QED  BY <2>7, <2>8, <2>9, <2>10, <2>11, <2>12 DEF SlotInv
<1> QED  BY <1>1, <1>2 DEF CreateInsert

\* The snapshot of UPDATE: the review found is the user's, at the cafe.
LEMMA SlotsFind ==
    ASSUME TypeInv, SlotInv, NEW q \in Reqs, FindOwn(q)
    PROVE  SlotInv'
<1> USE DEF world, tables
<1>1. CASE Abort(q, "notfound", "404")
  BY <1>1, SlotsAbort DEF FindOwn
<1>2. ASSUME NEW i \in Ids, OwnLive(q, i), row' = [row EXCEPT ![q] = i],
             Goto(q, "lock"), UNCHANGED <<tables, draft, todo, ret, page, resp>>
      PROVE  SlotInv'
  <2>1. /\ review' = review /\ call' = call
        /\ pc'[q] = "lock" /\ row'[q] = i
        /\ \A p \in Reqs \ {q} : pc'[p] = pc[p] /\ row'[p] = row[p]
    BY <1>2 DEF FindOwn, Goto, TypeInv, TypeOK
  <2>2. SameSlot(i, q)  BY <1>2, OwnLiveSlot DEF TypeInv
  <2>3. \A p \in Reqs : Wrote(p)' => p # q /\ Wrote(p)  BY <2>1 DEF Wrote
  <2>4. Fresh'  BY <2>1 DEF SlotInv, Fresh, Before
  <2>5. Owned'  BY <2>1, <2>2, SlotsFixed DEF SlotInv, Owned, SameSlot
  <2>6. HeldRow'  BY <2>1, <2>3 DEF SlotInv, HeldRow, Live
  <2>7. OnlyHeld'  BY <2>1, <2>3, SlotsFixed DEF SlotInv, OnlyHeld, Live
  <2>8. Exclusive'  BY <2>1, <2>3, SlotsFixed DEF SlotInv, Exclusive
  <2>9. OneLiveReview'  BY <2>1, SlotsFixed DEF SlotInv, OneLiveReview, Live
  <2> QED  BY <2>4, <2>5, <2>6, <2>7, <2>8, <2>9 DEF SlotInv
<1> QED  BY <1>1, <1>2 DEF FindOwn

\* The write of UPDATE: it ran when nobody held the review, which is live and
\* so the only one with its key.
LEMMA SlotsUpdate ==
    ASSUME TypeInv, SlotInv, NEW q \in Reqs, UpdateRow(q)
    PROVE  SlotInv'
<1> USE DEF world, tables
<1>1. /\ review' = review /\ call' = call /\ row' = row
      /\ pc[q] = "lock" /\ pc'[q] = "clear"
      /\ \A p \in Reqs \ {q} : pc'[p] = pc[p]
  BY DEF UpdateRow, Goto, TypeInv, TypeOK
<1>2. row[q] \in Ids /\ Live(row[q])
  BY <1>1 DEF UpdateRow, Rechecked, TypeInv, InFlight
<1>3. SameSlot(row[q], q)  BY <1>1 DEF SlotInv, Owned, Owning
<1>4. Author(q) # NoUser  BY RequestSlot DEF TypeInv
<1>5. \A i \in Ids : Live(i) /\ SameSlot(i, q) => i = row[q]
  BY <1>2, <1>3, <1>4 DEF SlotInv, OneLiveReview, SameSlot
<1>6. \A p \in Reqs \ {q} : Wrote(p) /\ SameSlot(p, q) => FALSE
  <2> SUFFICES ASSUME NEW p \in Reqs \ {q}, Wrote(p), SameSlot(p, q)
               PROVE  FALSE
    OBVIOUS
  <2>1. SameSlot(row[q], p)  BY <1>3 DEF SameSlot
  <2>2. row[q] = row[p]  BY <1>2, <2>1 DEF SlotInv, OnlyHeld
  <2> QED  BY <2>2, HoldsWhileWriting DEF UpdateRow, RowInFlight
<1>7. \A p \in Reqs \ {q} : Wrote(p)' <=> Wrote(p)  BY <1>1 DEF Wrote
<1>8. Fresh'  BY <1>1 DEF SlotInv, Fresh, Before
<1>9. Owned'  BY <1>1, <1>3, SlotsFixed DEF SlotInv, Owned, SameSlot, Owning
<1>10. HeldRow'  BY <1>1, <1>2, <1>7 DEF SlotInv, HeldRow, Live
<1>11. OnlyHeld'  BY <1>1, <1>5, <1>7, SlotsFixed DEF SlotInv, OnlyHeld, Live
<1>12. Exclusive'
  BY <1>1, <1>6, <1>7, SlotsFixed DEF SlotInv, Exclusive, SameSlot
<1>13. OneLiveReview'  BY <1>1, SlotsFixed DEF SlotInv, OneLiveReview, Live
<1> QED  BY <1>8, <1>9, <1>10, <1>11, <1>12, <1>13 DEF SlotInv

\* COMMIT makes the review that the transaction held alone a live one.
LEMMA SlotsCommit ==
    ASSUME TypeInv, SlotInv, NEW q \in Reqs, Wrote(q), Apply(q),
           NEW l, l \notin Owning, l \notin Before,
           pc' = [pc EXCEPT ![q] = l],
           \A p \in Reqs \ {q} : row'[p] = row[p],
           call' = call
    PROVE  SlotInv'
<1>0. pc \in [Reqs -> Locations] /\ review \in [Ids -> Row]
  BY DEF TypeInv, TypeOK
<1>1. row[q] \in Ids  BY DEF TypeInv, InFlight, Wrote
<1>2. /\ review'[row[q]] = [status |-> "pending", body |-> q]
      /\ \A i \in Ids : i # row[q] => review'[i] = review[i]
  BY <1>0, <1>1 DEF Apply
<1>3. /\ \A p \in Reqs \ {q} : pc'[p] = pc[p] /\ row'[p] = row[p]
      /\ pc'[q] \notin Owning /\ pc'[q] \notin Before
  BY <1>0
<1>5. \A i \in Ids : i # row[q] => (Live(i)' <=> Live(i))  BY <1>2 DEF Live
<1>6. SameSlot(row[q], q)  BY DEF SlotInv, Owned, Wrote, Owning
<1>7. \A p \in Reqs : Wrote(p)' => p # q /\ Wrote(p)  BY <1>3 DEF Wrote, Owning
<1>8. \A p \in Reqs \ {q} : Wrote(p) => ~SameSlot(p, q)
  BY DEF SlotInv, Exclusive
<1>9. \A p \in Reqs \ {q} : pc[p] \in Before => p # row[q]
  BY ReqIsId DEF SlotInv, Fresh, HeldRow, Live, LiveStatuses
<1>10. Fresh'  BY <1>2, <1>3, <1>9, ReqIsId DEF SlotInv, Fresh
<1>11. Owned'  BY <1>3, SlotsFixed DEF SlotInv, Owned, SameSlot
<1>12. HeldRow'
  <2> SUFFICES ASSUME NEW p \in Reqs, Wrote(p)'
               PROVE  (row[p] = p /\ review[p].status = "absent" /\ p # row[q])
                      \/ Live(row[p])'
    BY <1>2, <1>3, <1>7, ReqIsId DEF HeldRow, Live
  <2>1. p # q /\ Wrote(p)  BY <1>7
  <2>2. SameSlot(row[p], p)  BY <2>1 DEF SlotInv, Owned, Wrote, Owning
  <2>3. row[p] # row[q]  BY <1>6, <1>8, <2>1, <2>2 DEF SameSlot
  <2>4. row[p] \in Ids  BY <2>1 DEF TypeInv, InFlight, Wrote
  <2>5. CASE row[p] = p /\ review[p].status = "absent"  BY <2>3, <2>5
  <2>6. CASE Live(row[p])
    <3>1. row'[p] = row[p]  BY <1>3, <2>1
    <3> QED  BY <1>2, <2>3, <2>4, <2>6, <3>1 DEF Live
  <2> QED  BY <2>1, <2>5, <2>6 DEF SlotInv, HeldRow
<1>13. OnlyHeld'
  <2> SUFFICES ASSUME NEW p \in Reqs, NEW i \in Ids,
                      Wrote(p)', Live(i)', SameSlot(i, p)'
               PROVE  i = row'[p]
    BY DEF OnlyHeld
  <2>1. p # q /\ Wrote(p) /\ row'[p] = row[p] /\ SameSlot(i, p)
    BY <1>3, <1>7, SlotsFixed
  <2>2. i # row[q]  BY <1>6, <1>8, <2>1 DEF SameSlot
  <2>3. Live(i)  BY <1>5, <2>2
  <2> QED  BY <2>1, <2>3 DEF SlotInv, OnlyHeld
<1>14. Exclusive'  BY <1>7, SlotsFixed DEF SlotInv, Exclusive
<1>15. OneLiveReview'
  <2> SUFFICES ASSUME NEW i \in Ids, NEW j \in Ids, Live(i)', Live(j)',
                      SameSlot(i, j), Author(i) # NoUser, i # j
               PROVE  FALSE
    BY SlotsFixed DEF OneLiveReview
  <2>1. CASE i = row[q]
    BY <1>5, <1>6, <2>1 DEF SlotInv, OnlyHeld, SameSlot
  <2>2. CASE j = row[q]
    BY <1>5, <1>6, <2>2 DEF SlotInv, OnlyHeld, SameSlot
  <2>3. CASE i # row[q] /\ j # row[q]
    BY <1>5, <2>3 DEF SlotInv, OneLiveReview
  <2> QED  BY <2>1, <2>2, <2>3
<1> QED  BY <1>10, <1>11, <1>12, <1>13, <1>14, <1>15 DEF SlotInv

\* Every step of a request keeps the slots in order.
LEMMA SlotsStep ==
    ASSUME TypeInv, SlotInv, NEW q \in Reqs, Step(q)
    PROVE  SlotInv'
<1> USE DEF world, tables, txn
<1>0. /\ pc \in [Reqs -> Locations] /\ row \in [Reqs -> Ids \cup {NoId}]
      /\ call[q] \in CallType
  BY CallsAreTyped DEF TypeInv, TypeOK
<1>d. /\ "done" \notin Owning /\ "done" \notin Before
      /\ "reread" \notin Owning /\ "reread" \notin Before
      /\ "ratings" \notin Owning /\ "ratings" \notin Before
      /\ \A l \in Before : l \notin Owning
      /\ {"auth", "cafe", "select", "insert"} \subseteq Before
  BY DEF Owning, Before
<1>1. CASE Authenticate(q) \/ CafeIDByLocationID(q)
  <2>1. PICK l : /\ pc' = [pc EXCEPT ![q] = l]
                 /\ l \in {"cafe", "done", "select", "find", "reread", "visible"}
    BY <1>0, <1>1 DEF Authenticate, CafeIDByLocationID, Reply, Goto, FirstStatement,
                      CallType, Writes
  <2>2. pc[q] \in Before
    BY <1>1, <1>d DEF Authenticate, CafeIDByLocationID
  <2>3. UNCHANGED <<review, row, call>>
    BY <1>1 DEF Authenticate, CafeIDByLocationID
  <2>4. l \notin Owning  BY <2>1 DEF Owning
  <2> QED  BY <2>1, <2>2, <2>3, <2>4, SlotsQuiet
<1>2. CASE CreateSelect(q)
  <2>1. CASE Abort(q, "exists", "409")
    BY <1>2, <2>1, SlotsAbort DEF CreateSelect
  <2>2. CASE Goto(q, "insert") /\ UNCHANGED <<tables, txn, ret, page, resp>>
    <3>1. pc[q] \in Before  BY <1>2, <1>d DEF CreateSelect
    <3>2. UNCHANGED <<review, row, call>>  BY <1>2, <2>2 DEF CreateSelect
    <3> QED  BY <1>d, <2>2, <3>1, <3>2, SlotsQuiet DEF Goto
  <2> QED  BY <1>2, <2>1, <2>2 DEF CreateSelect
<1>3. CASE CreateInsert(q)  BY <1>3, SlotsInsert
<1>4. CASE FindOwn(q)  BY <1>4, SlotsFind
<1>5. CASE LostRow(q)  BY <1>5, SlotsAbort DEF LostRow
<1>6. CASE UpdateRow(q)  BY <1>6, SlotsUpdate
<1>7. CASE SoftDelete(q)
  <2>1. row[q] \in Ids  BY <1>7 DEF SoftDelete, TypeInv, InFlight
  <2>2. /\ \A p \in Reqs \ {q} : pc'[p] = pc[p] /\ row'[p] = row[p]
        /\ pc'[q] = "done"
    BY <1>0, <1>7 DEF SoftDelete, Reply, Goto, EndTxn
  <2>3. \A p \in Reqs : Wrote(p)' => row[p] # row[q]
    BY <1>7, <2>2, HoldsWhileWriting DEF SoftDelete, RowInFlight, Wrote
  <2>4. /\ Live(row[q]) /\ call' = call
        /\ review' = [review EXCEPT ![row[q]].status = "deleted"]
    BY <1>7 DEF SoftDelete, Rechecked
  <2> QED  BY <2>1, <2>2, <2>3, <2>4, SlotsStatus
<1>8. CASE ClearRatings(q) \/ InsertRating(q)
  <2>1. PICK l : l \in {"rate", "commit"} /\ pc' = [pc EXCEPT ![q] = l]
    BY <1>8 DEF ClearRatings, InsertRating, Goto
  <2>2. UNCHANGED <<review, row, call>>  BY <1>8 DEF ClearRatings, InsertRating
  <2>3. Wrote(q)  BY <1>8 DEF ClearRatings, InsertRating, Wrote
  <2>4. \A p \in Reqs : pc'[p] = pc[p] \/ (p = q /\ pc'[q] = l)  BY <1>0, <2>1
  <2>5. l \notin Before  BY <2>1 DEF Before
  <2>6. pc[q] \in Owning  BY <2>3 DEF Wrote, Owning
  <2>7. \A p \in Reqs : Wrote(p)' => Wrote(p)  BY <2>3, <2>4 DEF Wrote
  <2> QED  BY <2>2, <2>4, <2>5, <2>6, <2>7, SlotsKept DEF Live
<1>9. CASE RatingRefused(q) \/ DeadlockVictim(q)
  BY <1>9, SlotsAbort DEF RatingRefused, DeadlockVictim
<1>10. CASE Commit(q)
  <2>1. \A p \in Reqs \ {q} : row'[p] = row[p]  BY <1>0, <1>10 DEF Commit, EndTxn
  <2>2. Wrote(q)  BY <1>10 DEF Commit, Wrote
  <2> QED  BY <1>10, <1>d, <2>1, <2>2, SlotsCommit DEF Commit, Goto
<1>11. CASE Mine(q) \/ VisibleReviews(q) \/ RatingsByReviewIDs(q)
  <2>1. PICK l : l \in {"ratings", "done"} /\ pc' = [pc EXCEPT ![q] = l]
    BY <1>11 DEF Mine, VisibleReviews, RatingsByReviewIDs, Reply, Goto
  <2>2. UNCHANGED <<review, row, call>>
    BY <1>11 DEF Mine, VisibleReviews, RatingsByReviewIDs
  <2> QED  BY <1>d, <2>1, <2>2, SlotsQuiet
<1> QED  BY <1>1, <1>2, <1>3, <1>4, <1>5, <1>6, <1>7, <1>8, <1>9, <1>10, <1>11 DEF Step

\* So do failures: a transaction is rolled back, or committed without an answer.
LEMMA SlotsFault ==
    ASSUME TypeInv, SlotInv, NEW q \in Reqs, Fault(q)
    PROVE  SlotInv'
<1> USE DEF world, tables
<1>0. pc \in [Reqs -> Locations] /\ row \in [Reqs -> Ids \cup {NoId}]
  BY DEF TypeInv, TypeOK
<1>d. "done" \notin Owning /\ "done" \notin Before  BY DEF Owning, Before
<1>1. /\ pc' = [pc EXCEPT ![q] = "done"]
      /\ call' = call
      /\ row' = [row EXCEPT ![q] = NoId]
  BY DEF Fault, Fail, CommitUnknown, Reply, Goto, EndTxn
<1>2. /\ \A p \in Reqs \ {q} : pc'[p] = pc[p] /\ row'[p] = row[p]
      /\ pc'[q] = "done"
  BY <1>0, <1>1
<1>3. CASE Fail(q)
  <2>1. review' = review  BY <1>3 DEF Fail
  <2> QED  BY <1>1, <1>2, <1>d, <2>1, SlotsQuiet
<1>4. CASE pc[q] = "commit" /\ Apply(q)
  <2>1. Wrote(q)  BY <1>4 DEF Wrote
  <2> QED  BY <1>1, <1>2, <1>4, <1>d, <2>1, SlotsCommit
<1>5. CASE /\ pc[q] = "lock"
           /\ ~RowInFlight(q)
           /\ Rechecked(q)
           /\ review' = [review EXCEPT ![row[q]].status = "deleted"]
  <2>1. row[q] \in Ids /\ Live(row[q])  BY <1>5 DEF TypeInv, InFlight, Rechecked
  <2>2. \A p \in Reqs : Wrote(p)' => row[p] # row[q]
    BY <1>2, <1>5, HoldsWhileWriting DEF RowInFlight, Wrote
  <2> QED  BY <1>1, <1>2, <1>5, <2>1, <2>2, SlotsStatus
<1> QED  BY <1>3, <1>4, <1>5 DEF Fault, CommitUnknown

LEMMA SlotsExternal ==
    ASSUME TypeInv, SlotInv, External
    PROVE  SlotInv'
<1> USE DEF requests, txn, tables, world
<1>1. ASSUME NEW i \in Ids, NEW s \in {"approved", "rejected", "deleted"}, Moderate(i, s)
      PROVE  SlotInv'
  <2>1. /\ Live(i) /\ review' = [review EXCEPT ![i].status = s]
        /\ call' = call /\ pc' = pc /\ row' = row
    BY <1>1 DEF Moderate
  <2>2. \A p \in Reqs : Wrote(p)' => row[p] # i  BY <1>1, <2>1, HoldsWhileWriting DEF Moderate, Wrote
  <2> QED  BY <2>1, <2>2, SlotsStatus
<1>2. CASE UNCHANGED <<review, pc, row, call>>
  BY <1>2, SlotsKept DEF Live, Wrote
<1> QED  BY <1>1, <1>2 DEF External, SetActive, SetOpen

LEMMA SlotsNext == TypeInv /\ SlotInv /\ [Next]_vars => SlotInv'
<1> SUFFICES ASSUME TypeInv, SlotInv, [Next]_vars PROVE SlotInv'  OBVIOUS
<1>1. CASE UNCHANGED vars
  BY <1>1, SlotsKept DEF vars, Live, Wrote
<1> QED  BY <1>1, SlotsStep, SlotsFault, SlotsExternal DEF Next

LEMMA SlotsAlways == Spec => []SlotInv
<1>1. TypeInv /\ SlotInv /\ [Next]_vars => SlotInv'  BY SlotsNext
<1> QED  BY <1>1, SlotInit, TypeAlways, PTL DEF Spec

\* A user never has two live reviews of one cafe.
THEOREM OneLiveReviewAlways == Spec => []OneLiveReview
<1>1. SlotInv => OneLiveReview  BY DEF SlotInv
<1> QED  BY <1>1, SlotsAlways, PTL

----------------------------------------------------------------------------
(* A deleted review stays as it was *)

\* A transaction that ends writes a review that is not a deleted one.
LEMMA CommitSparesDeleted ==
    ASSUME TypeInv, SlotInv, NEW q \in Reqs, Wrote(q), Apply(q),
           NEW i \in Ids, review[i].status = "deleted"
    PROVE  review'[i] = review[i] /\ rating'[i] = rating[i]
<1>1. row[q] # i  BY DEF SlotInv, HeldRow, Live, LiveStatuses
<1> QED  BY <1>1 DEF Apply, TypeInv, TypeOK

\* Nor does a change of status touch one.
LEMMA StatusSparesDeleted ==
    ASSUME TypeInv, NEW j \in Ids, Live(j), NEW s,
           review' = [review EXCEPT ![j].status = s], rating' = rating,
           NEW i \in Ids, review[i].status = "deleted"
    PROVE  review'[i] = review[i] /\ rating'[i] = rating[i]
<1>1. j # i  BY DEF Live, LiveStatuses
<1> QED  BY <1>1 DEF TypeInv, TypeOK

LEMMA DeletedStep ==
    ASSUME TypeInv, SlotInv, [Next]_vars,
           NEW i \in Ids, review[i].status = "deleted"
    PROVE  review'[i] = review[i] /\ rating'[i] = rating[i]
<1> USE DEF tables, world
<1>1. CASE UNCHANGED tables  BY <1>1
<1>2. ASSUME NEW q \in Reqs, Commit(q)
      PROVE  review'[i] = review[i] /\ rating'[i] = rating[i]
  BY <1>2, CommitSparesDeleted DEF Commit, Wrote
<1>3. ASSUME NEW q \in Reqs, SoftDelete(q)
      PROVE  review'[i] = review[i] /\ rating'[i] = rating[i]
  <2>1. row[q] \in Ids /\ Live(row[q])
    BY <1>3 DEF SoftDelete, Rechecked, TypeInv, InFlight
  <2> QED  BY <1>3, <2>1, StatusSparesDeleted DEF SoftDelete
<1>4. ASSUME NEW q \in Reqs, CommitUnknown(q)
      PROVE  review'[i] = review[i] /\ rating'[i] = rating[i]
  <2>1. CASE pc[q] = "commit" /\ Apply(q)
    BY <2>1, CommitSparesDeleted DEF Wrote
  <2>2. CASE /\ pc[q] = "lock" /\ Rechecked(q)
             /\ review' = [review EXCEPT ![row[q]].status = "deleted"]
             /\ UNCHANGED rating
    <3>1. row[q] \in Ids /\ Live(row[q])
      BY <2>2 DEF Rechecked, TypeInv, InFlight
    <3> QED  BY <2>2, <3>1, StatusSparesDeleted
  <2> QED  BY <1>4, <2>1, <2>2 DEF CommitUnknown
<1>5. ASSUME NEW j \in Ids, NEW s, Moderate(j, s)
      PROVE  review'[i] = review[i] /\ rating'[i] = rating[i]
  BY <1>5, StatusSparesDeleted DEF Moderate
<1>6. ASSUME NEW q \in Reqs, Step(q)
      PROVE  UNCHANGED tables \/ Commit(q) \/ SoftDelete(q)
  BY <1>6 DEF Step, Authenticate, CafeIDByLocationID, CreateSelect, CreateInsert,
     FindOwn, LostRow, UpdateRow, ClearRatings, InsertRating, RatingRefused,
     DeadlockVictim, Mine, VisibleReviews, RatingsByReviewIDs, Abort
<1>7. ASSUME NEW q \in Reqs, Fault(q)
      PROVE  UNCHANGED tables \/ CommitUnknown(q)
  BY <1>7 DEF Fault, Fail
<1>8. CASE External
  BY <1>1, <1>5, <1>8 DEF External, SetActive, SetOpen
<1>9. CASE UNCHANGED vars  BY <1>1, <1>9 DEF vars
<1> QED  BY <1>1, <1>2, <1>3, <1>4, <1>6, <1>7, <1>8, <1>9 DEF Next

\* No step changes a deleted review or its ratings.
THEOREM DeletedIsFinalAlways == Spec => DeletedIsFinal
<1>1. TypeInv /\ SlotInv /\ [Next]_vars
      => [\A i \in Ids : review[i].status = "deleted"
                            => review'[i] = review[i] /\ rating'[i] = rating[i]]_vars
  BY DeletedStep
<1> QED  BY <1>1, TypeAlways, SlotsAlways, PTL DEF Spec, DeletedIsFinal

----------------------------------------------------------------------------
(* The ratings of a review are those of its text *)

Distinct(s) == \A j, k \in 1..Len(s) : j # k => s[j] # s[k]
Elements(s) == {s[k] : k \in 1..Len(s)}

\* The scores a transaction has inserted are its request's, of the types that
\* are not still to come.
DraftOK(q) ==
    /\ pc[q] = "rate" =>
          /\ Distinct(todo[q])
          /\ Elements(todo[q]) \subseteq call[q].types
          /\ draft[q] = [type: call[q].types \ Elements(todo[q]), by: {q}]
    /\ pc[q] = "commit" => draft[q] = [type: call[q].types, by: {q}]

DraftInv == \A q \in Reqs : DraftOK(q)

\* The orders of a request's types name every one of them once.
LEMMA OrdersAreComplete ==
    ASSUME NEW S \in SUBSET Types, NEW s \in SetToSeqs(S)
    PROVE  Distinct(s) /\ Elements(s) = S
<1>1. IsFiniteSet(S)  BY TypesAssumption, FS_Subset
<1> DEFINE n == Cardinality(S)
<1>2. n \in Nat  BY <1>1, FS_CardinalityType
<1>3. s \in [1..n -> S] /\ \A i, j \in 1..n : i # j => s[i] # s[j]  BY DEF SetToSeqs
<1>4. Len(s) = n  BY <1>2, <1>3
<1>5. s \in Injection(1..n, S)  BY <1>3 DEF Injection, IsInjective
<1>6. IsFiniteSet(1..n) /\ Cardinality(1..n) = n  BY <1>2, FS_Interval
<1>7. s \in Surjection(1..n, S)  BY <1>1, <1>5, <1>6, FS_Injection
<1>8. Elements(s) = S  BY <1>3, <1>4, <1>7 DEF Elements, Surjection
<1> QED  BY <1>3, <1>4, <1>8 DEF Distinct

\* Taking the next type off the queue
LEMMA NextOff ==
    ASSUME NEW s \in Seq(Types), s # <<>>, Distinct(s)
    PROVE  /\ Head(s) \in Elements(s)
           /\ Distinct(Tail(s))
           /\ Elements(Tail(s)) = Elements(s) \ {Head(s)}
           /\ Len(s) = 1 => Elements(s) = {Head(s)}
<1>1. Len(s) \in Nat \ {0}  BY EmptySeq
<1>2. Head(s) = s[1]  BY <1>1
<1>3. /\ Len(Tail(s)) = Len(s) - 1
      /\ \A i \in 1..Len(Tail(s)) : Tail(s)[i] = s[i+1]
  BY HeadTailProperties
<1>4. Head(s) \in Elements(s)  BY <1>1, <1>2 DEF Elements
<1>5. Distinct(Tail(s))  BY <1>1, <1>3 DEF Distinct
<1>6. ASSUME NEW x \in Elements(Tail(s)) PROVE x \in Elements(s) \ {Head(s)}
  <2>1. PICK k \in 1..Len(Tail(s)) : x = s[k+1]  BY <1>3, <1>6 DEF Elements
  <2>2. k+1 \in 1..Len(s) /\ k+1 # 1  BY <1>1, <1>3, <2>1
  <2> QED  BY <1>1, <1>2, <2>1, <2>2 DEF Elements, Distinct
<1>7. ASSUME NEW x \in Elements(s) \ {Head(s)} PROVE x \in Elements(Tail(s))
  <2>1. PICK k \in 1..Len(s) : x = s[k]  BY DEF Elements
  <2>2. k # 1  BY <1>2, <1>7, <2>1
  <2>3. k-1 \in 1..Len(Tail(s)) /\ Tail(s)[k-1] = s[k]  BY <1>1, <1>3, <2>1, <2>2
  <2> QED  BY <2>1, <2>3 DEF Elements
<1>8. Len(s) = 1 => Elements(s) = {Head(s)}  BY <1>2 DEF Elements
<1> QED  BY <1>4, <1>5, <1>6, <1>7, <1>8

\* The scores that q gives the types in S
Scored(S, q) == [type: S, by: {q}]
WithScore(scores, t, q) == scores \cup {[type |-> t, by |-> q]}

LEMMA OneMoreScore ==
    ASSUME NEW S, NEW t, NEW q
    PROVE  WithScore(Scored(S, q), t, q) = Scored(S \cup {t}, q)
<1> SUFFICES [type: S, by: {q}] \cup {[type |-> t, by |-> q]} = [type: S \cup {t}, by: {q}]
  BY DEF Scored, WithScore
<1>1. ASSUME NEW x \in [type: S \cup {t}, by: {q}]
      PROVE  x \in [type: S, by: {q}] \cup {[type |-> t, by |-> q]}
  <2>1. PICK a \in S \cup {t} : x = [type |-> a, by |-> q]  OBVIOUS
  <2>2. CASE a \in S  BY <2>1, <2>2
  <2>3. CASE a = t  BY <2>1, <2>3
  <2> QED  BY <2>1, <2>2, <2>3
<1>2. ASSUME NEW x \in [type: S, by: {q}] \cup {[type |-> t, by |-> q]}
      PROVE  x \in [type: S \cup {t}, by: {q}]
  OBVIOUS
<1> QED  BY <1>1, <1>2

\* Requests that are not inserting or committing need nothing.
LEMMA DraftKept ==
    ASSUME TypeInv, DraftInv, call' = call,
           \A p \in Reqs : pc'[p] \in {"rate", "commit"} =>
               pc'[p] = pc[p] /\ todo'[p] = todo[p] /\ draft'[p] = draft[p]
    PROVE  DraftInv'
BY DEF DraftInv, DraftOK

\* What stands in the tables matches when a transaction commits its draft.
LEMMA MatchCommit ==
    ASSUME TypeInv, DraftInv, RatingsMatchText, NEW q \in Reqs,
           pc[q] = "commit", Apply(q), call' = call
    PROVE  RatingsMatchText'
<1>1. row[q] \in Ids  BY DEF TypeInv, InFlight
<1>2. /\ review'[row[q]] = [status |-> "pending", body |-> q]
      /\ rating'[row[q]] = [type: call[q].types, by: {q}]
      /\ \A i \in Ids : i # row[q] => review'[i] = review[i] /\ rating'[i] = rating[i]
  BY <1>1 DEF Apply, TypeInv, TypeOK, DraftInv, DraftOK
<1>3. RatedWith[q] = call[q].types /\ RatedWith' = RatedWith
  BY DistinctAssumption, ReqIsId DEF RatedWith
<1> SUFFICES ASSUME NEW i \in Ids, review'[i].status # "absent"
             PROVE  rating'[i] = [type: RatedWith[review'[i].body], by: {review'[i].body}]
  BY <1>3 DEF RatingsMatchText
<1>4. CASE i = row[q]
  <2>1. review'[i].body = q  BY <1>2, <1>4
  <2> QED  BY <1>2, <1>3, <1>4, <2>1
<1>5. CASE i # row[q]
  <2>1. review'[i] = review[i] /\ rating'[i] = rating[i]  BY <1>2, <1>5
  <2>2. rating[i] = [type: RatedWith[review[i].body], by: {review[i].body}]
    BY <2>1 DEF RatingsMatchText
  <2> QED  BY <2>1, <2>2
<1> QED  BY <1>4, <1>5

\* And when only a review's status changes.
LEMMA MatchStatus ==
    ASSUME TypeInv, RatingsMatchText, NEW j \in Ids, Live(j), NEW s,
           review' = [review EXCEPT ![j].status = s], rating' = rating, call' = call
    PROVE  RatingsMatchText'
<1>1. review[j].status # "absent"  BY DEF Live, LiveStatuses
<1>2. \A i \in Ids : review'[i].body = review[i].body
                     /\ (i # j => review'[i] = review[i])
  BY DEF TypeInv, TypeOK, Row
<1>3. RatedWith' = RatedWith  BY DEF RatedWith
<1> QED  BY <1>1, <1>2, <1>3 DEF RatingsMatchText

LEMMA MatchInit == Init => DraftInv /\ RatingsMatchText
<1> SUFFICES ASSUME Init PROVE DraftInv /\ RatingsMatchText  OBVIOUS
<1>1. DraftInv  BY DEF Init, DraftInv, DraftOK
<1>2. RatingsMatchText  BY DEF Init, RatingsMatchText, RatedWith
<1> QED  BY <1>1, <1>2

LEMMA MatchRatings ==
    ASSUME TypeInv, DraftInv, NEW q \in Reqs, ClearRatings(q) \/ InsertRating(q)
    PROVE  DraftInv'
<1> USE DEF tables, world
<1>0. /\ pc \in [Reqs -> Locations] /\ draft \in [Reqs -> SUBSET Score]
      /\ todo \in [Reqs -> Seq(Types)]
      /\ call[q].types \in SUBSET Types
      /\ call' = call
  BY CallsAreTyped DEF TypeInv, TypeOK, ClearRatings, InsertRating
<1>o. \A p \in Reqs \ {q} : /\ pc'[p] = pc[p] /\ todo'[p] = todo[p]
                            /\ draft'[p] = draft[p]
  BY <1>0 DEF ClearRatings, InsertRating, DeleteRatings, Goto
<1>p. \A p \in Reqs \ {q} : DraftOK(p)'  BY <1>0, <1>o DEF DraftInv, DraftOK
<1> SUFFICES DraftOK(q)'  BY <1>p DEF DraftInv
<1>1. CASE ClearRatings(q)
  <2>1. draft'[q] = {}  BY <1>0, <1>1 DEF ClearRatings, DeleteRatings
  <2>2. CASE call[q].types = {} /\ Goto(q, "commit")
    <3>1. draft'[q] = [type: call[q].types, by: {q}]  BY <2>1, <2>2
    <3>2. pc'[q] = "commit"  BY <1>0, <2>2 DEF Goto
    <3> QED  BY <1>0, <3>1, <3>2 DEF DraftOK
  <2>3. CASE Goto(q, "rate") /\ \E order \in SetToSeqs(call[q].types) :
                                  todo' = [todo EXCEPT ![q] = order]
    <3>1. PICK order \in SetToSeqs(call[q].types) : todo' = [todo EXCEPT ![q] = order]
      BY <2>3
    <3>2. todo'[q] = order /\ pc'[q] = "rate"  BY <1>0, <2>3, <3>1 DEF Goto
    <3>3. Distinct(order) /\ Elements(order) = call[q].types
      BY <1>0, OrdersAreComplete
    <3>4. draft'[q] = [type: call[q].types \ Elements(order), by: {q}]
      BY <2>1, <3>3
    <3> QED  BY <1>0, <3>2, <3>3, <3>4 DEF DraftOK
  <2> QED  BY <1>1, <2>2, <2>3 DEF ClearRatings
<1>2. CASE InsertRating(q)
  <2> DEFINE t == Head(todo[q])
             S == call[q].types
  <2>1. todo[q] \in Seq(Types) /\ todo[q] # <<>>
    BY <1>0, <1>2 DEF InsertRating, TypeInv, InFlight
  <2>2. /\ Distinct(todo[q]) /\ Elements(todo[q]) \subseteq S
        /\ draft[q] = [type: S \ Elements(todo[q]), by: {q}]
    BY <1>2 DEF DraftInv, DraftOK, InsertRating
  <2>3. /\ t \in Elements(todo[q])
        /\ Distinct(Tail(todo[q]))
        /\ Elements(Tail(todo[q])) = Elements(todo[q]) \ {t}
        /\ Len(todo[q]) = 1 => Elements(todo[q]) = {t}
    BY <2>1, <2>2, NextOff
  <2>4. draft'[q] = draft[q] \cup {[type |-> t, by |-> q]} /\ todo'[q] = Tail(todo[q])
    BY <1>0, <1>2 DEF InsertRating
  <2>5. (S \ Elements(todo[q])) \cup {t} = S \ Elements(Tail(todo[q]))
    BY <2>2, <2>3
  <2>6. draft'[q] = [type: S \ Elements(Tail(todo[q])), by: {q}]
    <3>1. draft[q] = Scored(S \ Elements(todo[q]), q)  BY <2>2 DEF Scored
    <3>2. WithScore(Scored(S \ Elements(todo[q]), q), t, q)
          = Scored((S \ Elements(todo[q])) \cup {t}, q)
      BY OneMoreScore
    <3>3. draft'[q] = WithScore(Scored(S \ Elements(todo[q]), q), t, q)
      BY <2>4, <3>1 DEF WithScore
    <3> QED  BY <2>5, <3>2, <3>3 DEF Scored
  <2> HIDE DEF t, S
  <2>7. CASE Len(todo[q]) = 1
    <3>1. pc'[q] = "commit"  BY <1>0, <1>2, <2>7 DEF InsertRating, Goto
    <3>2. Elements(Tail(todo[q])) = {}  BY <2>3, <2>7
    <3>3. draft'[q] = [type: S, by: {q}]  BY <2>6, <3>2
    <3> QED  BY <1>0, <3>1, <3>3 DEF DraftOK, S
  <2>8. CASE Len(todo[q]) # 1
    <3>1. pc'[q] = "rate"  BY <1>0, <1>2, <2>8 DEF InsertRating, Goto
    <3> QED  BY <1>0, <2>2, <2>3, <2>4, <2>6, <3>1 DEF DraftOK, S
  <2> QED  BY <2>7, <2>8
<1> QED  BY <1>1, <1>2

\* A request that leaves its transaction, or is not in one
LEMMA MatchQuiet ==
    ASSUME TypeInv, DraftInv, NEW q \in Reqs, call' = call,
           NEW l, l \notin {"rate", "commit"}, pc' = [pc EXCEPT ![q] = l],
           \A p \in Reqs \ {q} : todo'[p] = todo[p] /\ draft'[p] = draft[p]
    PROVE  DraftInv'
<1>1. \A p \in Reqs : p # q => pc'[p] = pc[p]  BY DEF TypeInv, TypeOK
<1>2. pc'[q] = l  BY DEF TypeInv, TypeOK
<1> QED  BY <1>1, <1>2, DraftKept

LEMMA MatchStep ==
    ASSUME TypeInv, DraftInv, RatingsMatchText, NEW q \in Reqs, Step(q) \/ Fault(q)
    PROVE  DraftInv' /\ RatingsMatchText'
<1> USE DEF tables, world, txn
<1>0. call' = call
  BY DEF Step, Fault, Authenticate, CafeIDByLocationID, CreateSelect, CreateInsert,
     FindOwn, LostRow, UpdateRow, SoftDelete, ClearRatings, InsertRating, RatingRefused,
     DeadlockVictim, Commit, Mine, VisibleReviews, RatingsByReviewIDs, Fail, CommitUnknown
<1>t. /\ todo \in [Reqs -> Seq(Types)] /\ draft \in [Reqs -> SUBSET Score]
      /\ RatedWith' = RatedWith
  BY <1>0 DEF TypeInv, TypeOK, RatedWith
<1>u. UNCHANGED tables => RatingsMatchText'  BY <1>t DEF RatingsMatchText
<1>1. CASE ClearRatings(q) \/ InsertRating(q)
  <2>1. UNCHANGED tables  BY <1>1 DEF ClearRatings, InsertRating
  <2> QED  BY <1>1, <1>u, <2>1, MatchRatings
<1>2. ASSUME NEW l, l \notin {"rate", "commit"}, pc' = [pc EXCEPT ![q] = l],
             \A p \in Reqs \ {q} : todo'[p] = todo[p] /\ draft'[p] = draft[p]
      PROVE  DraftInv'
  BY <1>0, <1>2, MatchQuiet
<1>3. EndTxn(q) => \A p \in Reqs \ {q} : todo'[p] = todo[p] /\ draft'[p] = draft[p]
  BY <1>t DEF EndTxn
<1>4. ASSUME NEW error, NEW code, Abort(q, error, code)
      PROVE  DraftInv' /\ RatingsMatchText'
  BY <1>2, <1>3, <1>4, <1>u DEF Abort, Reply, Goto
<1>5. CASE Authenticate(q) \/ CafeIDByLocationID(q)
  <2>1. FirstStatement(call[q].op) \notin {"rate", "commit"}
    BY CallsAreTyped DEF TypeInv, TypeOK, FirstStatement, CallType, Writes
  <2> QED
    BY <1>2, <1>5, <1>u, <2>1 DEF Authenticate, CafeIDByLocationID, Reply, Goto
<1>6. CASE CreateSelect(q) \/ CreateInsert(q) \/ FindOwn(q)
  BY <1>2, <1>4, <1>6, <1>u DEF CreateSelect, CreateInsert, FindOwn, Goto
<1>7. CASE LostRow(q) \/ RatingRefused(q) \/ DeadlockVictim(q)
  BY <1>4, <1>7 DEF LostRow, RatingRefused, DeadlockVictim
<1>8. CASE UpdateRow(q)
  BY <1>2, <1>8, <1>t, <1>u DEF UpdateRow, Goto
<1>9. CASE SoftDelete(q)
  <2>1. row[q] \in Ids /\ Live(row[q])
    BY <1>9 DEF SoftDelete, Rechecked, TypeInv, InFlight
  <2>2. RatingsMatchText'  BY <1>0, <1>9, <2>1, MatchStatus DEF SoftDelete
  <2> QED  BY <1>2, <1>3, <1>9, <2>2 DEF SoftDelete, Reply, Goto
<1>10. CASE Commit(q)
  <2>1. RatingsMatchText'  BY <1>0, <1>10, MatchCommit DEF Commit
  <2> QED  BY <1>2, <1>3, <1>10, <2>1 DEF Commit, Goto
<1>11. CASE Mine(q) \/ VisibleReviews(q) \/ RatingsByReviewIDs(q)
  BY <1>2, <1>11, <1>u DEF Mine, VisibleReviews, RatingsByReviewIDs, Reply, Goto
<1>12. CASE Fail(q)
  BY <1>2, <1>3, <1>12, <1>u DEF Fail, Reply, Goto
<1>13. CASE CommitUnknown(q)
  <2>1. DraftInv'  BY <1>2, <1>3, <1>13 DEF CommitUnknown, Reply, Goto
  <2>2. CASE pc[q] = "commit" /\ Apply(q)  BY <1>0, <2>1, <2>2, MatchCommit
  <2>3. CASE /\ pc[q] = "lock" /\ Rechecked(q)
             /\ review' = [review EXCEPT ![row[q]].status = "deleted"]
             /\ UNCHANGED rating
    <3>1. row[q] \in Ids /\ Live(row[q])
      BY <2>3 DEF Rechecked, TypeInv, InFlight
    <3> QED  BY <1>0, <2>1, <2>3, <3>1, MatchStatus
  <2> QED  BY <1>13, <2>2, <2>3 DEF CommitUnknown
<1> QED
  BY <1>1, <1>5, <1>6, <1>7, <1>8, <1>9, <1>10, <1>11, <1>12, <1>13 DEF Step, Fault

LEMMA MatchNext ==
    TypeInv /\ DraftInv /\ RatingsMatchText /\ [Next]_vars => DraftInv' /\ RatingsMatchText'
<1> SUFFICES ASSUME TypeInv, DraftInv, RatingsMatchText, [Next]_vars
             PROVE  DraftInv' /\ RatingsMatchText'
  OBVIOUS
<1> USE DEF tables, world, txn, requests
<1>1. ASSUME UNCHANGED <<tables, requests>>
      PROVE  DraftInv' /\ RatingsMatchText'
  <2>1. DraftInv'  BY <1>1, DraftKept
  <2>2. RatedWith' = RatedWith  BY <1>1 DEF RatedWith
  <2>3. RatingsMatchText'  BY <1>1, <2>2 DEF RatingsMatchText
  <2> QED  BY <2>1, <2>3
<1>2. ASSUME NEW i \in Ids, NEW s, Moderate(i, s)
      PROVE  DraftInv' /\ RatingsMatchText'
  <2>1. DraftInv'  BY <1>2 DEF Moderate, DraftInv, DraftOK
  <2> QED  BY <1>2, <2>1, MatchStatus DEF Moderate
<1>3. CASE External
  BY <1>1, <1>2, <1>3 DEF External, SetActive, SetOpen
<1>4. CASE UNCHANGED vars  BY <1>1, <1>4 DEF vars
<1> QED  BY <1>3, <1>4, MatchStep DEF Next

LEMMA MatchAlways == Spec => [](DraftInv /\ RatingsMatchText)
<1>1. TypeInv /\ (DraftInv /\ RatingsMatchText) /\ [Next]_vars
      => (DraftInv /\ RatingsMatchText)'
  BY MatchNext
<1> QED  BY <1>1, MatchInit, TypeAlways, PTL DEF Spec

\* The ratings of every review are those that came with its text.
THEOREM RatingsMatchTextAlways == Spec => []RatingsMatchText
BY MatchAlways, PTL

\* Once 012 has run, no rating a transaction inserts is there already.
THEOREM RatingsNeverCollideAlways == Spec => []RatingsNeverCollide
<1>1. TypeInv /\ DraftInv => RatingsNeverCollide
  <2> SUFFICES ASSUME TypeInv, DraftInv, CleanedUp, NEW q \in Reqs, pc[q] = "rate"
               PROVE  /\ ~ \E i \in Ids : KeyTakenBy(q, i)
                      /\ ~ \E p \in Reqs : WaitsFor(q, p)
    BY DEF RatingsNeverCollide
  <2>1. todo[q] \in Seq(Types) /\ todo[q] # <<>>  BY DEF TypeInv, TypeOK, InFlight
  <2>2. Head(todo[q]) \in Elements(todo[q])  BY <2>1, NextOff DEF DraftInv, DraftOK
  <2>3. \A x \in draft[q] : x.type \notin Elements(todo[q])
    <3>1. draft[q] = [type: call[q].types \ Elements(todo[q]), by: {q}]
      BY DEF DraftInv, DraftOK
    <3> QED  BY <3>1
  <2>4. Head(todo[q]) \notin TypesOf(draft[q])  BY <2>2, <2>3 DEF TypesOf
  <2> QED  BY <2>4 DEF KeyTakenBy, WaitsFor
<1> QED  BY <1>1, MatchAlways, TypeAlways, PTL

----------------------------------------------------------------------------
(* What a writer has in hand, and what a step does to the tables *)

\* What a request that has not stored anything is doing: its call, the review it
\* writes, and that nothing was returned yet.
WriterOK(q) ==
    /\ pc[q] \in {"select", "insert"} => call[q].op = "create"
    /\ pc[q] \in {"find", "lock"} => call[q].op \in {"update", "delete"}
    /\ pc[q] = "visible" => call[q].op = "list"
    /\ pc[q] \in Before \cup Owning \cup {"find"} => ret[q] = "none"
    /\ pc[q] = "lock" => review[row[q]].status # "absent"
    /\ Wrote(q) => \/ /\ call[q].op = "create"
                      /\ row[q] = q
                      /\ review[q].status = "absent"
                   \/ call[q].op = "update" /\ Live(row[q])

WriterInv == \A q \in Reqs : WriterOK(q)

LEMMA WriterInit == Init => WriterInv
BY ReqIsId, DistinctAssumption DEF Init, WriterInv, WriterOK, Wrote, Owning, Before

\* The review that a request writes was posted by a request.
LEMMA RowIsReq ==
    ASSUME TypeInv, SlotInv, NEW q \in Reqs, pc[q] \in Owning
    PROVE  row[q] \in Reqs /\ SameSlot(row[q], q)
<1>1. row[q] \in Ids  BY DEF TypeInv, InFlight, Owning
<1>2. SameSlot(row[q], q)  BY DEF SlotInv, Owned
<1>3. Author(row[q]) # NoUser  BY <1>2, RequestSlot DEF TypeInv, SameSlot
<1> QED  BY <1>1, <1>2, <1>3 DEF Author, Ids

\* What a request asks for never changes.
LEMMA CallFixed == [Next]_vars => call' = call
BY DEF Next, Step, Fault, External, vars, requests, Authenticate, CafeIDByLocationID,
   CreateSelect, CreateInsert, FindOwn, LostRow, UpdateRow, SoftDelete, ClearRatings,
   InsertRating, RatingRefused, DeadlockVictim, Commit, Mine, VisibleReviews,
   RatingsByReviewIDs, Fail, CommitUnknown, Moderate, SetActive, SetOpen

\* What any step does to the tables: it stores a draft, changes the status of a
\* live review that nobody else holds, or leaves them alone.
TableStep ==
    \/ UNCHANGED tables
    \/ \E q \in Reqs : Wrote(q) /\ Apply(q) /\ pc'[q] \notin Owning /\ pc[q] = "commit"
    \/ \E i \in Ids, s \in {"approved", "rejected", "deleted"} :
          /\ Live(i)
          /\ review' = [review EXCEPT ![i].status = s]
          /\ UNCHANGED rating
          /\ \A p \in Reqs : Wrote(p) => row[p] # i

LEMMA TableSteps == ASSUME TypeInv, [Next]_vars PROVE TableStep
<1> USE DEF tables, world
<1>0. pc \in [Reqs -> Locations]  BY DEF TypeInv, TypeOK
<1>1. ASSUME NEW q \in Reqs, Step(q) PROVE TableStep
  <2>1. CASE Commit(q)
    BY <1>0, <2>1 DEF Commit, Goto, Wrote, Owning, TableStep
  <2>2. CASE SoftDelete(q)
    <3>1. row[q] \in Ids /\ pc[q] = "lock" /\ Live(row[q])
      BY <2>2 DEF SoftDelete, Rechecked, TypeInv, InFlight
    <3>2. \A p \in Reqs : Wrote(p) => row[p] # row[q]
      BY <2>2, <3>1, HoldsWhileWriting DEF SoftDelete, RowInFlight, Wrote
    <3> QED  BY <2>2, <3>1, <3>2 DEF SoftDelete, TableStep
  <2>3. CASE UNCHANGED tables  BY <2>3 DEF TableStep
  <2> QED
    BY <1>1, <2>1, <2>2, <2>3 DEF Step, Authenticate, CafeIDByLocationID, CreateSelect,
       CreateInsert, FindOwn, LostRow, UpdateRow, ClearRatings, InsertRating, RatingRefused,
       DeadlockVictim, Mine, VisibleReviews, RatingsByReviewIDs, Abort
<1>2. ASSUME NEW q \in Reqs, Fault(q) PROVE TableStep
  <2>1. CASE Fail(q)  BY <2>1 DEF Fail, TableStep
  <2>2. CASE CommitUnknown(q) /\ pc[q] = "commit"
    BY <1>0, <2>2 DEF CommitUnknown, Reply, Goto, Wrote, Owning, TableStep
  <2>3. CASE CommitUnknown(q) /\ pc[q] # "commit"
    <3>1. row[q] \in Ids /\ pc[q] = "lock" /\ Live(row[q])
      BY <2>3 DEF CommitUnknown, Rechecked, TypeInv, InFlight
    <3>2. \A p \in Reqs : Wrote(p) => row[p] # row[q]
      BY <2>3, <3>1, HoldsWhileWriting DEF CommitUnknown, RowInFlight, Wrote
    <3> QED  BY <2>3, <3>1, <3>2 DEF CommitUnknown, TableStep
  <2> QED  BY <1>2, <2>1, <2>2, <2>3 DEF Fault
<1>3. CASE External
  BY <1>3, HoldsWhileWriting DEF External, Moderate, SetActive, SetOpen, TableStep
<1>4. CASE UNCHANGED vars  BY <1>4 DEF vars, TableStep
<1> QED  BY <1>1, <1>2, <1>3, <1>4 DEF Next

\* A review in the table stays in it, and a transaction that goes on finds the
\* review it holds as it left it.
LEMMA HeldStays ==
    ASSUME TypeInv, SlotInv, TableStep
    PROVE  /\ \A i \in Ids : review[i].status # "absent" => review'[i].status # "absent"
           /\ \A p \in Reqs : Wrote(p) /\ pc'[p] \in Owning => review'[row[p]] = review[row[p]]
<1>0. /\ review \in [Ids -> Row]
      /\ \A p \in Reqs : Wrote(p) => row[p] \in Ids /\ SameSlot(row[p], p)
  BY DEF TypeInv, TypeOK, InFlight, SlotInv, Owned, Wrote, Owning
<1>1. CASE UNCHANGED tables  BY <1>1 DEF tables
<1>2. ASSUME NEW q \in Reqs, Wrote(q), Apply(q), pc'[q] \notin Owning
      PROVE  /\ \A i \in Ids : review[i].status # "absent" => review'[i].status # "absent"
             /\ \A p \in Reqs : Wrote(p) /\ pc'[p] \in Owning
                                   => review'[row[p]] = review[row[p]]
  <2>1. /\ review'[row[q]] = [status |-> "pending", body |-> q]
        /\ \A i \in Ids : i # row[q] => review'[i] = review[i]
    BY <1>0, <1>2 DEF Apply
  <2>2. \A p \in Reqs : Wrote(p) /\ p # q => row[p] # row[q]
    BY <1>0, <1>2 DEF SlotInv, Exclusive, SameSlot
  <2> QED  BY <1>0, <1>2, <2>1, <2>2
<1>3. ASSUME NEW i \in Ids, NEW s \in {"approved", "rejected", "deleted"},
             review' = [review EXCEPT ![i].status = s],
             \A p \in Reqs : Wrote(p) => row[p] # i
      PROVE  /\ \A j \in Ids : review[j].status # "absent" => review'[j].status # "absent"
             /\ \A p \in Reqs : Wrote(p) /\ pc'[p] \in Owning
                                   => review'[row[p]] = review[row[p]]
  <2>1. review'[i].status = s /\ \A j \in Ids : j # i => review'[j] = review[j]
    BY <1>0, <1>3 DEF Row
  <2> QED  BY <1>0, <1>3, <2>1
<1> QED  BY <1>1, <1>2, <1>3 DEF TableStep

\* A request that does not move keeps what it has.
LEMMA WriterKept ==
    ASSUME TypeInv, SlotInv, TableStep, NEW p \in Reqs, WriterOK(p),
           pc'[p] = pc[p], row'[p] = row[p], ret'[p] = ret[p], call' = call
    PROVE  WriterOK(p)'
<1>1. /\ \A i \in Ids : review[i].status # "absent" => review'[i].status # "absent"
      /\ Wrote(p) => review'[row[p]] = review[row[p]]
  BY HeldStays DEF Wrote, Owning
<1>2. pc[p] = "lock" => row[p] \in Ids  BY DEF TypeInv, InFlight
<1>3. Wrote(p)' <=> Wrote(p)  BY DEF Wrote
<1>4. Wrote(p)' => \/ /\ call[p].op = "create"
                      /\ row[p] = p
                      /\ review'[p].status = "absent"
                   \/ call[p].op = "update" /\ Live(row[p])'
  BY <1>1, <1>3 DEF WriterOK, Live
<1> QED  BY <1>1, <1>2, <1>4 DEF WriterOK

LEMMA WriterStep ==
    ASSUME TypeInv, SlotInv, WriterInv, TableStep, NEW q \in Reqs, Step(q) \/ Fault(q)
    PROVE  WriterInv'
<1> USE DEF tables, world, txn
<1>0. /\ pc \in [Reqs -> Locations] /\ row \in [Reqs -> Ids \cup {NoId}]
      /\ ret \in [Reqs -> Returns] /\ call' = call
      /\ WriterOK(q) /\ call[q].op \in Writes \cup {"mine", "list"}
  BY CallsAreTyped
  DEF TypeInv, TypeOK, WriterInv, CallType, Step, Fault, Authenticate, CafeIDByLocationID,
      CreateSelect, CreateInsert, FindOwn, LostRow, UpdateRow, SoftDelete, ClearRatings,
      InsertRating, RatingRefused, DeadlockVictim, Commit, Mine, VisibleReviews,
      RatingsByReviewIDs, Fail, CommitUnknown
<1>1. /\ \E l : pc' = [pc EXCEPT ![q] = l]
      /\ \A p \in Reqs \ {q} : row'[p] = row[p] /\ ret'[p] = ret[p]
  <2>1. CASE Authenticate(q) \/ CafeIDByLocationID(q) \/ CreateSelect(q) \/ CreateInsert(q)
    BY <1>0, <2>1 DEF Authenticate, CafeIDByLocationID, CreateSelect, CreateInsert, Abort,
       EndTxn, Reply, Goto
  <2>2. CASE FindOwn(q) \/ LostRow(q) \/ UpdateRow(q) \/ SoftDelete(q)
    BY <1>0, <2>2 DEF FindOwn, LostRow, UpdateRow, SoftDelete, Abort, EndTxn, Reply, Goto
  <2>3. CASE ClearRatings(q) \/ InsertRating(q) \/ RatingRefused(q) \/ DeadlockVictim(q)
             \/ Commit(q)
    BY <1>0, <2>3 DEF ClearRatings, InsertRating, RatingRefused, DeadlockVictim, Commit,
       Abort, EndTxn, Reply, Goto
  <2>4. CASE Mine(q) \/ VisibleReviews(q) \/ RatingsByReviewIDs(q) \/ Fault(q)
    BY <1>0, <2>4 DEF Mine, VisibleReviews, RatingsByReviewIDs, Fault, Fail, CommitUnknown,
       EndTxn, Reply, Goto
  <2> QED  BY <2>1, <2>2, <2>3, <2>4 DEF Step
<1>2. \A p \in Reqs \ {q} : WriterOK(p)'
  BY <1>0, <1>1, WriterKept DEF WriterInv
<1>3. ASSUME pc'[q] \in {"done", "reread", "ratings"} PROVE WriterOK(q)'
  BY <1>3 DEF WriterOK, Wrote, Before, Owning
<1> SUFFICES WriterOK(q)'  BY <1>2 DEF WriterInv
<1>4. CASE Authenticate(q) \/ CafeIDByLocationID(q)
  <2>1. pc'[q] # "done" => /\ ret'[q] = "none"
                           /\ pc'[q] \in {"cafe", FirstStatement(call[q].op)}
    BY <1>0, <1>4 DEF Authenticate, CafeIDByLocationID, Reply, Goto, WriterOK, Before
  <2> QED  BY <1>0, <1>3, <2>1 DEF FirstStatement, WriterOK, Wrote, Writes
<1>5. CASE CreateSelect(q) \/ CreateInsert(q)
  <2>1. CASE pc'[q] = "done"  BY <1>3, <2>1
  <2>2. CASE CreateSelect(q) /\ pc'[q] # "done"
    BY <1>0, <2>2 DEF CreateSelect, Abort, Reply, Goto, WriterOK, Before, Wrote
  <2>3. CASE CreateInsert(q) /\ pc'[q] # "done"
    <3>1. /\ pc'[q] = "clear" /\ row'[q] = q /\ UNCHANGED <<review, ret>>
          /\ pc[q] = "insert"
      BY <1>0, <2>3 DEF CreateInsert, Abort, Reply, Goto
    <3>2. review[q].status = "absent"  BY <3>1 DEF SlotInv, Fresh, Before
    <3> QED  BY <1>0, <3>1, <3>2 DEF WriterOK, Before, Owning, Wrote
  <2> QED  BY <1>5, <2>1, <2>2, <2>3
<1>6. CASE FindOwn(q)
  <2>1. CASE pc'[q] = "done"  BY <1>3, <2>1
  <2>2. CASE pc'[q] # "done"
    <3>1. /\ pc'[q] = "lock" /\ pc[q] = "find" /\ UNCHANGED <<review, ret>>
          /\ Live(row'[q])
      BY <1>0, <1>6, <2>2 DEF FindOwn, Abort, Reply, Goto, OwnLive
    <3> QED  BY <1>0, <3>1 DEF WriterOK, Live, LiveStatuses, Wrote
  <2> QED  BY <2>1, <2>2
<1>7. CASE UpdateRow(q)
  <2>1. /\ pc'[q] = "clear" /\ pc[q] = "lock" /\ UNCHANGED <<review, ret, row>>
        /\ Live(row[q]) /\ call[q].op = "update"
    BY <1>0, <1>7 DEF UpdateRow, Goto, Rechecked
  <2> QED  BY <1>0, <2>1 DEF WriterOK, Owning, Live
<1>8. CASE ClearRatings(q) \/ InsertRating(q)
  <2>1. /\ pc'[q] \in {"rate", "commit"} /\ Wrote(q) /\ UNCHANGED <<review, ret, row>>
    BY <1>0, <1>8 DEF ClearRatings, InsertRating, Goto, Wrote
  <2> QED  BY <1>0, <2>1 DEF WriterOK, Wrote, Owning, Live
<1>9. CASE \/ LostRow(q) \/ SoftDelete(q) \/ RatingRefused(q) \/ DeadlockVictim(q)
           \/ Commit(q) \/ Mine(q) \/ VisibleReviews(q) \/ RatingsByReviewIDs(q) \/ Fault(q)
  <2>1. pc'[q] \in {"done", "reread", "ratings"}
    BY <1>0, <1>9 DEF LostRow, SoftDelete, RatingRefused, DeadlockVictim, Commit, Mine,
       VisibleReviews, RatingsByReviewIDs, Fault, Fail, CommitUnknown, Abort, Reply, Goto
  <2> QED  BY <1>3, <2>1
<1> QED  BY <1>4, <1>5, <1>6, <1>7, <1>8, <1>9 DEF Step

LEMMA WriterNext == TypeInv /\ SlotInv /\ WriterInv /\ [Next]_vars => WriterInv'
<1> SUFFICES ASSUME TypeInv, SlotInv, WriterInv, [Next]_vars PROVE WriterInv'  OBVIOUS
<1>1. TableStep  BY TableSteps
<1>2. ASSUME UNCHANGED requests PROVE WriterInv'
  BY <1>1, <1>2, WriterKept DEF WriterInv, requests, txn
<1>3. CASE External
  BY <1>2, <1>3 DEF External, Moderate, SetActive, SetOpen
<1>4. CASE UNCHANGED vars  BY <1>2, <1>4 DEF vars, requests, txn
<1> QED  BY <1>1, <1>3, <1>4, WriterStep DEF Next

LEMMA WriterAlways == Spec => []WriterInv
BY WriterInit, WriterNext, TypeAlways, SlotsAlways, PTL DEF Spec

----------------------------------------------------------------------------
(* Reviews implements ReviewBook *)

Entry(i) == [status |-> review[i].status, body |-> review[i].body, ratings |-> rating[i]]
Absent == [status |-> "none", body |-> NoId, ratings |-> {}]
SlotOf(q) == <<call[q].cafe, call[q].user>>

\* The shelf of a slot holds its live review, whichever that is.
ShelfOK ==
    \A s \in Cafes \X Users :
        /\ \A i \in Reqs : Live(i) /\ SlotOf(i) = s => Shelves[s] = Entry(i)
        /\ (~ \E i \in Reqs : Live(i) /\ SlotOf(i) = s) => Shelves[s] = Absent

BookInv == TypeInv /\ SlotInv /\ WriterInv /\ DraftInv

LEMMA SlotOfReq ==
    ASSUME TypeOK
    PROVE  /\ \A q \in Reqs : SlotOf(q) \in Cafes \X Users
           /\ \A p, q \in Reqs : SameSlot(p, q) <=> SlotOf(p) = SlotOf(q)
BY RequestSlot, CallsAreTyped DEF SlotOf, SameSlot

LEMMA ShelvesAreRight == BookInv => ShelfOK
<1> SUFFICES ASSUME BookInv, NEW s \in Cafes \X Users
             PROVE  /\ \A i \in Reqs : Live(i) /\ SlotOf(i) = s => Shelves[s] = Entry(i)
                    /\ (~ \E i \in Reqs : Live(i) /\ SlotOf(i) = s) => Shelves[s] = Absent
  BY DEF ShelfOK
<1>0. TypeOK /\ SlotInv  BY DEF BookInv, TypeInv
<1> DEFINE live == {q \in Reqs : Live(q) /\ <<call[q].cafe, call[q].user>> = s}
<1>1. Shelves[s] = IF live = {} THEN Absent
                   ELSE LET i == CHOOSE i \in live : TRUE
                        IN [status |-> review[i].status, body |-> review[i].body,
                            ratings |-> rating[i]]
  BY DEF Shelves, Shelf, Absent
<1>2. ASSUME NEW i \in Reqs, Live(i), SlotOf(i) = s PROVE Shelves[s] = Entry(i)
  <2>1. i \in live  BY <1>2 DEF SlotOf
  <2>2. \A j \in live : j = i
    <3> SUFFICES ASSUME NEW j \in live PROVE j = i  OBVIOUS
    <3>1. j \in Reqs /\ Live(j) /\ SameSlot(j, i)  BY <1>0, <1>2, SlotOfReq DEF SlotOf
    <3>2. j \in Ids /\ i \in Ids /\ Author(j) # NoUser
      BY <1>0, <3>1, ReqIsId, RequestSlot
    <3> QED  BY <1>0, <1>2, <3>1, <3>2 DEF SlotInv, OneLiveReview
  <2>3. (CHOOSE j \in live : TRUE) = i  BY <2>1, <2>2
  <2> HIDE DEF live
  <2> QED  BY <1>1, <2>1, <2>3 DEF Entry
<1>3. ASSUME ~ \E i \in Reqs : Live(i) /\ SlotOf(i) = s PROVE Shelves[s] = Absent
  <2>1. live = {}  BY <1>3 DEF SlotOf
  <2> HIDE DEF live
  <2> QED  BY <1>1, <2>1
<1> QED  BY <1>2, <1>3

LEMMA ShelvesAreRightNext == BookInv' => ShelfOK'
BY ShelvesAreRight, PTL

\* Slots whose reviews are as they were
LEMMA OtherShelves ==
    ASSUME ShelfOK, ShelfOK', call' = call, NEW s \in Cafes \X Users,
           \A i \in Reqs : SlotOf(i) = s => review'[i] = review[i] /\ rating'[i] = rating[i]
    PROVE  Shelves'[s] = Shelves[s]
<1>1. \A i : SlotOf(i)' = SlotOf(i)  BY DEF SlotOf
<1>2. \A i \in Reqs : SlotOf(i) = s => (Live(i)' <=> Live(i)) /\ Entry(i)' = Entry(i)
  BY DEF Live, Entry
<1>3. CASE \E i \in Reqs : Live(i) /\ SlotOf(i) = s
  BY <1>1, <1>2, <1>3 DEF ShelfOK
<1>4. CASE ~ \E i \in Reqs : Live(i) /\ SlotOf(i) = s
  <2>1. Absent' = Absent  BY DEF Absent
  <2> QED  BY <1>1, <1>2, <1>4, <2>1 DEF ShelfOK
<1> QED  BY <1>3, <1>4

\* One review changes: only its slot's shelf does.
LEMMA OneShelf ==
    ASSUME TypeInv, ShelfOK, ShelfOK', call' = call, NEW i \in Reqs, NEW e,
           \A j \in Reqs : j # i => review'[j] = review[j] /\ rating'[j] = rating[j],
           Shelves'[SlotOf(i)] = e
    PROVE  Shelves' = [Shelves EXCEPT ![SlotOf(i)] = e]
<1>1. \A s \in Cafes \X Users : s # SlotOf(i) => Shelves'[s] = Shelves[s]
  BY OtherShelves
<1>2. /\ Shelves = [s \in Cafes \X Users |-> Shelves[s]]
      /\ Shelves' = [s \in Cafes \X Users |-> Shelves'[s]]
  BY DEF Shelves
<1> QED  BY <1>1, <1>2

LEMMA SameShelves ==
    ASSUME UNCHANGED <<review, rating, call>> PROVE Shelves' = Shelves
BY DEF Shelves, Shelf, Live

\* What a step leaves of Missed, when the reviews that others are about to write
\* stay live, or stay gone
LEMMA MissedStep ==
    ASSUME TypeInv, NEW q \in Reqs,
           \A p \in Reqs \ {q} : pc'[p] = pc[p] /\ row'[p] = row[p],
           pc'[q] # "lock" \/ Live(row[q])',
           \A p \in Reqs \ {q} : pc[p] = "lock" => (Live(row[p])' <=> Live(row[p]))
    PROVE  Missed' = Missed \ {q}
<1>1. ASSUME NEW p \in Reqs PROVE p \in Missed' <=> p \in Missed /\ p # q
  BY DEF Missed, Live
<1> QED  BY <1>1 DEF Missed

\* A request's call, while it has returned nothing
LEMMA WriterCalls ==
    ASSUME BookInv, NEW q \in Reqs,
           pc[q] \in {"select", "insert", "find", "lock", "clear", "rate", "commit"}
    PROVE  /\ ret[q] = "none"
           /\ call[q].op \in Writes
           /\ pc[q] \in {"select", "insert"} => call[q].op = "create"
           /\ pc[q] \in {"find", "lock"} => call[q].op \in {"update", "delete"}
BY DEF BookInv, WriterInv, WriterOK, Before, Owning, Writes, Wrote

\* A user's own live review, as Create, Update and SoftDelete look for it, is
\* the one on the shelf.
LEMMA OwnOnShelf ==
    ASSUME BookInv, NEW q \in Reqs
    PROVE  (\E i \in Ids : OwnLive(q, i)) <=> Shelves[SlotOf(q)] # Absent
<1>0. TypeOK /\ ShelfOK /\ SlotOf(q) \in Cafes \X Users
  BY ShelvesAreRight, SlotOfReq DEF BookInv, TypeInv
<1>1. ASSUME NEW i \in Ids, OwnLive(q, i)
      PROVE  i \in Reqs /\ Live(i) /\ SlotOf(i) = SlotOf(q)
  <2>1. Live(i) /\ SameSlot(i, q)  BY <1>0, <1>1, OwnLiveSlot
  <2>2. i \in Reqs  BY <1>0, <2>1, RequestSlot DEF SameSlot, Author, Ids
  <2> QED  BY <1>0, <2>1, <2>2, SlotOfReq
<1>2. ASSUME NEW i \in Reqs, Live(i), SlotOf(i) = SlotOf(q)
      PROVE  OwnLive(q, i) /\ Entry(i) # Absent
  <2>1. SameSlot(i, q)  BY <1>0, <1>2, SlotOfReq
  <2>2. Entry(i).status \in LiveStatuses  BY <1>2 DEF Entry, Live
  <2> QED  BY <1>0, <1>2, <2>1, <2>2, OwnLiveSlot, ReqIsId DEF Absent, LiveStatuses
<1> QED  BY <1>0, <1>1, <1>2, ReqIsId DEF ShelfOK

\* The names of ReviewBook
LEMMA BookNames ==
    /\ \A q : Book!Slot(q) = SlotOf(q)
    /\ Book!NoEntry = Absent
    /\ \A q, ops : Book!Waiting(q, ops) <=> ret[q] = "none" /\ call[q].op \in ops
BY DEF Book!Slot, SlotOf, Book!NoEntry, Absent, Book!Waiting

\* An error ends a write without a trace.
LEMMA AbortBook ==
    ASSUME BookInv, NEW q \in Reqs, NEW error, NEW code, Abort(q, error, code), call' = call,
           pc[q] \in {"select", "insert", "find", "lock", "clear", "rate", "commit"},
           \/ /\ error = "exists"
              /\ pc[q] \in {"select", "insert"}
              /\ \E i \in Ids : OwnLive(q, i)
           \/ /\ error = "notfound"
              /\ \/ pc[q] = "find" /\ ~ \E i \in Ids : OwnLive(q, i)
                 \/ pc[q] = "lock" /\ ~Live(row[q])
           \/ error = "err"
    PROVE  Book!Exists(q) \/ Book!NotFound(q) \/ Book!Fail(q)
<1>0. /\ TypeInv /\ pc \in [Reqs -> Locations] /\ row \in [Reqs -> Ids \cup {NoId}]
  BY DEF BookInv, TypeInv, TypeOK
<1>1. /\ UNCHANGED <<review, rating>> /\ ret' = [ret EXCEPT ![q] = error]
      /\ pc' = [pc EXCEPT ![q] = "done"] /\ row' = [row EXCEPT ![q] = NoId]
  BY DEF Abort, Reply, Goto, EndTxn, tables
<1>2. Shelves' = Shelves  BY <1>1, SameShelves
<1>3. Missed' = Missed \ {q}
  BY <1>0, <1>1, MissedStep DEF Live
<1>4. /\ ret[q] = "none" /\ call[q].op \in Writes
      /\ pc[q] \in {"select", "insert"} => call[q].op = "create"
      /\ pc[q] \in {"find", "lock"} => call[q].op \in {"update", "delete"}
  BY WriterCalls
<1>5. pc[q] # "lock" => Missed' = Missed  BY <1>3 DEF Missed
<1>6. CASE error = "exists" /\ pc[q] \in {"select", "insert"} /\ \E i \in Ids : OwnLive(q, i)
  BY <1>1, <1>2, <1>4, <1>5, <1>6, OwnOnShelf, BookNames DEF Book!Exists
<1>7. CASE /\ error = "notfound"
           /\ \/ pc[q] = "find" /\ ~ \E i \in Ids : OwnLive(q, i)
              \/ pc[q] = "lock" /\ ~Live(row[q])
  <2>1. Shelves[SlotOf(q)] = Absent \/ q \in Missed
    BY <1>7, OwnOnShelf DEF Missed
  <2> QED  BY <1>1, <1>2, <1>3, <1>4, <1>7, <2>1, BookNames DEF Book!NotFound
<1>8. CASE error = "err"
  BY <1>1, <1>2, <1>3, <1>4, <1>8, BookNames DEF Book!Fail, Writes
<1> QED  BY <1>6, <1>7, <1>8

\* COMMIT: the whole POST or PUT takes effect.
LEMMA CommitBook ==
    ASSUME BookInv, BookInv', NEW q \in Reqs, pc[q] = "commit", Apply(q), call' = call,
           NEW l, l # "lock", pc' = [pc EXCEPT ![q] = l], row' = [row EXCEPT ![q] = NoId],
           NEW a \in {"nil", "err"}, ret' = [ret EXCEPT ![q] = a]
    PROVE  Book!Create(q) \/ Book!Update(q)
<1>0. /\ TypeInv /\ TypeOK /\ SlotInv /\ ShelfOK /\ ShelfOK'
      /\ pc \in [Reqs -> Locations] /\ row \in [Reqs -> Ids \cup {NoId}]
      /\ review \in [Ids -> Row] /\ rating \in [Ids -> SUBSET Score]
  BY ShelvesAreRight, ShelvesAreRightNext DEF BookInv, TypeInv, TypeOK
<1>1. /\ row[q] \in Reqs /\ row[q] \in Ids /\ SlotOf(row[q]) = SlotOf(q)
      /\ SlotOf(q) \in Cafes \X Users
  BY <1>0, RowIsReq, ReqIsId, SlotOfReq DEF Owning
<1>2. /\ review'[row[q]] = [status |-> "pending", body |-> q]
      /\ rating'[row[q]] = [type: call[q].types, by: {q}]
      /\ \A i \in Ids : i # row[q] => review'[i] = review[i] /\ rating'[i] = rating[i]
  BY <1>0, <1>1 DEF Apply, BookInv, DraftInv, DraftOK
<1>3. Shelves' = [Shelves EXCEPT ![SlotOf(q)] = Book!Submitted(q)]
  <2>1. ASSUME NEW i \in Reqs, i = row[q] PROVE Shelves'[SlotOf(q)] = Book!Submitted(q)
    <3>1. Live(i)' /\ SlotOf(i)' = SlotOf(q)
      BY <1>1, <1>2, <2>1 DEF Live, LiveStatuses, SlotOf
    <3>2. Shelves'[SlotOf(q)] = Entry(i)'  BY <1>0, <1>1, <3>1 DEF ShelfOK
    <3> QED  BY <1>2, <2>1, <3>2 DEF Entry, Book!Submitted
  <2>2. \A j \in Reqs : j # row[q] => review'[j] = review[j] /\ rating'[j] = rating[j]
    BY <1>2, ReqIsId
  <2> QED  BY <1>0, <1>1, <2>1, <2>2, OneShelf
<1>4. \/ call[q].op = "create" /\ row[q] = q /\ review[q].status = "absent"
      \/ call[q].op = "update" /\ Live(row[q])
  BY DEF BookInv, WriterInv, WriterOK, Wrote
<1>5. Missed' = Missed
  <2>1. ASSUME NEW p \in Reqs \ {q}, pc[p] = "lock" PROVE Live(row[p])' <=> Live(row[p])
    <3>1. /\ review[row[p]].status # "absent" /\ row[p] \in Ids /\ row'[p] = row[p]
      BY <1>0, <2>1 DEF BookInv, WriterInv, WriterOK, TypeInv, InFlight
    <3>2. CASE row[p] = row[q]
      BY <1>2, <1>4, <3>1, <3>2 DEF Live, LiveStatuses
    <3>3. CASE row[p] # row[q]  BY <1>2, <3>1, <3>3 DEF Live
    <3> QED  BY <3>2, <3>3
  <2>2. Missed' = Missed \ {q}  BY <1>0, <2>1, MissedStep
  <2> QED  BY <2>2 DEF Missed
<1>6. ret[q] = "none" /\ Book!Told(q)  BY WriterCalls DEF Book!Told
<1>7. CASE call[q].op = "create" /\ row[q] = q /\ review[q].status = "absent"
  <2>1. ~ \E i \in Ids : OwnLive(q, i)
    <3> SUFFICES ASSUME NEW i \in Ids, OwnLive(q, i) PROVE FALSE  OBVIOUS
    <3>1. Live(i) /\ SameSlot(i, q)  BY <1>0, OwnLiveSlot
    <3>2. i = q  BY <1>0, <1>7, <3>1 DEF SlotInv, OnlyHeld, Wrote
    <3> QED  BY <1>7, <3>1, <3>2 DEF Live, LiveStatuses
  <2>2. Shelves[SlotOf(q)] = Absent  BY <2>1, OwnOnShelf
  <2> QED  BY <1>3, <1>5, <1>6, <1>7, <2>2, BookNames DEF Book!Create
<1>8. CASE call[q].op = "update" /\ Live(row[q])
  <2>1. OwnLive(q, row[q])
    BY <1>0, <1>1, <1>8, RowIsReq, OwnLiveSlot DEF Owning
  <2>2. Shelves[SlotOf(q)] # Absent  BY <1>1, <2>1, OwnOnShelf
  <2> QED  BY <1>3, <1>5, <1>6, <1>8, <2>2, BookNames DEF Book!Update
<1> QED  BY <1>4, <1>7, <1>8

\* A review goes, and the writes that were about to write it miss it: those of
\* done may be answered in the same step.
LEMMA VanishBook ==
    ASSUME BookInv, BookInv', NEW i \in Reqs, Live(i),
           review' = [review EXCEPT ![i].status = "deleted"], rating' = rating, call' = call,
           NEW done \in SUBSET Reqs,
           \A p \in done : ret'[p] # "none" /\ pc'[p] # "lock" /\ p \notin Missed,
           \A p \in Reqs \ done : pc'[p] = pc[p] /\ row'[p] = row[p] /\ ret'[p] = ret[p]
    PROVE  Book!Vanish(SlotOf(i))
<1>0. /\ TypeInv /\ TypeOK /\ SlotInv /\ ShelfOK /\ ShelfOK'
      /\ review \in [Ids -> Row] /\ i \in Ids /\ SlotOf(i) \in Cafes \X Users
  BY ShelvesAreRight, ShelvesAreRightNext, ReqIsId, SlotOfReq DEF BookInv, TypeInv, TypeOK
<1>1. /\ review'[i].status = "deleted"
      /\ \A j \in Ids : j # i => review'[j] = review[j]
      /\ ~Live(i)'
  BY <1>0 DEF Row, Live, LiveStatuses
<1>2. \A j \in Reqs : SlotOf(j)' = SlotOf(j)  BY DEF SlotOf
<1>3. Shelves[SlotOf(i)] # Absent
  <2>1. Shelves[SlotOf(i)] = Entry(i)  BY <1>0 DEF ShelfOK
  <2>2. Entry(i) # Absent  BY DEF Entry, Absent, Live, LiveStatuses
  <2> QED  BY <2>1, <2>2
<1>4. ASSUME NEW j \in Reqs, Live(j)', SlotOf(j) = SlotOf(i) PROVE FALSE
  <2>1. j # i /\ Live(j) /\ SameSlot(j, i) /\ j \in Ids
    BY <1>0, <1>1, <1>4, ReqIsId, SlotOfReq DEF Live
  <2> QED  BY <1>0, <2>1, RequestSlot DEF SlotInv, OneLiveReview
<1>5. Shelves' = [Shelves EXCEPT ![SlotOf(i)] = Absent]
  <2>1. Absent' = Absent  BY DEF Absent
  <2>2. Shelves'[SlotOf(i)] = Absent  BY <1>0, <1>2, <1>4, <2>1 DEF ShelfOK
  <2>3. \A j \in Reqs : j # i => review'[j] = review[j] /\ rating'[j] = rating[j]
    BY <1>1, ReqIsId
  <2> QED  BY <1>0, <2>2, <2>3, OneShelf
<1> DEFINE late == {p \in Reqs : pc'[p] = "lock" /\ row[p] = i}
<1>6. Missed' = (Missed \cup late) \ {p \in Reqs : ret'[p] # "none"}
  <2>1. ASSUME NEW p \in Reqs
        PROVE  p \in Missed' <=> p \in (Missed \cup late) \ {r \in Reqs : ret'[r] # "none"}
    <3>1. CASE p \in done  BY <3>1 DEF Missed
    <3>2. CASE p \notin done
      <4>1. pc'[p] = pc[p] /\ row'[p] = row[p] /\ ret'[p] = ret[p]  BY <3>2
      <4>2. CASE pc[p] = "lock"
        <5>1. ret[p] = "none" /\ row[p] \in Ids
          BY <1>0, <4>2, WriterCalls DEF TypeInv, InFlight
        <5>2. row[p] # i => (Live(row[p])' <=> Live(row[p]))  BY <1>1, <4>1, <5>1 DEF Live
        <5>3. row[p] = i => ~Live(row[p])'
          BY <1>1, <4>1 DEF Live, LiveStatuses
        <5> QED  BY <4>1, <4>2, <5>1, <5>2, <5>3 DEF Missed
      <4>3. CASE pc[p] # "lock"  BY <4>1, <4>3 DEF Missed
      <4> QED  BY <4>2, <4>3
    <3> QED  BY <3>1, <3>2
  <2> QED  BY <2>1 DEF Missed
<1>7. late \in SUBSET {p \in Reqs : Book!Waiting(p, {"update", "delete"})
                                    /\ Book!Slot(p) = SlotOf(i)}
  <2> SUFFICES ASSUME NEW p \in late
               PROVE  /\ ret[p] = "none" /\ call[p].op \in {"update", "delete"}
                      /\ SlotOf(p) = SlotOf(i)
    BY BookNames
  <2>1. p \in Reqs /\ pc[p] = "lock" /\ row[p] = i  OBVIOUS
  <2>2. ret[p] = "none" /\ call[p].op \in {"update", "delete"}  BY <2>1, WriterCalls
  <2>3. SameSlot(i, p)  BY <1>0, <2>1, RowIsReq DEF Owning
  <2> QED  BY <1>0, <2>1, <2>2, <2>3, SlotOfReq
<1> HIDE DEF late
<1> QED  BY <1>3, <1>5, <1>6, <1>7, BookNames DEF Book!Vanish

LEMMA DeleteBook ==
    ASSUME BookInv, BookInv', NEW q \in Reqs, pc[q] = "lock", call[q].op = "delete",
           Live(row[q]), review' = [review EXCEPT ![row[q]].status = "deleted"],
           rating' = rating, call' = call, pc' = [pc EXCEPT ![q] = "done"],
           row' = [row EXCEPT ![q] = NoId],
           NEW a \in {"nil", "err"}, ret' = [ret EXCEPT ![q] = a]
    PROVE  Book!Delete(q)
<1>0. /\ TypeInv /\ TypeOK /\ SlotInv
      /\ pc \in [Reqs -> Locations] /\ row \in [Reqs -> Ids \cup {NoId}]
      /\ ret \in [Reqs -> Returns]
  BY DEF BookInv, TypeInv, TypeOK
<1>1. row[q] \in Reqs /\ SlotOf(row[q]) = SlotOf(q)
  BY <1>0, RowIsReq, SlotOfReq DEF Owning
<1>2. PICK i \in Reqs : i = row[q]  BY <1>1
<1>3. /\ q \notin Missed /\ ret'[q] # "none" /\ pc'[q] # "lock"
      /\ \A p \in Reqs \ {q} : pc'[p] = pc[p] /\ row'[p] = row[p] /\ ret'[p] = ret[p]
  BY <1>0 DEF Missed
<1>4. /\ Live(i) /\ review' = [review EXCEPT ![i].status = "deleted"]
      /\ {q} \in SUBSET Reqs
      /\ \A p \in {q} : ret'[p] # "none" /\ pc'[p] # "lock" /\ p \notin Missed
  BY <1>2, <1>3
<1>5. Book!Vanish(SlotOf(i))  BY <1>3, <1>4, VanishBook
<1>6. ret[q] = "none" /\ Book!Told(q)  BY WriterCalls DEF Book!Told
<1> QED  BY <1>1, <1>2, <1>5, <1>6, BookNames DEF Book!Delete

\* What mission control does to a review, ReviewBook does to its shelf.
LEMMA ModerateBook ==
    ASSUME BookInv, BookInv', NEW i \in Ids, NEW s \in {"approved", "rejected", "deleted"},
           Moderate(i, s)
    PROVE  Book!Next \/ UNCHANGED Book!vars
<1>0. /\ TypeInv /\ TypeOK /\ SlotInv /\ ShelfOK /\ ShelfOK' /\ review \in [Ids -> Row]
      /\ rating \in [Ids -> SUBSET Score]
  BY ShelvesAreRight, ShelvesAreRightNext DEF BookInv, TypeInv, TypeOK
<1>1. /\ Live(i) /\ review' = [review EXCEPT ![i].status = s]
      /\ UNCHANGED <<rating, call, pc, row, ret>>
  BY DEF Moderate, requests, txn
<1>2. /\ review'[i].status = s /\ review'[i].body = review[i].body
      /\ \A j \in Ids : j # i => review'[j] = review[j]
  BY <1>0, <1>1 DEF Row
<1>3. CASE i \in Reqs /\ s = "deleted"
  <2>1. Book!Vanish(SlotOf(i))
    <3>1. {} \in SUBSET Reqs  OBVIOUS
    <3> QED  BY <1>1, <1>3, <3>1, VanishBook
  <2>2. SlotOf(i) \in Cafes \X Users  BY <1>0, <1>3, SlotOfReq
  <2> QED  BY <1>1, <2>1, <2>2 DEF Book!Next, Book!Moderate
<1>4. CASE ~(i \in Reqs /\ s = "deleted")
  <2>1. Missed' = Missed
    <3>1. ASSUME NEW p \in Reqs, pc[p] = "lock" PROVE Live(row[p])' <=> Live(row[p])
      <4>1. row[p] \in Reqs /\ row[p] \in Ids /\ row'[p] = row[p]
        BY <1>0, <1>1, <3>1, RowIsReq, ReqIsId DEF Owning
      <4>2. row[p] = i => s \in LiveStatuses  BY <1>4, <4>1 DEF LiveStatuses
      <4> QED  BY <1>1, <1>2, <4>1, <4>2 DEF Live
    <3> QED  BY <1>1, <3>1 DEF Missed
  <2>2. CASE i \in Reqs
    <3>1. s \in {"approved", "rejected"} /\ SlotOf(i) \in Cafes \X Users
      BY <1>0, <1>4, <2>2, SlotOfReq
    <3>2. Shelves[SlotOf(i)] = Entry(i)  BY <1>0, <1>1, <2>2, <3>1 DEF ShelfOK
    <3>3. Shelves'[SlotOf(i)] = Entry(i)'
      <4>1. Live(i)' /\ SlotOf(i)' = SlotOf(i)
        BY <1>1, <1>2, <3>1 DEF Live, LiveStatuses, SlotOf
      <4> QED  BY <1>0, <2>2, <3>1, <4>1 DEF ShelfOK
    <3>4. Entry(i)' = [Entry(i) EXCEPT !.status = s]  BY <1>1, <1>2 DEF Entry
    <3>5. Shelves' = [Shelves EXCEPT ![SlotOf(i)] = [Entry(i) EXCEPT !.status = s]]
      <4>1. \A j \in Reqs : j # i => review'[j] = review[j] /\ rating'[j] = rating[j]
        BY <1>1, <1>2, ReqIsId
      <4> QED  BY <1>0, <1>1, <2>2, <3>3, <3>4, <4>1, OneShelf
    <3>6. Entry(i) # Absent  BY <1>1 DEF Entry, Absent, Live, LiveStatuses
    <3>7. Shelves' = [Shelves EXCEPT ![SlotOf(i)].status = s]
      BY <3>2, <3>5
    <3> QED
      BY <1>1, <2>1, <3>1, <3>2, <3>6, <3>7, BookNames DEF Book!Next, Book!Moderate
  <2>3. CASE i \notin Reqs
    <3>1. \A j \in Reqs : review'[j] = review[j]  BY <1>2, <2>3, ReqIsId
    <3>2. ASSUME NEW t \in Cafes \X Users PROVE Shelves'[t] = Shelves[t]
      BY <1>0, <1>1, <3>1, OtherShelves
    <3>3. Shelves' = Shelves  BY <3>2 DEF Shelves
    <3> QED  BY <1>1, <2>1, <3>3 DEF Book!vars
  <2> QED  BY <2>2, <2>3
<1> QED  BY <1>3, <1>4

\* Every step of a request is one of ReviewBook, or changes nothing there.
LEMMA StepBook ==
    ASSUME BookInv, BookInv', NEW q \in Reqs, Step(q) \/ Fault(q)
    PROVE  Book!Next \/ UNCHANGED Book!vars
<1> USE DEF tables, world, txn
<1>0. /\ TypeInv /\ pc \in [Reqs -> Locations] /\ row \in [Reqs -> Ids \cup {NoId}]
      /\ ret \in [Reqs -> Returns] /\ call[q].op \in Writes \cup {"mine", "list"}
  BY CallsAreTyped DEF BookInv, TypeInv, TypeOK, CallType
<1>1. ASSUME NEW error, NEW code, Abort(q, error, code), call' = call,
             pc[q] \in {"select", "insert", "find", "lock", "clear", "rate", "commit"},
             \/ /\ error = "exists"
                /\ pc[q] \in {"select", "insert"}
                /\ \E i \in Ids : OwnLive(q, i)
             \/ /\ error = "notfound"
                /\ \/ pc[q] = "find" /\ ~ \E i \in Ids : OwnLive(q, i)
                   \/ pc[q] = "lock" /\ ~Live(row[q])
             \/ error = "err"
      PROVE  Book!Next
  BY <1>1, AbortBook DEF Book!Next
\* Reads, and the statements of a transaction that is not done yet
<1>2. ASSUME UNCHANGED <<review, rating, call, ret>>, pc[q] # "lock" \/ Live(row[q]),
             NEW l, pc' = [pc EXCEPT ![q] = l], l = "lock" => Live(row[q])',
             \A p \in Reqs \ {q} : row'[p] = row[p]
      PROVE  UNCHANGED Book!vars
  <2>1. Missed' = Missed \ {q}  BY <1>0, <1>2, MissedStep DEF Live
  <2>2. q \notin Missed  BY <1>2 DEF Missed
  <2> QED  BY <1>2, <2>1, <2>2, SameShelves DEF Book!vars
<1>3. CASE Authenticate(q) \/ CafeIDByLocationID(q)
  <2>1. PICK l : pc' = [pc EXCEPT ![q] = l] /\ l # "lock"
    BY <1>0, <1>3 DEF Authenticate, CafeIDByLocationID, Reply, Goto, FirstStatement, Writes
  <2>2. UNCHANGED <<review, rating, call, ret, row>> /\ pc[q] # "lock"
    BY <1>3 DEF Authenticate, CafeIDByLocationID
  <2> QED  BY <1>2, <2>1, <2>2
<1>4. CASE CreateSelect(q)
  <2>1. CASE Abort(q, "exists", "409") /\ \E i \in Ids : OwnLive(q, i)
    BY <1>1, <1>4, <2>1 DEF CreateSelect
  <2>2. CASE Goto(q, "insert") /\ UNCHANGED <<tables, txn, ret, page, resp>>
    BY <1>2, <1>4, <2>2 DEF CreateSelect, Goto
  <2> QED  BY <1>4, <2>1, <2>2 DEF CreateSelect
<1>5. CASE CreateInsert(q)
  <2>1. CASE Abort(q, "exists", "409") /\ \E i \in Ids : OwnLive(q, i)
    BY <1>1, <1>5, <2>1 DEF CreateInsert
  <2>2. CASE /\ row' = [row EXCEPT ![q] = q] /\ Goto(q, "clear")
             /\ UNCHANGED <<tables, draft, todo, ret, page, resp>>
    BY <1>0, <1>2, <1>5, <2>2 DEF CreateInsert, Goto
  <2> QED  BY <1>5, <2>1, <2>2 DEF CreateInsert
<1>6. CASE FindOwn(q)
  <2>1. CASE Abort(q, "notfound", "404") /\ ~ \E i \in Ids : OwnLive(q, i)
    BY <1>1, <1>6, <2>1 DEF FindOwn
  <2>2. ASSUME NEW i \in Ids, OwnLive(q, i), row' = [row EXCEPT ![q] = i], Goto(q, "lock"),
               UNCHANGED <<tables, draft, todo, ret, page, resp>>
        PROVE  UNCHANGED Book!vars
    <3>1. Live(row[q])'  BY <1>0, <2>2 DEF OwnLive, Live
    <3> QED  BY <1>0, <1>2, <1>6, <2>2, <3>1 DEF FindOwn, Goto
  <2> QED  BY <1>6, <2>1, <2>2 DEF FindOwn
<1>7. CASE LostRow(q)
  BY <1>1, <1>7 DEF LostRow, Rechecked
<1>8. CASE UpdateRow(q)
  BY <1>2, <1>8 DEF UpdateRow, Rechecked, Goto
<1>9. CASE SoftDelete(q)
  <2>1. Book!Delete(q)
    BY <1>9, DeleteBook DEF SoftDelete, Rechecked, Reply, Goto, EndTxn
  <2> QED  BY <2>1 DEF Book!Next
<1>10. CASE ClearRatings(q) \/ InsertRating(q)
  <2>1. PICK l : pc' = [pc EXCEPT ![q] = l] /\ l # "lock"
    BY <1>10 DEF ClearRatings, InsertRating, Goto
  <2>2. UNCHANGED <<review, rating, call, ret, row>> /\ pc[q] # "lock"
    BY <1>10 DEF ClearRatings, InsertRating
  <2> QED  BY <1>2, <2>1, <2>2
<1>11. CASE RatingRefused(q) \/ DeadlockVictim(q)
  <2>1. pc[q] = "rate"
    BY <1>11 DEF RatingRefused, DeadlockVictim, Deadlocked, WaitsFor
  <2>2. Abort(q, "err", "500") /\ call' = call
    BY <1>11 DEF RatingRefused, DeadlockVictim
  <2> QED  BY <1>1, <2>1, <2>2
<1>12. CASE Commit(q)
  <2>1. Book!Create(q) \/ Book!Update(q)
    BY <1>12, CommitBook DEF Commit, Goto, EndTxn
  <2> QED  BY <2>1 DEF Book!Next
<1>13. CASE Mine(q) \/ VisibleReviews(q) \/ RatingsByReviewIDs(q)
  <2>1. PICK l : pc' = [pc EXCEPT ![q] = l] /\ l # "lock"
    BY <1>13 DEF Mine, VisibleReviews, RatingsByReviewIDs, Reply, Goto
  <2>2. UNCHANGED <<review, rating, call, ret, row>> /\ pc[q] # "lock"
    BY <1>13 DEF Mine, VisibleReviews, RatingsByReviewIDs
  <2> QED  BY <1>2, <2>1, <2>2
<1>14. CASE Fail(q)
  <2>1. /\ UNCHANGED <<review, rating, call>> /\ pc' = [pc EXCEPT ![q] = "done"]
        /\ row' = [row EXCEPT ![q] = NoId] /\ \A p \in Reqs \ {q} : row'[p] = row[p]
    BY <1>0, <1>14 DEF Fail, Reply, Goto, EndTxn
  <2>2. Shelves' = Shelves  BY <2>1, SameShelves
  <2>3. Missed' = Missed \ {q}  BY <1>0, <2>1, MissedStep DEF Live
  <2>4. CASE ret[q] = "none" /\ call[q].op \in Writes
    <3>1. ret' = [ret EXCEPT ![q] = "err"]  BY <1>14, <2>4 DEF Fail
    <3>2. Book!Fail(q)
      BY <2>1, <2>2, <2>3, <2>4, <3>1, BookNames DEF Book!Fail, Writes
    <3> QED  BY <3>2 DEF Book!Next
  <2>5. CASE ~(ret[q] = "none" /\ call[q].op \in Writes)
    <3>1. ret' = ret  BY <1>0, <1>14, <2>5 DEF Fail
    <3>2. q \notin Missed  BY <2>5, WriterCalls DEF Missed
    <3> QED  BY <2>1, <2>2, <2>3, <3>1, <3>2 DEF Book!vars
  <2> QED  BY <2>4, <2>5
<1>15. CASE CommitUnknown(q)
  <2>1. CASE pc[q] = "commit" /\ Apply(q)
    <3>1. Book!Create(q) \/ Book!Update(q)
      BY <1>15, <2>1, CommitBook DEF CommitUnknown, Reply, Goto, EndTxn
    <3> QED  BY <3>1 DEF Book!Next
  <2>2. CASE /\ pc[q] = "lock" /\ call[q].op = "delete" /\ Rechecked(q)
             /\ review' = [review EXCEPT ![row[q]].status = "deleted"]
             /\ UNCHANGED rating
    <3>1. Book!Delete(q)
      BY <1>15, <2>2, DeleteBook DEF CommitUnknown, Rechecked, Reply, Goto, EndTxn
    <3> QED  BY <3>1 DEF Book!Next
  <2> QED  BY <1>15, <2>1, <2>2 DEF CommitUnknown
<1> QED
  BY <1>3, <1>4, <1>5, <1>6, <1>7, <1>8, <1>9, <1>10, <1>11, <1>12, <1>13, <1>14, <1>15
  DEF Step, Fault

LEMMA NextBook == BookInv /\ BookInv' /\ [Next]_vars => [Book!Next]_(Book!vars)
<1> SUFFICES ASSUME BookInv, BookInv', [Next]_vars
             PROVE  Book!Next \/ UNCHANGED Book!vars
  OBVIOUS
<1>1. ASSUME UNCHANGED <<tables, requests>> PROVE UNCHANGED Book!vars
  <2>1. Missed' = Missed  BY <1>1 DEF Missed, Live, tables, requests, txn
  <2> QED  BY <1>1, <2>1, SameShelves DEF Book!vars, tables, requests
<1>2. CASE External
  <2>1. ASSUME NEW u \in Users, NEW b \in BOOLEAN, SetActive(u, b) PROVE UNCHANGED Book!vars
    BY <1>1, <2>1 DEF SetActive
  <2>2. ASSUME NEW c \in Cafes, NEW b \in BOOLEAN, SetOpen(c, b) PROVE UNCHANGED Book!vars
    BY <1>1, <2>2 DEF SetOpen
  <2> QED  BY <1>2, <2>1, <2>2, ModerateBook DEF External
<1>3. CASE UNCHANGED vars  BY <1>1, <1>3 DEF vars, tables, requests, txn
<1> QED  BY <1>2, <1>3, StepBook DEF Next

LEMMA InitBook == Init => Book!Init
<1> SUFFICES ASSUME Init PROVE Book!Init  OBVIOUS
<1>1. \A q \in Reqs : ~Live(q)
  BY ReqIsId, DistinctAssumption DEF Init, Live, LiveStatuses
<1>2. ASSUME NEW s PROVE Shelf(s) = Absent
  <2>1. {q \in Reqs : Live(q) /\ <<call[q].cafe, call[q].user>> = s} = {}  BY <1>1
  <2> QED  BY <2>1 DEF Shelf, Absent
<1>3. Shelves = [s \in Cafes \X Users |-> Absent]  BY <1>2 DEF Shelves
<1>4. Missed = {}  BY DEF Init, Missed
<1> QED  BY <1>3, <1>4, BookNames DEF Book!Init, Init

\* Reviews implements ReviewBook: the writes of all users are atomic, and what
\* each one is told is true, for any requests, users and cafes.
THEOREM ReviewsImplementBook == Spec => ImplementsBook
<1>1. Spec => []BookInv
  BY TypeAlways, SlotsAlways, WriterAlways, MatchAlways, PTL DEF BookInv
<1> QED  BY <1>1, InitBook, NextBook, PTL DEF Spec, ImplementsBook, Book!Spec

----------------------------------------------------------------------------
(* What a POST or PUT is answered *)

\* Only a request that is about to read ratings has read a review, and only one
\* that is done has an answer.
Unanswered ==
    \A q \in Reqs : /\ pc[q] # "ratings" => page[q] = {}
                    /\ pc[q] # "done" => resp[q] = NoResponse

\* What q has read back is a review of its slot in a state that it was told of,
\* and the ratings of that review are those of one.
ReadOK(q) ==
    \A r \in page[q] :
        /\ r.id \in Reqs
        /\ SlotOf(r.id) = SlotOf(q)
        /\ \E v \in told[q] : r.status = v.status /\ r.body = v.body
        /\ \E v \in told[q] : rating[r.id] = v.ratings

ToldOK(q) == ReadsBack(q) => Shelves[SlotOf(q)] \in told[q] /\ ReadOK(q)

AnswerInv == Unanswered /\ \A q \in Reqs : ToldOK(q)

LEMMA UnansweredNext ==
    ASSUME TypeInv, Unanswered, [Next]_vars PROVE Unanswered'
<1>0. /\ pc \in [Reqs -> Locations] /\ page \in [Reqs -> SUBSET Read]
      /\ resp \in [Reqs -> [code: Codes, items: SUBSET Item]]
  BY DEF TypeInv, TypeOK
<1>1. ASSUME NEW q \in Reqs, NEW l, NEW a, NEW P,
             pc' = [pc EXCEPT ![q] = l], resp' = [resp EXCEPT ![q] = a],
             page' = [page EXCEPT ![q] = P], l # "ratings" => P = {},
             l # "done" => a = NoResponse
      PROVE  Unanswered'
  BY <1>0, <1>1 DEF Unanswered
<1>2. ASSUME NEW q \in Reqs, Step(q) \/ Fault(q) PROVE Unanswered'
  <2> DEFINE a == resp'[q]
             P == page'[q]
  <2>1. \E l : pc' = [pc EXCEPT ![q] = l]
    BY <1>2 DEF Step, Fault, Authenticate, CafeIDByLocationID, CreateSelect, CreateInsert,
       FindOwn, LostRow, UpdateRow, SoftDelete, ClearRatings, InsertRating, RatingRefused,
       DeadlockVictim, Commit, Mine, VisibleReviews, RatingsByReviewIDs, Fail, CommitUnknown,
       Abort, Reply, Goto
  <2>2. resp' = [resp EXCEPT ![q] = a]
    BY <1>0, <1>2 DEF Step, Fault, Authenticate, CafeIDByLocationID, CreateSelect,
       CreateInsert, FindOwn, LostRow, UpdateRow, SoftDelete, ClearRatings, InsertRating,
       RatingRefused, DeadlockVictim, Commit, Mine, VisibleReviews, RatingsByReviewIDs, Fail,
       CommitUnknown, Abort, Reply
  <2>3. page' = [page EXCEPT ![q] = P]
    BY <1>0, <1>2 DEF Step, Fault, Authenticate, CafeIDByLocationID, CreateSelect,
       CreateInsert, FindOwn, LostRow, UpdateRow, SoftDelete, ClearRatings, InsertRating,
       RatingRefused, DeadlockVictim, Commit, Mine, VisibleReviews, RatingsByReviewIDs, Fail,
       CommitUnknown, Abort
  <2>4. pc[q] # "done"
    BY <1>2 DEF Step, Fault, Authenticate, CafeIDByLocationID, CreateSelect, CreateInsert,
       FindOwn, LostRow, UpdateRow, SoftDelete, ClearRatings, InsertRating, RatingRefused,
       DeadlockVictim, Deadlocked, WaitsFor, Commit, Mine, VisibleReviews,
       RatingsByReviewIDs, Fail, CommitUnknown
  <2>5. pc'[q] # "ratings" => P = {}
    BY <1>0, <1>2 DEF Unanswered, Step, Fault, Authenticate, CafeIDByLocationID,
       CreateSelect, CreateInsert, FindOwn, LostRow, UpdateRow, SoftDelete, ClearRatings,
       InsertRating, RatingRefused, DeadlockVictim, Deadlocked, WaitsFor, Commit, Mine,
       VisibleReviews, RatingsByReviewIDs, Fail, CommitUnknown, Abort, Reply, Goto
  <2>6. pc'[q] # "done" => a = NoResponse
    BY <1>0, <1>2, <2>4 DEF Unanswered, Step, Fault, Authenticate, CafeIDByLocationID,
       CreateSelect, CreateInsert, FindOwn, LostRow, UpdateRow, SoftDelete, ClearRatings,
       InsertRating, RatingRefused, DeadlockVictim, Commit, Mine, VisibleReviews,
       RatingsByReviewIDs, Fail, CommitUnknown, Abort, Reply, Goto
  <2>7. PICK l : pc' = [pc EXCEPT ![q] = l]  BY <2>1
  <2>8. pc'[q] = l  BY <1>0, <2>7
  <2> HIDE DEF a, P
  <2> QED  BY <1>1, <2>2, <2>3, <2>5, <2>6, <2>7, <2>8
<1>3. CASE External \/ UNCHANGED vars
  BY <1>3 DEF External, Moderate, SetActive, SetOpen, requests, vars, Unanswered
<1> QED  BY <1>2, <1>3 DEF Next

\* A request begins to read back when its transaction is committed.
LEMMA ReadsBackFrom ==
    ASSUME BookInv, [Next]_vars, NEW q \in Reqs, ReadsBack(q)', ~ReadsBack(q)
    PROVE  Commit(q)
<1>0. /\ pc \in [Reqs -> Locations] /\ call' = call
      /\ pc[q] = "visible" => call[q].op = "list"
      /\ call[q].op \in {"create", "update"}
  BY CallFixed DEF BookInv, TypeInv, TypeOK, WriterInv, WriterOK, ReadsBack
<1>1. pc'[q] \in {"reread", "ratings"} /\ pc[q] \notin {"reread", "ratings"}
  BY <1>0 DEF ReadsBack
<1>2. ASSUME NEW p \in Reqs, Step(p) \/ Fault(p), ~Commit(q) PROVE FALSE
  <2>1. \E l : pc' = [pc EXCEPT ![p] = l]
    BY <1>2 DEF Step, Fault, Authenticate, CafeIDByLocationID, CreateSelect, CreateInsert,
       FindOwn, LostRow, UpdateRow, SoftDelete, ClearRatings, InsertRating, RatingRefused,
       DeadlockVictim, Commit, Mine, VisibleReviews, RatingsByReviewIDs, Fail, CommitUnknown,
       Abort, Reply, Goto
  <2>2. p = q  BY <1>0, <1>1, <2>1
  <2>3. CASE CafeIDByLocationID(q)
    BY <1>0, <1>1, <2>3 DEF CafeIDByLocationID, Reply, Goto, FirstStatement
  <2>4. CASE ~CafeIDByLocationID(q)
    BY <1>0, <1>1, <1>2, <2>2, <2>4 DEF Step, Fault, Authenticate, CreateSelect,
       CreateInsert, FindOwn, LostRow, UpdateRow, SoftDelete, ClearRatings, InsertRating,
       RatingRefused, DeadlockVictim, Mine, VisibleReviews, RatingsByReviewIDs, Fail,
       CommitUnknown, Abort, Reply, Goto
  <2> QED  BY <2>3, <2>4
<1>3. CASE External \/ UNCHANGED vars
  BY <1>1, <1>3 DEF External, Moderate, SetActive, SetOpen, requests, vars
<1> QED  BY <1>2, <1>3 DEF Next

\* It is then told of what it has just written.
LEMMA ToldFirst ==
    ASSUME BookInv, BookInv', Unanswered, Unanswered', [Next]_vars, NEW q \in Reqs, Commit(q),
           told'[q] = {Book!Submitted(q)}
    PROVE  ToldOK(q)'
<1>0. /\ pc \in [Reqs -> Locations] /\ call' = call /\ SlotOf(q) \in Cafes \X Users
      /\ TypeInv /\ TypeOK
  BY CallFixed, SlotOfReq DEF BookInv, TypeInv, TypeOK
<1>1. Book!Create(q) \/ Book!Update(q)
  BY <1>0, CommitBook DEF Commit, Goto, EndTxn
<1>2. Shelves' = [Shelves EXCEPT ![SlotOf(q)] = Book!Submitted(q)]
  BY <1>1, BookNames DEF Book!Create, Book!Update
<1>3. Shelves'[SlotOf(q)] = Book!Submitted(q)  BY <1>0, <1>2 DEF Shelves
<1>4. SlotOf(q)' = SlotOf(q)  BY <1>0 DEF SlotOf
<1>5. page'[q] = {}  BY <1>0 DEF Commit, Goto, Unanswered
<1> QED  BY <1>3, <1>4, <1>5 DEF ToldOK, ReadOK

\* And afterwards of each later state.  What it has read stays in the table:
\* only a COMMIT changes the ratings, and then of a review that lives.
LEMMA ReadKept ==
    ASSUME BookInv, BookInv', [Next]_vars, NEW q \in Reqs, ReadOK(q),
           told[q] \subseteq told'[q], Shelves'[SlotOf(q)] \in told'[q],
           page'[q] \subseteq page[q]
    PROVE  ReadOK(q)'
<1>0. /\ call' = call /\ TypeInv /\ TypeOK /\ TableStep /\ ShelfOK'
      /\ rating \in [Ids -> SUBSET Score] /\ review \in [Ids -> Row]
      /\ SlotOf(q) \in Cafes \X Users
  BY CallFixed, TableSteps, ShelvesAreRightNext, SlotOfReq DEF BookInv, TypeInv, TypeOK
<1>1. \A p : SlotOf(p)' = SlotOf(p)  BY <1>0 DEF SlotOf
<1> SUFFICES ASSUME NEW r \in page'[q]
             PROVE  /\ r.id \in Reqs
                    /\ SlotOf(r.id) = SlotOf(q)
                    /\ \E v \in told'[q] : r.status = v.status /\ r.body = v.body
                    /\ \E v \in told'[q] : rating'[r.id] = v.ratings
  BY <1>1 DEF ReadOK
<1>2. /\ r.id \in Reqs /\ SlotOf(r.id) = SlotOf(q)
      /\ \E v \in told'[q] : r.status = v.status /\ r.body = v.body
      /\ \E v \in told'[q] : rating[r.id] = v.ratings
  BY DEF ReadOK
<1>3. CASE rating'[r.id] = rating[r.id]  BY <1>2, <1>3
<1>4. CASE rating'[r.id] # rating[r.id]
  <2>1. PICK p \in Reqs : Apply(p)  BY <1>0, <1>4 DEF TableStep, tables
  <2>2. r.id = row[p]  BY <1>0, <1>2, <1>4, <2>1, ReqIsId DEF Apply
  <2>3. review'[r.id].status = "pending"  BY <1>0, <1>2, <2>1, <2>2, ReqIsId DEF Apply
  <2>4. Live(r.id)'  BY <2>3 DEF Live, LiveStatuses
  <2>5. PICK i \in Reqs : i = r.id  BY <1>2
  <2>6. Shelves'[SlotOf(q)] = Entry(i)'  BY <1>0, <1>1, <1>2, <2>4, <2>5 DEF ShelfOK
  <2>7. Shelves'[SlotOf(q)].ratings = rating'[r.id]  BY <2>5, <2>6 DEF Entry
  <2> QED  BY <1>2, <2>7
<1> QED  BY <1>3, <1>4

\* Mine reads what is on the shelf.
LEMMA ReadMine ==
    ASSUME BookInv, NEW q \in Reqs, Mine(q), pc'[q] = "ratings", call' = call,
           Shelves[SlotOf(q)] \in told[q], told'[q] = told[q]
    PROVE  ReadOK(q)'
<1>0. /\ TypeOK /\ ShelfOK /\ page \in [Reqs -> SUBSET Read]
      /\ pc \in [Reqs -> Locations] /\ SlotOf(q) \in Cafes \X Users
  BY ShelvesAreRight, SlotOfReq DEF BookInv, TypeInv, TypeOK
<1>1. PICK i \in Ids : OwnLive(q, i) /\ page' = [page EXCEPT ![q] = {ReadRow(i)}]
  BY <1>0 DEF Mine, MineRow, Reply, Goto
<1>2. Live(i) /\ SameSlot(i, q)  BY <1>0, <1>1, OwnLiveSlot
<1>3. i \in Reqs  BY <1>0, <1>2, RequestSlot DEF SameSlot, Author, Ids
<1>4. SlotOf(i) = SlotOf(q)  BY <1>0, <1>2, <1>3, SlotOfReq
<1>5. Shelves[SlotOf(q)] = Entry(i)  BY <1>0, <1>2, <1>3, <1>4 DEF ShelfOK
<1>6. /\ page'[q] = {ReadRow(i)} /\ rating' = rating
      /\ \A p : SlotOf(p)' = SlotOf(p)
  BY <1>0, <1>1 DEF Mine, tables, SlotOf
<1>7. Entry(i) \in told'[q]  BY <1>5
<1> QED  BY <1>3, <1>4, <1>6, <1>7 DEF ReadOK, ReadRow, Entry

LEMMA AnswerNext ==
    BookInv /\ BookInv' /\ AnswerInv /\ [HNext]_hvars => AnswerInv'
<1> SUFFICES ASSUME BookInv, BookInv', AnswerInv, [HNext]_hvars PROVE AnswerInv'
  OBVIOUS
<1>0. /\ [Next]_vars /\ TypeInv /\ TypeOK /\ call' = call
      /\ pc \in [Reqs -> Locations] /\ page \in [Reqs -> SUBSET Read]
  BY CallFixed DEF HNext, hvars, BookInv, TypeInv, TypeOK
<1>1. Unanswered /\ Unanswered'  BY <1>0, UnansweredNext DEF AnswerInv
<1>2. ASSUME NEW q \in Reqs, ReadsBack(q)' PROVE ToldOK(q)'
  <2>0. SlotOf(q)' = SlotOf(q) /\ Slot(q) = SlotOf(q)  BY <1>0 DEF SlotOf, Slot
  <2>1. CASE ~ReadsBack(q)
    <3>1. Commit(q)  BY <1>0, <1>2, <2>1, ReadsBackFrom
    <3>2. vars' # vars  BY <1>0, <3>1 DEF Commit, Goto, vars
    <3>3. told'[q] = {Book!Submitted(q)}  BY <1>2, <2>1, <3>2 DEF HNext, hvars, Told
    <3> QED  BY <1>0, <1>1, <3>1, <3>3, ToldFirst
  <2>2. CASE ReadsBack(q)
    <3>1. Shelves[SlotOf(q)] \in told[q] /\ ReadOK(q)  BY <2>2 DEF AnswerInv, ToldOK
    <3>2. CASE UNCHANGED hvars
      <4>1. /\ Shelves' = Shelves /\ told' = told /\ page' = page
        BY <3>2, SameShelves DEF hvars, vars
      <4>2. ReadOK(q)'  BY <1>0, <3>1, <4>1, ReadKept
      <4> QED  BY <2>0, <3>1, <4>1, <4>2 DEF ToldOK
    <3>3. CASE HNext
      <4>1. told[q] \subseteq told'[q] /\ Shelves'[SlotOf(q)] \in told'[q]
        BY <1>2, <2>0, <2>2, <3>1, <3>3 DEF HNext, Told
      <4>2. CASE page'[q] \subseteq page[q]
        <5>1. ReadOK(q)'  BY <1>0, <3>1, <4>1, <4>2, ReadKept
        <5> QED  BY <2>0, <4>1, <5>1 DEF ToldOK
      <4>3. CASE Mine(q)
        <5>1. Shelves' = Shelves  BY <1>0, <4>3, SameShelves DEF Mine, tables
        <5>2. told'[q] = told[q]
          BY <1>2, <2>2, <3>3, <5>1 DEF HNext, Told
        <5>3. pc'[q] = "ratings"
          BY <1>0, <1>2, <4>3 DEF Mine, Reply, Goto, ReadsBack
        <5>4. ReadOK(q)'  BY <1>0, <3>1, <4>3, <5>2, <5>3, ReadMine
        <5> QED  BY <2>0, <4>1, <5>4 DEF ToldOK
      <4>4. \/ page'[q] \subseteq page[q] \/ Mine(q)
        <5>1. pc[q] # "visible"  BY <2>2 DEF ReadsBack
        <5>2. ASSUME NEW p \in Reqs, Step(p) \/ Fault(p), ~(p = q /\ Mine(p))
              PROVE  page'[q] \subseteq page[q]
          BY <1>0, <5>1, <5>2 DEF Step, Fault, Authenticate, CafeIDByLocationID,
             CreateSelect, CreateInsert, FindOwn, LostRow, UpdateRow, SoftDelete,
             ClearRatings, InsertRating, RatingRefused, DeadlockVictim, Commit, Mine,
             VisibleReviews, RatingsByReviewIDs, Fail, CommitUnknown, Abort
        <5>3. CASE External
          BY <5>3 DEF External, Moderate, SetActive, SetOpen, requests
        <5> QED  BY <3>3, <5>2, <5>3 DEF HNext, Next
      <4> QED  BY <4>2, <4>3, <4>4
    <3> QED  BY <3>2, <3>3
  <2> QED  BY <2>1, <2>2
<1>3. \A q \in Reqs : ToldOK(q)'  BY <1>2 DEF ToldOK
<1> QED  BY <1>1, <1>3 DEF AnswerInv

\* What the answer shows is then what the request was told of.
LEMMA AnswersAreTold ==
    ASSUME BookInv, AnswerInv, [Next]_vars, NEW q \in Reqs, ReadsBack(q)
    PROVE  /\ \A x \in resp'[q].items :
                 /\ \E v \in told[q] : x.status = v.status /\ x.body = v.body
                 /\ \E v \in told[q] : x.ratings = v.ratings
           /\ resp'[q].code = "404" => Book!NoEntry \in told[q]
<1>0. /\ TypeOK /\ resp \in [Reqs -> [code: Codes, items: SUBSET Item]]
      /\ ShelfOK /\ SlotOf(q) \in Cafes \X Users
      /\ pc[q] \in {"reread", "ratings"}
      /\ Shelves[SlotOf(q)] \in told[q] /\ ReadOK(q) /\ resp[q] = NoResponse
  BY ShelvesAreRight, SlotOfReq
  DEF BookInv, TypeInv, TypeOK, ReadsBack, AnswerInv, ToldOK, Unanswered
<1>1. CASE RatingsByReviewIDs(q)
  <2>1. /\ resp'[q].items = {ToItem(r) : r \in page[q]}
        /\ resp'[q].code \in {"200", "201"}
    BY <1>0, <1>1 DEF RatingsByReviewIDs, Reply
  <2>2. ASSUME NEW r \in page[q]
        PROVE  /\ \E v \in told[q] : ToItem(r).status = v.status /\ ToItem(r).body = v.body
               /\ \E v \in told[q] : ToItem(r).ratings = v.ratings
    BY <1>0 DEF ReadOK, ToItem
  <2> QED  BY <2>1, <2>2
<1>2. CASE Mine(q)
  <2>1. resp'[q].items = {}  BY <1>0, <1>2 DEF Mine, Reply, NoResponse
  <2>2. ASSUME resp'[q].code = "404" PROVE Book!NoEntry \in told[q]
    <3>1. ~ \E i \in Ids : OwnLive(q, i)
      BY <1>0, <1>2, <2>2 DEF Mine, MineRow, NoResponse
    <3>2. Shelves[SlotOf(q)] = Absent  BY <3>1, OwnOnShelf
    <3> QED  BY <1>0, <3>2, BookNames
  <2> QED  BY <2>1, <2>2
<1>3. CASE ~RatingsByReviewIDs(q) /\ ~Mine(q)
  <2>1. ASSUME NEW p \in Reqs, Step(p) \/ Fault(p)
        PROVE  resp'[q] = resp[q] \/ resp'[q] = [code |-> "500", items |-> {}]
    <3>1. CASE p # q
      <4>1. \E a : resp' = [resp EXCEPT ![p] = a]
        <5>1. resp' = [resp EXCEPT ![p] = resp'[p]]
          BY <1>0, <2>1 DEF Step, Fault, Authenticate, CafeIDByLocationID, CreateSelect,
             CreateInsert, FindOwn, LostRow, UpdateRow, SoftDelete, ClearRatings,
             InsertRating, RatingRefused, DeadlockVictim, Commit, Mine, VisibleReviews,
             RatingsByReviewIDs, Fail, CommitUnknown, Abort, Reply
        <5> QED  BY <5>1
      <4> QED  BY <1>0, <3>1, <4>1
    <3>2. CASE p = q
      BY <1>0, <1>3, <2>1, <3>2 DEF Step, Fault, Authenticate, CafeIDByLocationID,
         CreateSelect, CreateInsert, FindOwn, LostRow, UpdateRow, SoftDelete, ClearRatings,
         InsertRating, RatingRefused, DeadlockVictim, Deadlocked, WaitsFor, Commit,
         VisibleReviews, Fail, CommitUnknown, Reply
    <3> QED  BY <3>1, <3>2
  <2>2. CASE External \/ UNCHANGED vars
    <3>1. resp' = resp
      BY <2>2 DEF External, Moderate, SetActive, SetOpen, requests, vars
    <3> QED  BY <1>0, <3>1 DEF NoResponse
  <2> QED  BY <1>0, <2>1, <2>2 DEF Next, NoResponse
<1> QED  BY <1>1, <1>2, <1>3

\* The answer of a POST or PUT is its own write or a later state of the review.
THEOREM AnswerIsOwnOrLaterAlways == HSpec => AnswerIsOwnOrLater
<1>1. HInit => Init /\ AnswerInv
  BY DEF HInit, Init, AnswerInv, Unanswered, ToldOK, ReadsBack
<1>2. [HNext]_hvars => [Next]_vars  BY DEF HNext, hvars
<1>3. HSpec => Spec  BY <1>1, <1>2, PTL DEF HSpec, Spec
<1>4. HSpec => []BookInv
  BY <1>3, TypeAlways, SlotsAlways, WriterAlways, MatchAlways, PTL DEF BookInv
<1>5. BookInv /\ AnswerInv /\ [HNext]_hvars
      => [\A q \in Reqs : ReadsBack(q) =>
             /\ \A x \in resp'[q].items :
                   /\ \E v \in told[q] : x.status = v.status /\ x.body = v.body
                   /\ \E v \in told[q] : x.ratings = v.ratings
             /\ resp'[q].code = "404" => Book!NoEntry \in told[q]]_hvars
  BY <1>2, AnswersAreTold
<1> QED  BY <1>1, <1>4, <1>5, AnswerNext, PTL DEF HSpec, AnswerIsOwnOrLater
=============================================================================
