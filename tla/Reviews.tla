------------------------------- MODULE Reviews -------------------------------
(***************************************************************************)
(* User reviews: the requests of handler/review.go running concurrently    *)
(* against PostgreSQL, one action per statement the repository sends.      *)
(*                                                                         *)
(* PostgreSQL runs every transaction at READ COMMITTED.  The variables     *)
(* review and rating are the committed tables; what a transaction has      *)
(* written and not committed is kept with the request (row, draft) and is  *)
(* seen by nobody else.  A writer that meets another transaction's         *)
(* uncommitted row, or uncommitted unique key, waits for it to end: its    *)
(* action is disabled until then.                                          *)
(*                                                                         *)
(* A review is identified by the request that inserted it, and the text    *)
(* and scores of a write are abstracted to the request that wrote them:    *)
(* body = q says that the row carries exactly what request q submitted.    *)
(***************************************************************************)
EXTENDS Naturals, FiniteSets, SequencesExt

CONSTANTS
    Reqs,       \* the HTTP requests, each is handled once
    Users,      \* the signed-in users
    Cafes,      \* the cafes' locations
    Types,      \* the rating types (rating_type_label)
    Calls,      \* what the requests ask for, a subset of CallType
    Seeds,      \* reviews that are there from the start: partnership reviews
    SeedCafe,   \* the cafe of each of them
    CleanedUp,  \* has 012_user_reviews_cleanup.sql run?
    NoId,       \* no review
    NoUser,     \* cafe_review.user_id is null: a partnership review
    Outside     \* which things happen besides the requests' own steps

Ids == Reqs \cup Seeds

Writes == {"create", "update", "delete"}
CallType == [op: Writes \cup {"mine", "list"}, cafe: Cafes, user: Users,
             types: SUBSET Types]

ASSUME CallsAssumption == Calls \subseteq CallType
ASSUME TypesAssumption == IsFiniteSet(Types)
ASSUME SeedsAssumption == SeedCafe \in [Seeds -> Cafes]
ASSUME CleanedUpAssumption == CleanedUp \in BOOLEAN
ASSUME DistinctAssumption == /\ Reqs \cap Seeds = {}
                             /\ NoId \notin Ids
                             /\ NoUser \notin Users
ASSUME OutsideAssumption ==
    Outside \subseteq {"moderation", "accounts", "locations", "faults"}
\* Before 012 a cafe has one score per type: two seeds cannot both be rated.
ASSUME OldKeyAssumption ==
    \/ CleanedUp
    \/ \A i, j \in Seeds : SeedCafe[i] = SeedCafe[j] => i = j

VARIABLES
    review,  \* cafe_review: status and body of every review
    rating,  \* cafe_rating: the scores of every review
    active,  \* users.status = 'active'
    open,    \* location.status <> 'deleted'
    pc,      \* the statement each request runs next
    call,    \* what each request asks for
    row,     \* the review its transaction inserts, updates or deletes
    draft,   \* the uncommitted cafe_rating rows of that review
    todo,    \* the rating types still to insert, in the order of the INSERT
    ret,     \* what the repository's Create, Update or SoftDelete returned
    page,    \* the reviews read so far for the response
    resp     \* the HTTP response

tables == <<review, rating>>
world == <<active, open>>
txn == <<row, draft, todo>>
vars == <<review, rating, active, open, pc, call, row, draft, todo, ret, page, resp>>

----------------------------------------------------------------------------
(* The shape of the state *)

Statuses == {"absent", "pending", "approved", "rejected", "deleted"}
LiveStatuses == {"pending", "approved", "rejected"}
Row == [status: Statuses, body: Ids]
Score == [type: Types, by: Ids]
Read == [id: Ids, status: Statuses, body: Ids]
Item == [id: Ids, status: Statuses, body: Ids, ratings: SUBSET Score]

Codes == {"none", "200", "201", "204", "401", "404", "409", "500"}
Returns == {"none", "nil", "exists", "notfound", "err"}
Locations == {"auth", "cafe", "select", "insert", "find", "lock", "clear",
              "rate", "commit", "reread", "visible", "ratings", "done"}

NoResponse == [code |-> "none", items |-> {}]

CafeOf(i) == IF i \in Seeds THEN SeedCafe[i] ELSE call[i].cafe
Author(i) == IF i \in Seeds THEN NoUser ELSE call[i].user

\* status <> 'deleted', for a review that is in the table
Live(i) == review[i].status \in LiveStatuses

\* The live review of q's user at q's cafe: what Create, Update and
\* SoftDelete select
OwnLive(q, i) == /\ Live(i)
                 /\ CafeOf(i) = call[q].cafe
                 /\ Author(i) = call[q].user

SameSlot(i, j) == CafeOf(i) = CafeOf(j) /\ Author(i) = Author(j)

\* visibleReviewJoin and visibleReviewCond
Visible(i) == /\ review[i].status = "approved"
              /\ Author(i) = NoUser \/ active[Author(i)]

\* A transaction holds its review's row once its INSERT or UPDATE got it, and
\* its rating rows and keys from its DELETE on, until it is committed or rolled
\* back, whatever becomes of the request.
Holds(q) == row[q] # NoId /\ pc[q] # "lock"
HoldsRatings(q) == Holds(q) /\ pc[q] # "clear"

TypesOf(scores) == {s.type : s \in scores}

----------------------------------------------------------------------------
Init ==
    /\ review = [i \in Ids |-> [status |-> IF i \in Seeds THEN "approved" ELSE "absent",
                                body |-> i]]
    /\ rating = [i \in Ids |-> IF i \in Seeds THEN [type: Types, by: {i}] ELSE {}]
    /\ active = [u \in Users |-> TRUE]
    /\ open = [c \in Cafes |-> TRUE]
    /\ pc = [q \in Reqs |-> "auth"]
    /\ call \in [Reqs -> Calls]
    /\ row = [q \in Reqs |-> NoId]
    /\ draft = [q \in Reqs |-> {}]
    /\ todo = [q \in Reqs |-> <<>>]
    /\ ret = [q \in Reqs |-> "none"]
    /\ page = [q \in Reqs |-> {}]
    /\ resp = [q \in Reqs |-> NoResponse]

----------------------------------------------------------------------------
(* How a request moves on and how it ends *)

Goto(q, l) == pc' = [pc EXCEPT ![q] = l]

Reply(q, code, items) ==
    /\ Goto(q, "done")
    /\ resp' = [resp EXCEPT ![q] = [code |-> code, items |-> items]]

\* The transaction ends: nothing of it is held any more.
EndTxn(q) == /\ row' = [row EXCEPT ![q] = NoId]
             /\ draft' = [draft EXCEPT ![q] = {}]
             /\ todo' = [todo EXCEPT ![q] = <<>>]

\* Mutant: no BeginFunc, and no Rollback on the way out
LeftOpen(q, error, code) ==
    /\ ret' = [ret EXCEPT ![q] = error]
    /\ Reply(q, code, {})
    /\ UNCHANGED <<tables, page, txn>>

\* The repository returns an error: pgx.BeginFunc rolls the transaction back
\* and the handler answers with the error's status code.
Abort(q, error, code) ==
    /\ EndTxn(q)
    /\ ret' = [ret EXCEPT ![q] = error]
    /\ Reply(q, code, {})
    /\ UNCHANGED <<tables, page>>

\* middleware.LoadUser and RequireUser: everything but the public list needs
\* a user whose account is active now; a lookup that fails makes none.
Authenticate(q) ==
    /\ pc[q] = "auth"
    /\ \/ /\ call[q].op = "list" \/ active[call[q].user]
          /\ Goto(q, "cafe")
          /\ UNCHANGED resp
       \/ /\ call[q].op # "list"
          /\ ~active[call[q].user] \/ "faults" \in Outside
          /\ Reply(q, "401", {})
    /\ UNCHANGED <<tables, world, call, txn, ret, page>>

\* What each operation does once the cafe's slug is resolved
FirstStatement(op) == CASE op = "create" -> "select"
                        [] op \in {"update", "delete"} -> "find"
                        [] op = "mine" -> "reread"
                        [] op = "list" -> "visible"

CafeIDByLocationID(q) ==
    /\ pc[q] = "cafe"
    /\ \/ /\ open[call[q].cafe]
          /\ Goto(q, FirstStatement(call[q].op))
          /\ UNCHANGED resp
       \/ /\ ~open[call[q].cafe]
          /\ Reply(q, "404", {})
    /\ UNCHANGED <<tables, world, call, txn, ret, page>>

----------------------------------------------------------------------------
(* Create *)

\* BEGIN; SELECT 1 FROM cafe_review ... AND status <> 'deleted'
CreateSelect(q) ==
    /\ pc[q] = "select"
    /\ \/ /\ \E i \in Ids : OwnLive(q, i)
          /\ Abort(q, "exists", "409")
       \/ /\ ~ \E i \in Ids : OwnLive(q, i)
          /\ Goto(q, "insert")
          /\ UNCHANGED <<tables, txn, ret, page, resp>>
    /\ UNCHANGED <<world, call>>

\* Mutant: no unique index, only Create's own SELECT
NoKeyInFlight(q) == FALSE

\* Another transaction has the key (cafe, user) of idx_cafe_review_cafe_user
\* in flight: it inserted a review with it, or holds the one that has it.
KeyInFlight(q) == \E p \in Reqs \ {q} : Holds(p) /\ SameSlot(p, q)

\* INSERT INTO cafe_review ... 'pending', under idx_cafe_review_cafe_user
CreateInsert(q) ==
    /\ pc[q] = "insert"
    /\ ~KeyInFlight(q)
    /\ \/ /\ \E i \in Ids : OwnLive(q, i)
          /\ Abort(q, "exists", "409")
       \/ /\ ~ \E i \in Ids : OwnLive(q, i)
          /\ row' = [row EXCEPT ![q] = q]
          /\ Goto(q, "clear")
          /\ UNCHANGED <<tables, draft, todo, ret, page, resp>>
    /\ UNCHANGED <<world, call>>

----------------------------------------------------------------------------
(* Update and SoftDelete *)

\* UPDATE cafe_review ... WHERE status <> 'deleted': the rows the statement's
\* snapshot selects.
FindOwn(q) ==
    /\ pc[q] = "find"
    /\ \/ \E i \in Ids :
             /\ OwnLive(q, i)
             /\ row' = [row EXCEPT ![q] = i]
             /\ Goto(q, "lock")
             /\ UNCHANGED <<tables, draft, todo, ret, page, resp>>
       \/ /\ ~ \E i \in Ids : OwnLive(q, i)
          /\ Abort(q, "notfound", "404")
    /\ UNCHANGED <<world, call>>

\* Another transaction holds the row the statement is about to write.
RowInFlight(q) == \E p \in Reqs \ {q} : Holds(p) /\ row[p] = row[q]

\* Mutant: the review is written by id, without status <> 'deleted'
NotRechecked(q) == TRUE

\* The statement waits for a transaction that holds the row; it then checks
\* its WHERE clause again on the row that transaction left.
Rechecked(q) == Live(row[q])

LostRow(q) ==
    /\ pc[q] = "lock"
    /\ ~RowInFlight(q)
    /\ ~Rechecked(q)
    /\ Abort(q, "notfound", "404")
    /\ UNCHANGED <<world, call>>

\* UPDATE ... SET ..., status = 'pending': the new row is the transaction's
UpdateRow(q) ==
    /\ pc[q] = "lock"
    /\ call[q].op = "update"
    /\ ~RowInFlight(q)
    /\ Rechecked(q)
    /\ draft' = [draft EXCEPT ![q] = rating[row[q]]]
    /\ Goto(q, "clear")
    /\ UNCHANGED <<tables, world, call, row, todo, ret, page, resp>>

\* UPDATE ... SET status = 'deleted': a statement on its own, committed when
\* it is done.  The review's ratings stay.
SoftDelete(q) ==
    /\ pc[q] = "lock"
    /\ call[q].op = "delete"
    /\ ~RowInFlight(q)
    /\ Rechecked(q)
    /\ review' = [review EXCEPT ![row[q]].status = "deleted"]
    /\ EndTxn(q)
    /\ ret' = [ret EXCEPT ![q] = "nil"]
    /\ Reply(q, "204", {})
    /\ UNCHANGED <<rating, world, call, page>>

----------------------------------------------------------------------------
(* replaceRatings and the end of the transaction *)

\* Mutant: the DELETE is missing
DeleteNothing(q) == UNCHANGED draft

\* DELETE FROM cafe_rating WHERE review_id = $1
DeleteRatings(q) == draft' = [draft EXCEPT ![q] = {}]

\* The DELETE, and the choice of the order in which Go iterates over the map
\* of the scores to insert; there is no INSERT when there are none.
ClearRatings(q) ==
    /\ pc[q] = "clear"
    /\ DeleteRatings(q)
    /\ \/ /\ call[q].types = {}
          /\ Goto(q, "commit")
          /\ UNCHANGED todo
       \/ /\ call[q].types # {}
          /\ \E order \in SetToSeqs(call[q].types) :
                todo' = [todo EXCEPT ![q] = order]
          /\ Goto(q, "rate")
    /\ UNCHANGED <<tables, world, call, row, ret, page, resp>>

\* Before 012 the key of a score is (cafe, type), and an insert waits for a
\* transaction that inserted or deleted a score with this key.
WaitsFor(q, p) ==
    /\ ~CleanedUp
    /\ p # q
    /\ pc[q] = "rate"
    /\ HoldsRatings(p)
    /\ call[p].cafe = call[q].cafe
    /\ Head(todo[q]) \in TypesOf(draft[p]) \cup TypesOf(rating[row[p]])

\* Review i has a committed score with the key that q is about to insert.
\* After 012 the key is (review, type).
KeyTakenBy(q, i) ==
    IF i = row[q]
    THEN Head(todo[q]) \in TypesOf(draft[q])
    ELSE /\ ~CleanedUp
         /\ CafeOf(i) = call[q].cafe
         /\ Head(todo[q]) \in TypesOf(rating[i])

\* One row of INSERT INTO cafe_rating ... FROM unnest(...)
InsertRating(q) ==
    /\ pc[q] = "rate"
    /\ ~ \E p \in Reqs : WaitsFor(q, p)
    /\ ~ \E i \in Ids : KeyTakenBy(q, i)
    /\ draft' = [draft EXCEPT ![q] = @ \cup {[type |-> Head(todo[q]), by |-> q]}]
    /\ todo' = [todo EXCEPT ![q] = Tail(@)]
    /\ Goto(q, IF Len(todo[q]) = 1 THEN "commit" ELSE "rate")
    /\ UNCHANGED <<tables, world, call, row, ret, page, resp>>

\* The insert violates the unique key of cafe_rating: 500.
RatingRefused(q) ==
    /\ pc[q] = "rate"
    /\ ~ \E p \in Reqs : WaitsFor(q, p)
    /\ \E i \in Ids : KeyTakenBy(q, i)
    /\ Abort(q, "err", "500")
    /\ UNCHANGED <<world, call>>

\* PostgreSQL aborts a transaction that waits in a circle.
Deadlocked(q) == \E S \in SUBSET Reqs :
                     /\ q \in S
                     /\ \A p \in S : \E r \in S : WaitsFor(p, r)

DeadlockVictim(q) ==
    /\ Deadlocked(q)
    /\ Abort(q, "err", "500")
    /\ UNCHANGED <<world, call>>

\* Mutant: a status that review_status_enum does not have
UnknownStatus(q) ==
    /\ review' = [review EXCEPT ![row[q]] = [status |-> "edited", body |-> q]]
    /\ rating' = [rating EXCEPT ![row[q]] = draft[q]]

\* Mutant: UPDATE without status = 'pending'; an edit of an approved review is
\* public before it was moderated
KeepStatus(q) ==
    /\ review' = [review EXCEPT ![row[q]] =
                     [status |-> IF @.status = "absent" THEN "pending" ELSE @.status,
                      body |-> q]]
    /\ rating' = [rating EXCEPT ![row[q]] = draft[q]]

\* Mutant: replaceRatings returns early when there are no ratings, before DELETE
KeepRatings(q) ==
    /\ review' = [review EXCEPT ![row[q]] = [status |-> "pending", body |-> q]]
    /\ rating' = [rating EXCEPT ![row[q]] = IF draft[q] = {} THEN @ ELSE draft[q]]

\* What the transaction's COMMIT does to the tables
Apply(q) ==
    /\ review' = [review EXCEPT ![row[q]] = [status |-> "pending", body |-> q]]
    /\ rating' = [rating EXCEPT ![row[q]] = draft[q]]

Commit(q) ==
    /\ pc[q] = "commit"
    /\ Apply(q)
    /\ EndTxn(q)
    /\ ret' = [ret EXCEPT ![q] = "nil"]
    /\ Goto(q, "reread")
    /\ UNCHANGED <<world, call, page, resp>>

----------------------------------------------------------------------------
(* The reads: Mine, VisibleReviews and, in a statement of its own,         *)
(* RatingsByReviewIDs                                                      *)

ReadRow(i) == [id |-> i, status |-> review[i].status, body |-> review[i].body]

\* Mutant: Mine's WHERE clause without status <> 'deleted'
OwnDeletedToo(q, i) == /\ review[i].status # "absent"
                       /\ CafeOf(i) = call[q].cafe
                       /\ Author(i) = call[q].user

\* What Mine selects
MineRow(q, i) == OwnLive(q, i)

\* GetMine, and the read that CreateMine and UpdateMine answer with
Mine(q) ==
    /\ pc[q] = "reread"
    /\ \/ \E i \in Ids :
             /\ MineRow(q, i)
             /\ page' = [page EXCEPT ![q] = {ReadRow(i)}]
             /\ Goto(q, "ratings")
             /\ UNCHANGED resp
       \/ /\ ~ \E i \in Ids : MineRow(q, i)
          /\ Reply(q, "404", {})
          /\ UNCHANGED page
    /\ UNCHANGED <<tables, world, call, txn, ret>>

\* The page of the public list; ReviewListing models its order and cursor.
VisibleReviews(q) ==
    /\ pc[q] = "visible"
    /\ page' = [page EXCEPT ![q] =
                  {ReadRow(i) : i \in {j \in Ids : /\ CafeOf(j) = call[q].cafe
                                                   /\ Visible(j)}}]
    /\ Goto(q, "ratings")
    /\ UNCHANGED <<tables, world, call, txn, ret, resp>>

\* toReviewItem, with the ratings found for the row's id
ToItem(r) == [id |-> r.id, status |-> r.status, body |-> r.body,
              ratings |-> rating[r.id]]

RatingsByReviewIDs(q) ==
    /\ pc[q] = "ratings"
    /\ Reply(q, IF call[q].op = "create" THEN "201" ELSE "200",
             {ToItem(r) : r \in page[q]})
    /\ page' = [page EXCEPT ![q] = {}]
    /\ UNCHANGED <<tables, world, call, txn, ret>>

----------------------------------------------------------------------------
(* Failures: a lost connection, a cancelled request, a stopping server     *)

\* Any statement may fail; an open transaction is then rolled back.  No
\* statement asks for the ratings of an empty page.
Fail(q) ==
    /\ "faults" \in Outside
    /\ pc[q] \notin {"auth", "done"}
    /\ pc[q] = "ratings" => page[q] # {}
    /\ EndTxn(q)
    /\ page' = [page EXCEPT ![q] = {}]
    /\ ret' = [ret EXCEPT ![q] = IF @ = "none" /\ call[q].op \in Writes THEN "err" ELSE @]
    /\ Reply(q, "500", {})
    /\ UNCHANGED <<tables, world, call>>

\* The connection is lost after the server committed and before the client
\* of the database learned of it.
CommitUnknown(q) ==
    /\ "faults" \in Outside
    /\ \/ /\ pc[q] = "commit"
          /\ Apply(q)
       \/ /\ pc[q] = "lock"
          /\ call[q].op = "delete"
          /\ ~RowInFlight(q)
          /\ Rechecked(q)
          /\ review' = [review EXCEPT ![row[q]].status = "deleted"]
          /\ UNCHANGED rating
    /\ EndTxn(q)
    /\ ret' = [ret EXCEPT ![q] = "err"]
    /\ Reply(q, "500", {})
    /\ UNCHANGED <<world, call, page>>

----------------------------------------------------------------------------
(* Mission control, which writes the same tables (not in this repository)  *)

requests == <<pc, call, txn, ret, page, resp>>

\* A moderator approves or rejects a review, or takes it away.
Moderate(i, s) ==
    /\ "moderation" \in Outside
    /\ Live(i)
    /\ ~ \E p \in Reqs : Holds(p) /\ row[p] = i
    /\ review' = [review EXCEPT ![i].status = s]
    /\ UNCHANGED <<rating, world, requests>>

SetActive(u, b) ==
    /\ "accounts" \in Outside
    /\ active[u] # b
    /\ active' = [active EXCEPT ![u] = b]
    /\ UNCHANGED <<tables, open, requests>>

SetOpen(c, b) ==
    /\ "locations" \in Outside
    /\ open[c] # b
    /\ open' = [open EXCEPT ![c] = b]
    /\ UNCHANGED <<tables, active, requests>>

----------------------------------------------------------------------------
Step(q) ==
    \/ Authenticate(q) \/ CafeIDByLocationID(q)
    \/ CreateSelect(q) \/ CreateInsert(q)
    \/ FindOwn(q) \/ LostRow(q) \/ UpdateRow(q) \/ SoftDelete(q)
    \/ ClearRatings(q) \/ InsertRating(q) \/ RatingRefused(q)
    \/ DeadlockVictim(q) \/ Commit(q)
    \/ Mine(q) \/ VisibleReviews(q) \/ RatingsByReviewIDs(q)

Fault(q) == Fail(q) \/ CommitUnknown(q)

External ==
    \/ \E i \in Ids, s \in {"approved", "rejected", "deleted"} : Moderate(i, s)
    \/ \E u \in Users, b \in BOOLEAN : SetActive(u, b)
    \/ \E c \in Cafes, b \in BOOLEAN : SetOpen(c, b)

Next == (\E q \in Reqs : Step(q) \/ Fault(q)) \/ External

\* Every request runs in a goroutine of its own, and PostgreSQL wakes a waiter
\* when the transaction it waits for ends.
Fairness == \A q \in Reqs : WF_vars(Step(q))

Spec == Init /\ [][Next]_vars /\ Fairness

----------------------------------------------------------------------------
(* Properties *)

\* Every variable has its type.
TypeOK ==
    /\ review \in [Ids -> Row]
    /\ rating \in [Ids -> SUBSET Score]
    /\ active \in [Users -> BOOLEAN]
    /\ open \in [Cafes -> BOOLEAN]
    /\ pc \in [Reqs -> Locations]
    /\ call \in [Reqs -> Calls]
    /\ row \in [Reqs -> Ids \cup {NoId}]
    /\ draft \in [Reqs -> SUBSET Score]
    /\ todo \in [Reqs -> Seq(Types)]
    /\ ret \in [Reqs -> Returns]
    /\ page \in [Reqs -> SUBSET Read]
    /\ resp \in [Reqs -> [code: Codes, items: SUBSET Item]]

\* A user never has two live reviews of one cafe, whatever creates, updates
\* and deletes race: Create's SELECT alone does not see a concurrent INSERT.
OneLiveReview ==
    \A i, j \in Ids : Live(i) /\ Live(j) /\ SameSlot(i, j)
                          /\ Author(i) # NoUser => i = j

\* The rating types submitted with a text
RatedWith == [b \in Ids |-> IF b \in Seeds THEN Types ELSE call[b].types]

\* The ratings of a review in the table are all and only those submitted with
\* its text: replaceRatings swaps them in the transaction that writes the text.
RatingsMatchText ==
    \A i \in Ids :
        review[i].status # "absent" =>
            rating[i] = [type: RatedWith[review[i].body], by: {review[i].body}]

\* A deleted review stays as it was: a PUT that found it before the DELETE
\* committed does not bring it back.
DeletedIsFinal ==
    [][\A i \in Ids : review[i].status = "deleted"
                          => review'[i] = review[i] /\ rating'[i] = rating[i]]_vars

\* Once 012 has run, no PUT or POST loses its write to the unique key of
\* cafe_rating: the ratings it inserts meet no others of the same review.
RatingsNeverCollide ==
    CleanedUp => \A q \in Reqs : pc[q] = "rate" =>
                     /\ ~ \E i \in Ids : KeyTakenBy(q, i)
                     /\ ~ \E p \in Reqs : WaitsFor(q, p)

\* Every request is answered: no wait for a row or a key lasts for ever.
EveryRequestAnswered == \A q \in Reqs : <>(pc[q] = "done")

\* The reviews as ReviewBook sees them
Shelf(s) ==
    LET live == {q \in Reqs : Live(q) /\ <<call[q].cafe, call[q].user>> = s}
    IN IF live = {}
       THEN [status |-> "none", body |-> NoId, ratings |-> {}]
       ELSE LET i == CHOOSE i \in live : TRUE
            IN [status |-> review[i].status, body |-> review[i].body,
                ratings |-> rating[i]]

Shelves == [s \in Cafes \X Users |-> Shelf(s)]

\* The writes that found a review which is gone by now
Missed == {q \in Reqs : pc[q] = "lock" /\ ~Live(row[q])}

Book == INSTANCE ReviewBook WITH
            NoBody <- NoId, book <- Shelves, answer <- ret, missed <- Missed

\* Creates, updates and deletes are atomic, and the error each one gets is
\* true of the moment it took effect or of one during the request.
ImplementsBook == Book!Spec

----------------------------------------------------------------------------
(* What the documentation says and the code does not do *)

\* repository/review.go: "Every query that serves or aggregates public reviews
\* must use these two fragments together".  The ratings in a public list are
\* those of the text that a moderator let through.
ListedRatingsWereModerated ==
    \A q \in Reqs : call[q].op = "list" =>
        \A x \in resp[q].items : \A s \in x.ratings : s.by = x.body
=============================================================================
