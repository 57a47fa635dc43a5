---------------------------- MODULE ReviewListing ----------------------------
(***************************************************************************)
(* GET /v1/cafe/:id/reviews: a reader walks through the reviews of a cafe, *)
(* page by page along next_cursor, while authors write, delete and         *)
(* moderators approve, pin and unpin them.  A request is a row of separate *)
(* statements, and any of them may fail.                                   *)
(*                                                                         *)
(* A write is seen when it commits; updated_at is when its transaction     *)
(* began.  Texts, scores and what a write does to its ratings are in       *)
(* Reviews.                                                                *)
(***************************************************************************)
EXTENDS Integers, Sequences, FiniteSets

CONSTANTS
    Ids,        \* the ids that reviews of the cafe may have
    Users,      \* those who may write one
    NoUser,     \* cafe_review.user_id is null: a partnership review
    PageSize,   \* reviewPageSize
    Start,      \* what there may be at first: reviews, writes under way, the time
    Sent,       \* cursors that readers send, besides those they were given
    Null, Bad,  \* no cursor, and a part of one that does not parse
    MaxClock,   \* bound of updated_at
    MaxEdits    \* bound of what happens besides the reader's requests

Live == {"pending", "approved", "rejected"}
Row == [status: Live \cup {"absent", "deleted"}, user: Users \cup {NoUser},
        pinned: BOOLEAN, updated: Nat]

ASSUME IdsAssumption == Ids \subseteq Nat \ {0} /\ IsFiniteSet(Ids)
ASSUME PageSizeAssumption == PageSize \in Nat \ {0}
ASSUME StartAssumption ==
    /\ Start \subseteq [review: [Ids -> Row], started: [Users -> SUBSET Nat], clock: Nat]
    /\ \A s \in Start : /\ \A id \in Ids : s.review[id].updated <= s.clock
                        /\ \A u \in Users : s.started[u] \subseteq 0..s.clock
ASSUME SentAssumption == Sent \subseteq Seq(Nat \cup {Bad})
ASSUME NullAssumption == Null \notin Sent \cup ({0, 1} \X Nat \X Ids) /\ Bad \notin Nat
ASSUME UsersAssumption == NoUser \notin Users
ASSUME BoundsAssumption == MaxClock \in Nat /\ MaxEdits \in Nat

VARIABLES
    review,   \* the table cafe_review
    active,   \* users.status = 'active'
    open,     \* location.status <> 'deleted'
    started,  \* when each user's running POSTs and PUTs began
    clock,    \* now(), in the microseconds that matter
    call,     \* the request that is being served
    code,     \* the last response's
    cursor,   \* the one the reader sends next
    walk,     \* what the reader has got, and what changed meanwhile
    edits

tables == <<review, active, open, started, clock>>
vars == <<tables, call, code, cursor, walk, edits>>

----------------------------------------------------------------------------
(* Keys and cursors *)

\* visibleReviewJoin and visibleReviewCond
Visible(id) == /\ review[id].status = "approved"
               /\ review[id].user = NoUser \/ active[review[id].user]

\* is_pinned::int, updated_at, id
Key(id) == <<IF review[id].pinned THEN 1 ELSE 0, review[id].updated, id>>

\* PostgreSQL's comparison of rows
Less(a, b) == \/ a[1] < b[1]
              \/ a[1] = b[1] /\ a[2] < b[2]
              \/ a[1] = b[1] /\ a[2] = b[2] /\ a[3] < b[3]

\* Mutant: the cursor has UpdatedAt, which decodeReviewCursor does not parse
SecondsCursor(id) == <<Key(id)[1], Bad, id>>

\* The cursor keeps every microsecond.
encodeReviewCursor(id) == Key(id)

Decodable(c) ==
    c # Null => /\ Len(c) = 3
                /\ c[1] \in {0, 1}
                /\ c[2] # Bad
                /\ c[3] # Bad /\ c[3] > 0

----------------------------------------------------------------------------
(* The query *)

\* Mutant: <= in the place of <
FromCursor(c) == {id \in Ids : Visible(id) /\ (c # Null => ~Less(c, Key(id)))}

\* The WHERE clause
After(c) == {id \in Ids : Visible(id) /\ (c # Null => Less(Key(id), c))}

\* ORDER BY is_pinned DESC, updated_at DESC, id DESC LIMIT n: rows are the
\* first n of all.
Top(rows, all, n) ==
    /\ rows \subseteq all
    /\ \A i \in rows, j \in all \ rows : Less(Key(j), Key(i))
    /\ Cardinality(rows) <= n
    /\ rows # all => Cardinality(rows) = n

IsLast(last, items) ==
    last \in items /\ \A id \in items \ {last} : Less(Key(last), Key(id))

Answer(items, next) == call' = [at |-> "ratings", items |-> items, next |-> next]

\* Mutant: the row that was looked ahead at is the cursor
SkipLookAhead(rows) ==
    IF Cardinality(rows) <= PageSize THEN Answer(rows, Null)
    ELSE \E items \in SUBSET rows, last \in rows :
            /\ Top(items, rows, PageSize)
            /\ IsLast(last, rows)
            /\ Answer(items, encodeReviewCursor(last))

\* Mutant: a full page has a next one, whatever was looked ahead at
FullPageGoesOn(rows) ==
    IF Cardinality(rows) < PageSize THEN Answer(rows, Null)
    ELSE \E items \in SUBSET rows, last \in rows :
            /\ Top(items, rows, PageSize)
            /\ IsLast(last, items)
            /\ Answer(items, encodeReviewCursor(last))

\* Mutant: an empty page gives the reader his cursor back
CursorBack(rows) ==
    IF Cardinality(rows) <= PageSize THEN Answer(rows, IF rows = {} THEN cursor ELSE Null)
    ELSE \E items \in SUBSET rows, last \in rows :
            /\ Top(items, rows, PageSize)
            /\ IsLast(last, items)
            /\ Answer(items, encodeReviewCursor(last))

\* The page and its next_cursor, when these rows were read: one more than a page
\* has, to look ahead
Page(rows) ==
    IF Cardinality(rows) <= PageSize THEN Answer(rows, Null)
    ELSE \E items \in SUBSET rows, last \in rows :
            /\ Top(items, rows, PageSize)
            /\ IsLast(last, items)
            /\ Answer(items, encodeReviewCursor(last))

----------------------------------------------------------------------------
(* A request *)

Idle == [at |-> "idle"]

NoWalk == [on |-> FALSE, from |-> Null, listed |-> {}, again |-> {}, steady |-> {},
           lowered |-> {}, calm |-> FALSE]

\* The last response of a walk
Ends(status) == /\ call' = Idle
                /\ code' = status
                /\ cursor' = Null
                /\ walk' = NoWalk
                /\ UNCHANGED <<tables, edits>>

\* A reader begins, at the first page or with a cursor of his own.
Enter(c) ==
    /\ call = Idle
    /\ ~walk.on
    /\ \/ ~Decodable(c) /\ Ends(400)
       \/ /\ Decodable(c)
          /\ call' = [at |-> "cafe"]
          /\ code' = 0
          /\ cursor' = c
          /\ walk' = [NoWalk EXCEPT !.on = TRUE, !.from = c, !.steady = After(c),
                                    !.calm = TRUE]
          /\ UNCHANGED <<tables, edits>>

\* He asks for the next page, or again for one that failed.
Continue ==
    /\ call = Idle
    /\ walk.on
    /\ \/ ~Decodable(cursor) /\ Ends(400)
       \/ /\ Decodable(cursor)
          /\ call' = [at |-> "cafe"]
          /\ code' = 0
          /\ UNCHANGED <<tables, cursor, walk, edits>>

CafeIDByLocationID ==
    /\ call.at = "cafe"
    /\ \/ ~open /\ Ends(404)
       \/ /\ open
          /\ call' = [at |-> "rows"]
          /\ UNCHANGED <<tables, code, cursor, walk, edits>>

VisibleReviews ==
    /\ call.at = "rows"
    /\ \E rows \in SUBSET After(cursor) :
          /\ Top(rows, After(cursor), PageSize + 1)
          /\ Page(rows)
    /\ UNCHANGED <<tables, code, cursor, walk, edits>>

\* The ratings of the items are read; the response.
Respond ==
    /\ call.at = "ratings"
    /\ \/ call.next = Null /\ Ends(200)
       \/ /\ call.next # Null
          /\ call' = Idle
          /\ code' = 200
          /\ cursor' = call.next
          /\ walk' = [walk EXCEPT !.listed = @ \cup call.items,
                                  !.again = @ \cup (walk.listed \cap call.items)]
          /\ UNCHANGED <<tables, edits>>

----------------------------------------------------------------------------
(* What happens meanwhile *)

\* A statement fails; there is none for the ratings of an empty page.
DbError == /\ edits < MaxEdits
           /\ call # Idle
           /\ call.at = "ratings" => call.items # {}
           /\ call' = Idle
           /\ code' = 500
           /\ edits' = edits + 1
           /\ UNCHANGED <<tables, cursor, walk>>

\* A change that may lower the keys of some reviews
Change(lowered) ==
    LET same == {id \in Ids : Visible(id) = Visible(id)' /\ Key(id) = Key(id)'} IN
    /\ edits < MaxEdits
    /\ edits' = edits + 1
    /\ walk' = IF walk.on THEN [walk EXCEPT !.steady = @ \cap same,
                                            !.calm = @ /\ same = Ids,
                                            !.lowered = @ \cup lowered]
                          ELSE walk
    /\ UNCHANGED <<call, code, cursor>>

Own(u, id) == review[id].user = u /\ review[id].status \in Live

\* A POST or PUT begins its transaction, in the same microsecond as another
\* one or later.
Begin(u) == /\ clock' \in {clock, clock + 1}
            /\ clock' <= MaxClock
            /\ started' = [started EXCEPT ![u] = @ \cup {clock'}]
            /\ UNCHANGED <<review, active, open>>
            /\ Change({})

Done(u, t) == /\ t \in started[u]
              /\ started' = [started EXCEPT ![u] = @ \ {t}]
              /\ UNCHANGED <<active, open, clock>>

Create(u, t, id) ==
    /\ review[id].status = "absent"
    /\ ~\E i \in Ids : Own(u, i)
    /\ Done(u, t)
    /\ review' = [review EXCEPT ![id] = [status |-> "pending", user |-> u,
                                         pinned |-> FALSE, updated |-> t]]
    /\ Change({})

\* The UPDATE may have waited for another one that began later.
Update(u, t, id) ==
    /\ Own(u, id)
    /\ Done(u, t)
    /\ review' = [review EXCEPT ![id].status = "pending", ![id].updated = t]
    /\ Change(IF t < review[id].updated THEN {id} ELSE {})

Rollback(u, t) == Done(u, t) /\ UNCHANGED review /\ Change({})

SoftDelete(u, id) ==
    /\ Own(u, id)
    /\ review' = [review EXCEPT ![id].status = "deleted", ![id].updated = clock]
    /\ UNCHANGED <<active, open, started, clock>>
    /\ Change({})

\* Mission control, which may set updated_at or leave it
Moderate(id, status, t) ==
    /\ review[id].status \in Live
    /\ t \in {review[id].updated, clock}
    /\ review' = [review EXCEPT ![id].status = status, ![id].updated = t]
    /\ UNCHANGED <<active, open, started, clock>>
    /\ Change({})

Pin(id, pinned) ==
    /\ review[id].status \in Live
    /\ review' = [review EXCEPT ![id].pinned = pinned]
    /\ UNCHANGED <<active, open, started, clock>>
    /\ Change(IF pinned THEN {} ELSE {id})

AddPartnership(id, pinned) ==
    /\ review[id].status = "absent"
    /\ review' = [review EXCEPT ![id] = [status |-> "approved", user |-> NoUser,
                                         pinned |-> pinned, updated |-> clock]]
    /\ UNCHANGED <<active, open, started, clock>>
    /\ Change({})

SetActive(u, b) == /\ active' = [active EXCEPT ![u] = b]
                   /\ UNCHANGED <<review, open, started, clock>>
                   /\ Change({})

SetOpen(b) == /\ open' = b
              /\ UNCHANGED <<review, active, started, clock>>
              /\ Change({})

----------------------------------------------------------------------------
Init == /\ \E s \in Start : review = s.review /\ started = s.started /\ clock = s.clock
        /\ active = [u \in Users |-> TRUE]
        /\ open = TRUE
        /\ call = Idle
        /\ code = 0
        /\ cursor = Null
        /\ walk = NoWalk
        /\ edits = 0

Serve == Continue \/ CafeIDByLocationID \/ VisibleReviews \/ Respond

Write(u) ==
    \/ Begin(u)
    \/ \E t \in 0..MaxClock : Rollback(u, t)
    \/ \E t \in 0..MaxClock, id \in Ids : Create(u, t, id) \/ Update(u, t, id)
    \/ \E id \in Ids : SoftDelete(u, id)

MissionControl ==
    \/ \E id \in Ids, status \in {"approved", "rejected", "deleted"}, t \in 0..MaxClock :
          Moderate(id, status, t)
    \/ \E id \in Ids, pinned \in BOOLEAN : Pin(id, pinned) \/ AddPartnership(id, pinned)
    \/ \E u \in Users, b \in BOOLEAN : SetActive(u, b)
    \/ \E b \in BOOLEAN : SetOpen(b)

Next == \/ \E c \in {Null} \cup Sent : Enter(c)
        \/ Serve
        \/ DbError
        \/ \E u \in Users : Write(u)
        \/ MissionControl

\* A request is served, and a reader who has begun goes on to the last page.
Spec == Init /\ [][Next]_vars /\ WF_vars(Serve)

----------------------------------------------------------------------------
(* Properties *)

Cursor == {0, 1} \X Nat \X Ids

\* Every variable has its type.  A cursor that List gives out is one that
\* decodeReviewCursor accepts.
TypeOK ==
    /\ review \in [Ids -> Row]
    /\ active \in [Users -> BOOLEAN]
    /\ open \in BOOLEAN
    /\ started \in [Users -> SUBSET Nat]
    /\ clock \in Nat
    /\ call \in [at: {"idle", "cafe", "rows"}]
                \cup [at: {"ratings"}, items: SUBSET Ids, next: {Null} \cup Cursor]
    /\ code \in {0, 200, 400, 404, 500}
    /\ cursor \in {Null} \cup Cursor \cup Sent
    /\ walk.on => Decodable(cursor)
    /\ walk \in [from: {Null} \cup Sent, on: BOOLEAN, listed: SUBSET Ids,
                 again: SUBSET Ids, steady: SUBSET Ids, lowered: SUBSET Ids, calm: BOOLEAN]
    /\ edits \in 0..MaxEdits

\* The reader gets the last page, and with it all the pages of his walk.
Arrives == Respond /\ call.next = Null
AllListed == walk.listed \cup call.items
ListedAgain == walk.again \cup (walk.listed \cap call.items)

\* A review that stays visible as it is, from the reader's first request on, is
\* listed once and only once by the time he gets the last page, whatever is
\* written, pinned, moderated or failing around it.
SteadyListedOnce ==
    [][Arrives => walk.steady \subseteq AllListed \ ListedAgain]_vars

\* A review is listed twice in a walk only if it was unpinned meanwhile, or if a
\* PUT that began before the one it replaces came after it.
TwiceOnlyIfLowered == [][Respond => ListedAgain \subseteq walk.lowered]_vars

\* While nothing changes, a walk lists all and only what is visible from its
\* cursor on, and no page but the first one is empty: the row that is read
\* ahead is the next page's first.
CalmWalkIsExact ==
    [][Arrives /\ walk.calm => /\ AllListed = After(walk.from)
                              /\ (call.items = {} => AllListed = {})]_vars

\* A reader who goes on gets to an end.
WalkEnds == walk.on ~> ~walk.on
=============================================================================
