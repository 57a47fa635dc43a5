------------------------------ MODULE CafePages ------------------------------
(***************************************************************************)
(* What users' scores and a cafe's prices come to: on the review page and  *)
(* the cafe page, in the tiers of GET /v1/filters and in the filters and   *)
(* the rating order of the search.  Buckets are matched in Go, in SQL and  *)
(* by the client, which sends what it was given back to the search.        *)
(*                                                                         *)
(* A visitor sends one request after the other, each a row of statements,  *)
(* while reviews are written and moderated, accounts deactivated and       *)
(* prices edited.  Scores are submitted in thousandths and stored in       *)
(* hundredths, numeric(10, 2), as the bounds of buckets are; prices are in *)
(* rupiah.                                                                 *)
(* Texts, labels, tags, images, slugs and the feed are left out.           *)
(***************************************************************************)
EXTENDS Integers, Sequences, FiniteSets, SequencesExt, Functions

CONSTANTS
    Cafes,     \* location.id, in its order
    Reviews,   \* cafe_review.id
    CafeOf,    \* cafe_review.cafe_id
    AuthorOf,  \* cafe_review.user_id, null of a partnership's review
    Users,
    Kinds,     \* rating_type_label.type
    PriceKind, \* price-rank
    Buckets,   \* rating_category
    Tiers,     \* its price-rank rows, ORDER BY lower_bound
    Forms,     \* what users submit, or was entered for them
    Prices,    \* what mission control enters
    Queries,   \* the visitor's searches, of active cafes by rating
    None,      \* null
    MaxEdits   \* bound of the edits

OrNone(S) == S \cup {None}

\* slug: it is not null
Bucket == [kind: Kinds, lower: Nat, upper: Nat, slug: BOOLEAN]
Form == [overall: OrNone(Nat), scores: [Kinds -> OrNone(Nat)]]
Price == [min: OrNone(Nat), max: OrNone(Nat)]
Query == [buckets: SUBSET Buckets, min: OrNone(Nat), max: OrNone(Nat),
          order: {"asc", "desc"}]

BucketsOf(k) == {b \in Buckets : b.kind = k}

ASSUME CafesAssumption == Cafes \subseteq Nat /\ IsFiniteSet(Cafes)
ASSUME ReviewsAssumption ==
    /\ IsFiniteSet(Reviews)
    /\ CafeOf \in [Reviews -> Cafes] /\ AuthorOf \in [Reviews -> OrNone(Users)]
ASSUME NoneAssumption == None \notin Nat \cup Users
ASSUME FormsAssumption == Forms \subseteq Form
ASSUME QueriesAssumption == Queries \subseteq Query
\* Two buckets of a kind share no hundredth.
ASSUME BucketsAssumption ==
    /\ Buckets \subseteq Bucket
    /\ \A b \in Buckets : b.lower <= b.upper
    /\ \A b, c \in Buckets : b.kind = c.kind =>
          /\ b.lower = c.lower => b = c
          /\ b.lower < c.lower => b.upper < c.lower
\* The bounds of the tiers are whole rupiah.
ASSUME TiersAssumption ==
    /\ PriceKind \in Kinds
    /\ Tiers \in Seq(Buckets)
    /\ Range(Tiers) = BucketsOf(PriceKind)
    /\ \A i, j \in DOMAIN Tiers : i < j => Tiers[i].lower < Tiers[j].lower
    /\ \A b \in BucketsOf(PriceKind) : b.lower % 100 = 0 /\ b.upper % 100 = 0
ASSUME PricesAssumption ==
    /\ Prices \subseteq Price
    /\ \A p \in Prices : None \notin {p.min, p.max} => p.min <= p.max
ASSUME MaxEditsAssumption == MaxEdits \in Nat

VARIABLES
    review,  \* cafe_review and cafe_rating
    active,  \* users.status = 'active'
    open,    \* location.status = 'active'
    price,   \* cafe_price
    call,    \* the request that is being served
    calm,    \* nothing has changed since it began
    seen,    \* the visitor's responses since the last change
    edits

tables == <<review, active, open, price>>
vars == <<tables, call, calm, seen, edits>>

----------------------------------------------------------------------------
(* Scores *)

\* Mutant: the span of all kinds' buckets, without GROUP BY
InAnyBounds(form) ==
    /\ form.overall # None => 1000 <= form.overall /\ form.overall <= 5000
    /\ \A k \in Kinds : form.scores[k] # None =>
          /\ \E b \in Buckets : 10 * b.lower <= form.scores[k]
          /\ \E b \in Buckets : form.scores[k] <= 10 * b.upper

\* The span of a kind's buckets, and prepareWrite's comparison with it.  What
\* was entered may have no overall score.
InBounds(form) ==
    /\ form.overall # None => 1000 <= form.overall /\ form.overall <= 5000
    /\ \A k \in Kinds : form.scores[k] # None =>
          /\ \E b \in BucketsOf(k) : 10 * b.lower <= form.scores[k]
          /\ \E b \in BucketsOf(k) : form.scores[k] <= 10 * b.upper

\* numeric(10, 2) and numeric(3, 2)
Stored(n) == IF n = None THEN None ELSE (n + 5) \div 10

Row(form, status) == [status |-> status, overall |-> Stored(form.overall),
                      scores |-> [k \in Kinds |-> Stored(form.scores[k])]]

\* visibleReviewJoin and visibleReviewCond
Visible(i) == /\ review[i].status = "approved"
              /\ AuthorOf[i] # None => active[AuthorOf[i]]

VisibleOf(c) == {i \in Reviews : CafeOf[i] = c /\ Visible(i)}
ScoredOf(c) == {i \in VisibleOf(c) : review[i].overall # None}

RatedOf(c, k) == {i \in VisibleOf(c) : review[i].scores[k] # None}

Total(S, score(_)) == SumFunctionOnSet([i \in S |-> score(i)], S)

\* Mutant: the average is not scaled back.
Unscaled(total, n) == (10 * total) \div n

\* ROUND(AVG(..), 2)
Rounded(total, n) == (2 * total + n) \div (2 * n)

\* ROUND(AVG(rv.overall_score), 2) of CafeReviewAggregatesByLocationID
OverallScore(c) ==
    LET S == ScoredOf(c)
    IN IF S = {} THEN None
       ELSE Rounded(Total(S, LAMBDA i : review[i].overall), Cardinality(S))

\* A kind's score on the review page, by CafeRatingsByLocationID
PageScore(c, k) ==
    LET S == RatedOf(c, k)
    IN IF S = {} THEN None
       ELSE Rounded(Total(S, LAMBDA i : review[i].scores[k]), Cardinality(S))

\* The ranges that GetReviewByID gives a slug: many a bucket has none.
Marked(score, k) == {b \in BucketsOf(k) : b.lower <= score /\ score <= b.upper /\ b.slug}

\* Mutant: unrounded averages are compared.
HavingExact(c, b) ==
    LET S == RatedOf(c, b.kind)
        total == Total(S, LAMBDA i : review[i].scores[b.kind])
    IN S # {} /\ b.lower * Cardinality(S) <= total /\ total <= b.upper * Cardinality(S)

\* The search's rating filter: HAVING ROUND(AVG(cr.score), 2) BETWEEN ..
Having(c, b) ==
    LET S == RatedOf(c, b.kind)
        score == Rounded(Total(S, LAMBDA i : review[i].scores[b.kind]), Cardinality(S))
    IN S # {} /\ b.lower <= score /\ score <= b.upper

----------------------------------------------------------------------------
(* Prices *)

\* The tiers that the middle of the prices is in
TiersOf(p) == {i \in DOMAIN Tiers : /\ 2 * Tiers[i].lower <= 100 * (p.min + p.max)
                                    /\ 100 * (p.min + p.max) <= 2 * Tiers[i].upper}

\* Mutant: ranks as ROW_NUMBER counts
RankFromOne(p) == IF None \in {p.min, p.max} \/ TiersOf(p) = {} THEN None
                  ELSE CHOOSE i \in TiersOf(p) : TRUE

\* CafePriceRankByLocationID: the place of the tier, from 0
PriceRank(p) == IF None \in {p.min, p.max} \/ TiersOf(p) = {} THEN None
                ELSE (CHOOSE i \in TiersOf(p) : TRUE) - 1

\* FilterService.Get: int() of the bounds, and the last tier is open-ended.
PriceTiers == [i \in DOMAIN Tiers |->
                  [min |-> Tiers[i].lower \div 100,
                   max |-> IF i = Len(Tiers) THEN None ELSE Tiers[i].upper \div 100]]

\* The bands overlap; a null compares as false.
InPrice(p, q) ==
    /\ q.min # None => p.max # None /\ p.max >= q.min
    /\ q.max # None => p.min # None /\ p.min <= q.max

----------------------------------------------------------------------------
(* The search *)

Found(q) == {c \in Cafes : /\ open[c]
                           /\ \A b \in q.buckets : Having(c, b)
                           /\ InPrice(price[c], q)}

\* Mutant: the order is by all reviews.
SortedReviews(c) == {i \in Reviews : CafeOf[i] = c /\ review[i].overall # None}

\* The reviews whose overall scores sort = rating compares
LateralReviews(c) == {i \in Reviews : CafeOf[i] = c /\ Visible(i) /\ review[i].overall # None}

\* lr.overall_score ASC or DESC NULLS LAST, l.id ASC, with averages as fractions
Before(c, d, order) ==
    LET S == LateralReviews(c)
        T == LateralReviews(d)
        s == Total(S, LAMBDA i : review[i].overall) * Cardinality(T)
        t == Total(T, LAMBDA i : review[i].overall) * Cardinality(S)
    IN IF S = {} \/ T = {} THEN S # {} \/ (T = {} /\ c < d)
       ELSE \/ s < t /\ order = "asc"
            \/ s > t /\ order = "desc"
            \/ s = t /\ c < d

\* The one order of the rows found
Orders(q) == {order \in SetToSeqs(Found(q)) :
    \A i, j \in DOMAIN order : i < j => Before(order[i], order[j], q.order)}

\* No two of one type: ErrDuplicateRatingType
OneBucketPerKind(q) == \A a, b \in q.buckets : a.kind = b.kind => a = b

----------------------------------------------------------------------------
(* Requests *)

Idle == [at |-> "idle"]

\* Once he has two responses, the visitor starts anew.
Ask(request) ==
    /\ call = Idle
    /\ call' = request
    /\ calm' = TRUE
    /\ seen' = IF Cardinality(seen) = 2 THEN {} ELSE seen
    /\ UNCHANGED <<tables, edits>>

Reply(response) ==
    /\ call' = Idle
    /\ seen' = IF calm THEN seen \cup {response} ELSE seen
    /\ UNCHANGED <<tables, calm, edits>>

\* GetReviewByID reads the counts, and the ratings in another statement.
CafeReviewAggregatesByLocationID ==
    /\ call.at = "aggregates"
    /\ call' = [at |-> "ratings", cafe |-> call.cafe,
                overall |-> OverallScore(call.cafe),
                scored |-> Cardinality(ScoredOf(call.cafe)),
                total |-> Cardinality(VisibleOf(call.cafe))]
    /\ UNCHANGED <<tables, calm, seen, edits>>

CafeRatingsByLocationID ==
    /\ call.at = "ratings"
    /\ LET c == call.cafe
       IN Reply([op |-> "review", cafe |-> c, overall |-> call.overall,
                 scored |-> call.scored, total |-> call.total,
                 scores |-> [k \in Kinds |-> PageScore(c, k)],
                 marked |-> UNION {Marked(PageScore(c, k), k) :
                                      k \in {k \in Kinds : RatedOf(c, k) # {}}}])

\* GetByID reads the prices, and their rank in another statement.
CafeByLocationID ==
    /\ call.at = "cafe"
    /\ call' = [at |-> "rank", cafe |-> call.cafe, price |-> price[call.cafe]]
    /\ UNCHANGED <<tables, calm, seen, edits>>

CafePriceRankByLocationID ==
    /\ call.at = "rank"
    /\ Reply([op |-> "cafe", cafe |-> call.cafe, price |-> call.price,
              rank |-> PriceRank(price[call.cafe])])

GetFilters ==
    /\ call.at = "filters"
    /\ Reply([op |-> "filters", tiers |-> PriceTiers])

\* Two buckets of one type are a bad request.
RatingCategoriesByIDs ==
    /\ call.at = "search"
    /\ IF OneBucketPerKind(call.query)
       THEN /\ call' = [call EXCEPT !.at = "rows"]
            /\ UNCHANGED <<tables, calm, seen, edits>>
       ELSE Reply([op |-> "search", query |-> call.query, code |-> 400, found |-> <<>>])

Search ==
    /\ call.at = "rows"
    /\ \E order \in Orders(call.query) :
          Reply([op |-> "search", query |-> call.query, code |-> 200, found |-> order])

\* A statement fails: 500.
DbError ==
    /\ call # Idle
    /\ call' = Idle
    /\ UNCHANGED <<tables, calm, seen, edits>>

----------------------------------------------------------------------------
(* Edits *)

Change == /\ edits < MaxEdits
          /\ edits' = edits + 1
          /\ calm' = FALSE
          /\ seen' = {}
          /\ UNCHANGED call

\* A POST or PUT, whose steps are in Reviews: the cafe or the account may have
\* closed since they were checked.
Write(i, form) == /\ AuthorOf[i] # None
                  /\ form.overall # None /\ InBounds(form)
                  /\ review' = [review EXCEPT ![i] = Row(form, "pending")]
                  /\ UNCHANGED <<active, open, price>>
                  /\ Change

Moderate(i, status) == /\ review[i].status # "deleted"
                       /\ review' = [review EXCEPT ![i].status = status]
                       /\ UNCHANGED <<active, open, price>>
                       /\ Change

SetActive(u, b) == /\ active' = [active EXCEPT ![u] = b]
                   /\ UNCHANGED <<review, open, price>>
                   /\ Change

SetOpen(c, b) == /\ open' = [open EXCEPT ![c] = b]
                 /\ UNCHANGED <<review, active, price>>
                 /\ Change

SetPrice(c, p) == /\ price' = [price EXCEPT ![c] = p]
                  /\ UNCHANGED <<review, active, open>>
                  /\ Change

----------------------------------------------------------------------------
Statuses == {"pending", "approved", "rejected", "deleted"}

Init == /\ \E form \in [Reviews -> {f \in Forms : InBounds(f)}] :
              review = [i \in Reviews |-> Row(form[i], "approved")]
        /\ active = [u \in Users |-> TRUE]
        /\ open = [c \in Cafes |-> TRUE]
        /\ \E p \in Prices : price = [c \in Cafes |-> p]
        /\ call = Idle
        /\ calm = TRUE
        /\ seen = {}
        /\ edits = 0

Requests == [at: {"aggregates", "cafe"}, cafe: Cafes] \cup [at: {"filters"}]
            \cup [at: {"search"}, query: Queries]

Serve == \/ CafeReviewAggregatesByLocationID \/ CafeRatingsByLocationID
         \/ CafeByLocationID \/ CafePriceRankByLocationID
         \/ GetFilters \/ RatingCategoriesByIDs \/ Search

Edit == \/ \E i \in Reviews, form \in Forms : Write(i, form)
        \/ \E i \in Reviews, status \in Statuses : Moderate(i, status)
        \/ \E u \in Users, b \in BOOLEAN : SetActive(u, b)
        \/ \E c \in Cafes, b \in BOOLEAN : SetOpen(c, b)
        \/ \E c \in Cafes, p \in Prices : SetPrice(c, p)

Next == \/ \E request \in Requests : Ask(request)
        \/ Serve
        \/ DbError
        \/ Edit

Spec == Init /\ [][Next]_vars

----------------------------------------------------------------------------
(* Properties *)

Scores == OrNone(0..500)
ReviewPage == [op: {"review"}, cafe: Cafes, overall: Scores, scored: Nat, total: Nat,
               scores: [Kinds -> OrNone(Nat)], marked: SUBSET Buckets]
CafePage == [op: {"cafe"}, cafe: Cafes, price: Prices, rank: OrNone(Nat)]
Filters == [op: {"filters"}, tiers: Seq([min: Nat, max: OrNone(Nat)])]
Answers == [op: {"search"}, query: Queries, code: {200, 400}, found: Seq(Cafes)]

\* Every variable has its type: no rounding or averaging of overall scores
\* leaves 0.00 to 5.00.
TypeOK ==
    /\ review \in [Reviews -> [status: Statuses, overall: Scores, scores: [Kinds -> OrNone(Nat)]]]
    /\ active \in [Users -> BOOLEAN]
    /\ open \in [Cafes -> BOOLEAN]
    /\ price \in [Cafes -> Prices]
    /\ call \in {Idle} \cup Requests \cup [at: {"rows"}, query: Queries]
                \cup [at: {"ratings"}, cafe: Cafes, overall: Scores, scored: Nat, total: Nat]
                \cup [at: {"rank"}, cafe: Cafes, price: Prices]
    /\ calm \in BOOLEAN
    /\ seen \subseteq ReviewPage \cup CafePage \cup Filters \cup Answers
    /\ edits \in 0..MaxEdits

Shown(op) == {r \in seen : r.op = op}

InRange(b, score) == score # None /\ b.lower <= score /\ score <= b.upper

\* No hundredth is between two buckets, as of every kind but price-rank.
Gapless(k) == \A b, c \in BucketsOf(k) : b.lower < c.lower =>
                 \E d \in BucketsOf(k) : d.lower = b.upper + 1

\* On every review page a kind's score is in one of its ranges at the most, and
\* in one if they are gapless: validation, the rounding of what is stored and of
\* the average leave none outside.  The range it is in, and no other, has a slug
\* there, if it has one at all.
OneBucketHolds ==
    \A p \in Shown("review"), k \in Kinds :
        LET in == {b \in BucketsOf(k) : InRange(b, p.scores[k])}
        IN /\ Cardinality(in) <= 1
           /\ p.scores[k] # None /\ Gapless(k) => in # {}
           /\ p.marked \cap BucketsOf(k) = {b \in in : b.slug}

\* While nothing changes, a search by buckets finds an open cafe if and only if
\* each of them, with a slug or without, contains the score of its kind on the
\* cafe's review page.
ShownScoreIsFound ==
    \A p \in Shown("review"), s \in Shown("search") :
        /\ open[p.cafe] /\ s.code = 200
        /\ s.query.min = None /\ s.query.max = None
        => (p.cafe \in Range(s.found)
              <=> \A b \in s.query.buckets : InRange(b, p.scores[b.kind]))

\* While nothing changes, a cafe's rank is the tier of GET /v1/filters by which
\* a search finds it, and the middle of the prices on its page is in that tier.
RankIsItsTier ==
    \A c \in Shown("cafe") : c.rank # None =>
        /\ \A f \in Shown("filters") :
              LET tier == f.tiers[c.rank + 1]
              IN /\ 2 * tier.min <= c.price.min + c.price.max
                 /\ tier.max # None => c.price.min + c.price.max <= 2 * tier.max
        /\ \A s \in Shown("search") :
              LET tier == PriceTiers[c.rank + 1]
              IN open[c.cafe] /\ s.query.buckets = {}
                 /\ s.query.min = tier.min /\ s.query.max = tier.max
                 => c.cafe \in Range(s.found)

\* While nothing changes, the cafes of a search by rating come in the order of
\* the scores on their review pages, those without a score last.
RatingOrderIsShown ==
    \A p \in Shown("review"), s \in Shown("search") :
        \A i, j \in DOMAIN s.found :
            i < j /\ p.cafe = s.found[j] /\ p.overall # None =>
                /\ OverallScore(s.found[i]) # None
                /\ IF s.query.order = "asc"
                   THEN OverallScore(s.found[i]) <= p.overall
                   ELSE OverallScore(s.found[i]) >= p.overall
=============================================================================
