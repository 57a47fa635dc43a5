# TLA+ models of the Bandung coffee-shop back end

The program is a Go HTTP API (gin) in front of PostgreSQL/PostGIS and Redis.  It
searches and shows cafes, signs users in through Google, keeps their sessions,
and takes their reviews.  Content is written by another program, "mission
control", straight into the same database.  The API runs as one or more stateless
processes; every request runs in a goroutine of its own; all shared state is in
PostgreSQL and Redis, except for one mutex-protected reading of the weather and one
`singleflight.Group` per process.  What is hard is therefore what requests do to
each other between their statements.

Paths below are relative to `src/`.

## Inventory

| Component | State | Operations | What is hard | What makes it correct |
|---|---|---|---|---|
| **User reviews** (`handler/review.go`, `service/review.go`, `repository/review.go`, migrations 011, 012) | `cafe_review` (status, text, user), `cafe_rating` (scores per type), two unique keys | POST, PUT, DELETE, GET mine, public list | two-statement checks under READ COMMITTED, row and key waits, deadlocks, a commit whose answer is lost, moderation between any two statements | one live review per user and cafe; ratings always those of the text; deleted stays deleted; writes take effect atomically; the answer of a write shows it or a later state; each request is answered |
| **Sign-in and sessions** (`handler/auth.go`, `service/auth.go`, `repository/session.go`, `repository/user.go`, `repository/google.go`, `middleware/auth.go`) | `session:<hash>`, `user_sessions:<id>` with times to live, `users.status`, the cookies | login, callback, logout, `LoadUser` on each request | several tabs, expiry, Redis time-outs with and without effect, accounts deactivated half-way | a served user was active during the request; the index finds every session; an answered sign-out is final |
| **Weather cache** (`service/weather.go`, `repository/weather.go`) | two Redis keys, a reading per process, a shared fetch per process | `Current` | shared fetches that fail or are cancelled, processes that overwrite each other's readings, restarts, outages | nothing served is older than its cache allows; no caller hangs or suffers from another's cancellation |
| **Opening hours** (`service/cafe.go` from line 646, the `open_hour` filter of `repository/cafe.go`, migrations 013, 014) | `cafe_hour` | `ResolveHours`, `ResolveRegularHours`, the SQL filter | one set of rules written twice, in Go and in SQL; tiers, open bounds, overnight spill | both agree at every minute; dated rows act on their dates only |
| **Cafe search** (`Search` in handler, service and repository `cafe.go`) | reads only: cafes, places, ratings, tags, hours, weather | `GET /v1/search/cafes` with OFFSET pages | several statements per request, pages that are separate queries, defaults set in one function and used in another | pages partition the matches; the banner fits the cafes; radius searches are bounded |
| **Review listing** (`List` in handler, service and `VisibleReviews` in repository `review.go`) | reads only: `cafe_review`, `users.status`; the reader's cursor | public list, page by page | keyset pages are separate requests while keys (`is_pinned`, `updated_at`) change; PUTs commit in another order than they began | what stays is listed once; repetitions only of what was moved down; every cursor is accepted again; a walk ends |
| **Cafe pages** (`GetByID`, `GetReviewByID`, `GetFeedByID`, `Random`) | reads only | GET cafe, review summary, feed, random cafe | averages and buckets computed here and in the search, in Go and in SQL; several statements per page | the bucket shown is the bucket searched; the rank shown is the tier searched; the order of a search is the order of the scores shown |
| **Locations** (`location.go` in handler, service and repository) | reads only | GET location, district list | containment computed by several queries, of whole geometries or of a point on the surface | parents and children agree |
| **Quicksearch** (`quicksearch.go`) | reads only | autocomplete | a slug puts together lookups of other locations, any of which may be missing or closed; ranking by trigram similarity is PostgreSQL's | a slug leads to pages, and is the address other pages give |
| **Filters** (`filter.go`) | reads only | lookup lists | the values are sent back to the search | a price tier finds the cafes of its rank |
| **Redis client** (`cache/redis.go`) | connection | Ping, Get, Set, Pipelined | every operation may time out after it took effect | seen through Sessions and Weather |
| **Review schema migrations** (011, 012, 013, 014) | schema | run beside the live server | old and new keys, cleared texts | no edited text is lost; no write fails for ever |
| **Start-up, configuration, helpers, origin check, seeders, build** | none at run time | – | – | – |

How they interact: `LoadUser` runs before every handler and calls the session
store and `users`; the review writes check `location.status` and the user's
account before their transaction; the public list, the cafe page and the search
all read `cafe_review` through the same two SQL fragments (`visibleReviewJoin`,
`visibleReviewCond`); where a place is, is asked by location pages, quicksearch,
the search and cafe pages, each with a query of its own; the search calls `WeatherService.Current` and evaluates
`cafe_hour`; mission control changes `cafe_review.status`, `users.status`,
`location.status`, `cafe` and `cafe_hour` at any time.

## Modules

Each component has a module with its state, `Init`, one action per handler step,
`Next` and its properties; an `MC` module that fixes small instances for TLC; and a
`Proofs` module.

### Reviews, ReviewBook, ReviewAnswers
`Reviews` has one action per SQL statement of a request, with `pc[q]` the next
statement: `Authenticate` and `CafeIDByLocationID`, then `CreateSelect`,
`CreateInsert` / `FindOwn`, `UpdateRow`, `SoftDelete` / `ClearRatings`,
`InsertRating` / `Commit` / `Mine`, `VisibleReviews`, `RatingsByReviewIDs`.
`review` and `rating` are the committed tables; `row`, `draft` and `todo` are what an
open transaction has written.  A writer that meets an uncommitted row or key
(`Holds`, `KeyInFlight`, `WaitsFor`) is not enabled until that transaction ends; an
UPDATE that waited re-evaluates its WHERE clause (`Rechecked`), as READ COMMITTED
does.  A transaction that fails is rolled back (`Abort`): its row and key are held no
longer.  `todo` is any order of the rated types, because the code ranges over a Go map.
`Fail` fails any statement, `CommitUnknown` loses the answer of a COMMIT that took
effect, `Moderate`, `SetActive`, `SetOpen` are mission control's.  `CleanedUp` says
whether 012 has run, that is, whether the unique key of `cafe_rating` is
(review, type) or still (cafe, type).

The text and scores of a write are abstracted to the request that wrote them
(`body = q`).  Order and cursor of the list are the subject of `ReviewListing`; the
validation of the body is left out.

`ReviewBook` is what a client may believe: a book with at most one page per user and
cafe, on which Create, Update and Delete act atomically.  `Reviews` implements it
under the mapping at the end of `Reviews` (`Book!Spec`, property `ImplementsBook`).

`ReviewAnswers` is `Reviews` with a history variable: `told[q]` is what became of the
review since the write of `q` took effect, beginning with what `ReviewBook` says the write
makes.  The code commits a POST or PUT and then reads the review back, the text and the
ratings in two statements, so that other tabs and moderators may come in between.
`AnswerIsOwnOrLater` says that each of the two parts of the answer is in `told[q]`.  The two parts
may be of different moments, and the status is `pending` unless a moderator decided.

### Sessions
One action per Redis transaction, statement or call to Google: `Send` attaches the
browser's cookies, `Lookup`, `GetByID`, `Revoke` are `LoadUser`, `Login`,
`CheckState`, `FetchProfile`, `UpsertByProvider`, `Create` the sign-in,
`FindSession`, `Delete` the sign-out, and `Receive` delivers the response, in any
order, with its cookies.  A Redis operation is `Answered`, or `Unanswered` with or
without its effect.  `met` is a history variable: who was active at some time since
the request was sent.  `Tick` is the expiry of keys.

### Weather
`Current` step by step: `FromFresh`, `FromMemo`, `Do` (singleflight), `Fetched` /
`FetchFails` / `Disabled`, `SetFresh`, `SetLast`, `FromLast`, `FromLastMemo`.  A
reading is the time at which the provider took it, so that the age of what is served
can be told.  Time goes by in periods (`Tick`); `Slow` bounds one fetch, which the
code bounds by the HTTP client's 3 s and Redis's operation time-out.  The mapping
of provider codes to conditions is left out.

### OpeningHours
The state is the `cafe_hour` rows of one cafe, the date in Jakarta, and a page that a
visitor fetched.  `resolveDay`, `hourTier` are translated from Go; `oh_match`,
`tier`, `oh_kept`, `day_closed`, `OpenAt` from the common table expressions of
the SQL filter, separately and under their names.  A time is a number, `Midnight`
the last minute.  The order in which ranges are displayed is left out.

### CafeSearch
One client walks through the pages of a search.  `Request` parses, validates and
normalises; `ResolveFocus`, `ResolveFilters`, `ResolveWeather`, `SearchRows` are the
separate reads, and `EditCafe`, `EditPlace`, `WeatherChanges` may come between any
two.  `Matches` is the WHERE clause; `SortKey` and `OrderKey` the ORDER BY
clause; `Orders` are all orders PostgreSQL may give (so that a sort without
tiebreaker would be caught); `Offset` wraps like an `int`.  Distances, polygons and
average scores are data, given by constants; whether a cafe is open is a column
here and the subject of `OpeningHours`, geometry of `Places`, averages of `CafePages`;
labels and descriptions are left out.

### ReviewListing
A reader walks through a cafe's public reviews.  `Enter` and `Continue` send a cursor
(his own, or the last `next_cursor`), `CafeIDByLocationID`, `VisibleReviews` and
`Respond` are the statements of `List`, and any of them may fail (`DbError`).
`Key` is the sort key, `After` the WHERE clause, `Top` the ORDER BY and LIMIT, `Page`
the row that is looked ahead at and the cursor.  A POST or PUT is two actions, `Begin`,
which fixes `updated_at = now()`, and `Create` or `Update`, when it commits; so a PUT
that waited can lower a key.  `Moderate`, `Pin`, `AddPartnership`, `SetActive`,
`SetOpen` are mission control's.  `walk` is a history variable: what was listed,
once or again, what has stayed as it was, and what was lowered.  It stands beside `Reviews`
and not on top of it: what a write does to its ratings, and how writes exclude
each other, do not matter to the order of the list.

### Places
Six queries say where a place is: `Ancestors` and `Descendants` (location pages and
the district list), `Slug` (quicksearch), `Breadcrumb` (search), `CafeLocations` (cafe
page, and the area of a search's card in `CafesIn`) and `NameAt` (the name of a spot).
They differ in whether they compare the whole of a geometry (`Within`) or a point on
its surface (`SurfaceWithin`), and in which statuses they look at.  What PostGIS
would answer is a map; `MapsAssumption` says what geometry implies: what
contains a whole geometry contains the point on its surface, and a cafe or poi is
a point.  A visitor sends one request after the other; a request is a row of
statements, between which mission control changes a status or the map.  `seen` keeps
the responses that no change overtook, for the properties to compare.

### CafePages
What scores and prices come to: `CafeReviewAggregatesByLocationID` and
`CafeRatingsByLocationID` (review page), `CafeByLocationID` and
`CafePriceRankByLocationID` (cafe page), `GetFilters`, `RatingCategoriesByIDs` and
`Search`.  Scores are submitted in thousandths and stored in hundredths
(`Stored`), averaged and rounded (`Rounded`), matched with buckets in Go (`Marked`) and
in SQL (`Having`); the search sorts by exact averages, as fractions (`Before`).
price-rank is a kind as the others are: users may rate it, the review page shows it, and
the search takes the ids of its buckets; besides, its buckets are the tiers of prices
(`Tiers`).  `BucketsAssumption` says that the buckets of a kind share no hundredth, which
the seeder sees to and not the schema.  They may leave some out: the seeded buckets of
price-rank do, so that a score of 25 000.50 is in none; those of the other kinds are
`Gapless`.  A bucket need not have a slug, and most seeded ones do not.  Such a bucket has
an id that the search takes, but the review page never marks it.  So the properties
compare the search with the score that is shown (`ShownScoreIsFound`), and marks with
slugs (`OneBucketHolds`).  Requests, edits and `seen` are as in `Places`.

## Runs

Twelve runs; the mutants in `PROJECT.json` show for each property of the passing
runs a plausible bug that it catches.

| Run | Question | Instance |
|---|---|---|
| `ReviewsWrites` | Are racing writes atomic, exclusive and final?  Does the answer of a write show that write? | 3 requests: any of POST, PUT, DELETE of one user and POST of another, with moderation and failures; or two POSTs beside a GET mine or a list, with moderation and an account or a place that changes |
| `ReviewsOldKey` | Before 012: does every request end? | 3 requests, two types inserted in either order, deadlocks, failures; or two POSTs beside a list, with moderation and an account or a place that changes as well |
| `ReviewsTornList` | *violated:* are listed ratings those of the approved text? | a POST, a PUT and a list |
| `ReviewListing` | Is a walk along `next_cursor` complete, without repetition, and does it end? | 4 reviews in pages of 1, two tables, 6 foreign cursors, 3 changes or failures |
| `SessionsLifetimes` | Index complete, sign-out final? | 3 requests of any kind, a session of 2 periods, Redis outages |
| `SessionsAccounts` | Served only while active? | 3 requests, 2 users, accounts deactivated and taken back, cookies lost |
| `WeatherAge` | How old can a served reading be? | 3 searches on 2 processes, clock to 5, time to live 1 and 3, outages, provider failures, restarts |
| `WeatherReturns` | Does each search return, unhurt by cancellations? | 3 searches on one process, provider off, sound or flaky |
| `OpeningHours` | Do Go and SQL agree, do dated rows stay in bounds? | up to 3 of 30 rows of all tiers, 4 days, 3 times of day |
| `SearchPages` | Do pages partition the matches, does the banner fit, is the radius kept? | 3 cafes, 43 queries, one refused by each check among them, walks of 3 pages, one change outside |
| `Places` | Do all pages agree where a place is, and does a slug lead to pages? | 6 places of every type, 4 maps, every pair of responses, one change |
| `CafePages` | Is what a page shows what the search finds and sorts by? | 2 cafes, 3 reviews, the seeded buckets of noise and of price-rank, 5 forms, two of them refused, 4 prices, 9 searches, every pair of responses, one change |

Why the bounds are enough.  Reviews: every conflict in the code is between two
writers of one (user, cafe) or (cafe, type) key, so two requests meet in every way
and the third plays the one that ends before, between or after them.  Sessions: a
login, its callback and one more request of the same browser; two periods tell
"before" from "after" half of a session's life.  Weather: two callers share a fetch
on one process while a third uses the other; the clock outlasts both times to live.
OpeningHours: agreement depends on the best tier and the rows in it, so that
two tiers and two rows in one matter, and a third date separates yesterday from
tomorrow.  CafeSearch: two equal cafes tie and a third differs; page sizes 1 and 2 make
full, partial and empty pages; `Half` = 512 stands for 2^63, and pages 200 and 343
wrap to a negative and to a small offset.  ReviewListing: pages of one review make each
review a page's bound; three changes are a pin, an unpin and a commit of an older PUT
in one walk.  Places: two districts, two areas, a poi and a cafe, on maps where all is in its
place, where districts and areas overlap, where an area has no district or a poi another
one than its area, and where points lie outside; a property compares two
responses, so that the visitor starts anew after two.  CafePages: two reviews of
one cafe make averages that fall between hundredths, between two buckets of noise, and a
single score between two of price-rank; the other
cafe is there to be sorted before or after.  One change suffices in both: `seen` is
emptied by a change, and a request it overtakes is not kept.

`ReviewsWrites` bounds its races in the MC module: `SmallRaces` and `OneRace` keep a
request that only reads with two POSTs, a moderator who approves or rejects, and one
account or location that changes, and without statements that fail.  Beside three writes
statements may fail, no account or location changes, and the moderator approves or deletes,
as no write tells rejected from approved.  A moderator decides once about a text.
`ReviewsOldKey` checks liveness; its `CalmWithoutList` leaves out only steps that are under no
fairness (moderation, accounts, locations), so that what a request owes is untouched.

Symmetry is used for requests in safety runs only, never where liveness is checked.
Deadlock checking is off where the system really stops: all requests answered.

### Fairness
`Reviews`: weak fairness of each request's next step.  The goroutine of a request
runs until it answers, PostgreSQL wakes a waiter when the transaction it waits for
ends, and detects deadlocks (`DeadlockVictim`).  Failures and mission
control are under no fairness.  `Weather`: weak fairness of each caller; the provider
call is bounded by the client's time-out, Redis operations by `opTimeout`, and
waiters wait for a fetch that is itself a fair caller.  `ReviewListing`: weak fairness of
`Serve`, the steps of a request and the reader's asking for the next page; `WalkEnds`
is about a reader who goes on, and says that the changes, which are bounded, are all that
can make his walk longer.  `Sessions`, `OpeningHours`, `CafeSearch`, `Places` and
`CafePages` have only safety properties and assume none.

### What the violated run shows
`ReviewsTornList`: the public list reads rows and ratings in two statements, outside
of a transaction (`service/review.go:47`).  A PUT that commits in between sends the
review back to moderation, and its new, unmoderated ratings are served under the old,
approved text.

Differences to the documentation noticed while modelling and not made runs: a POST
or PUT may be answered with a status other than `pending` if a moderator decides
between commit and re-read (`docs/api-contracts.md:988`); `weather=current` is "cached
≤ 30 min" (`docs/api-contracts.md:166`) but falls back to readings of up to 24 hours; a
caller that missed the caches before a fetch ended starts another
(`service/weather.go:57` says misses collapse); a tag's description is shown "only when
filtering by a single tag and nothing else" (`docs/api-contracts.md:224`), but weather and
status filters are not looked at (`service/cafe.go:406`); before 012 a deleted
review's ratings also block the same user's next POST, not only "a second
reviewer" (`repository/review.go:297`).  `total` is "total matching cafes (across all
pages)" (`docs/api-contracts.md:221`), but comes with the rows, so that a page past
the last one reports 0 (`repository/cafe.go:587`).  The callback "answers 503" without
Redis (`docs/api-contracts.md:779`), but when Redis goes down between login and callback it
redirects with `auth_error=failed`.  The district list has "flat descendants (areas +
POIs)" (`docs/api-contracts.md:550`, `service/location.go:76`), but `Descendants` lists only
areas of a district.  Ancestors are "empty for districts" (`docs/api-contracts.md:634`), but a
district inside another has one.  `price.rank` is "null if price data is missing"
(`docs/api-contracts.md:383`), but also for a median between two tiers, as of 20 001 and
30 000.

## Proofs

TLAPS proves the following for every value of the constants that satisfies the
modules' assumptions (`ASSUME`, evaluated by TLC in each run).

* **`ReviewsProofs`** – `TypeCorrect`, `OneLiveReviewAlways`, `DeletedIsFinalAlways`,
  `RatingsMatchTextAlways`, `RatingsNeverCollideAlways`, `ReviewsImplementBook`,
  `AnswerIsOwnOrLaterAlways`.  `TypeOK` is not inductive: a step uses `row[q]` as a
  review, so `TypeInv` adds `InFlight`, which says that a request inside its
  transaction has one.  One live review per slot does not follow from Create's SELECT.
  `SlotInv` adds what the database's locks give: a request that has not inserted has
  no row (`Fresh`), an open transaction works on its own slot (`Owned`) on a row that
  is live or its own (`HeldRow`, `OnlyHeld`), and no two open transactions have one
  slot (`Exclusive`).  `DraftInv` says how far a transaction's ratings are: what is
  drafted and what is still to do make up what was submitted, so that the commit
  stores exactly it.

  The refinement adds `WriterInv`, what a request that has stored nothing yet is
  doing.  A slot's shelf holds its one live review (`ShelvesAreRight`), so that a step
  that stores nothing leaves every shelf (`SameShelves`), and one that does changes
  one shelf (`OneShelf`).  Lemma by lemma, `StepBook` maps each action of the code: a
  COMMIT, known or not, is the book's Create or Update, `SoftDelete` its Delete, a
  conflict or a miss what the book answers then, and all else a stutter.
  `AnswerIsOwnOrLater` is about `HSpec`, whose steps are steps of `Spec`, so that all of the
  above holds there too.  `AnswerInv` says that `told[q]` has the present state of the review
  while `q` reads it back (`ToldOK`), and that what `q` has read so far is in it (`ReadOK`); that
  the first state told is what the write made is the refinement's doing.
* **`SessionsProofs`** – `SessionsTypeCorrect`, `IndexCoversSessionsAlways`,
  `ServedWhileActiveAlways`, `SignedOutIsRevokedAlways`.  The index needs that a token
  not yet created is nowhere (`Fresh`) and that a request revokes a token under the
  user it found it for (`Known`).  `Served` ties the user a request found to `met` along
  every path.  A sign-out is final because only `Create` opens a session, and only
  one that was never created before (`StaysClosed`): requests that have read the
  session may still be served, but do not write it again.
* **`WeatherProofs`** – `WeatherTypeCorrect`, `ServedIsRecentAlways`,
  `MemoNeverOlderAlways`, `CancelHurtsNobodyAlways`.  `IInv` gives the age of what
  every cache holds: age plus remaining time is bounded by time to live plus `Slow`
  (`Aged`), the same for the process's reading, and a fetch is not older than `Slow`.
* **`OpeningHoursProofs`** – `HoursTypeCorrect`, `SearchAgreesWithPageAlways`,
  `OvernightGoesOnAlways`, `DatedRowsStayInBoundsAlways`.  `TiersAgree` compares the
  two definitions of a tier; `SameRows` and `SameRanges` follow, then the page's entry for
  a day and the search's answer.  `PageInv` says that a page is the
  resolution of the rows as they still are.
* **`CafeSearchProofs`** – `SearchTypeCorrect`, `BannerMatchesCafesAlways`,
  `NearbyMeansNearbyAlways`, `PagesPartitionAlways`.  `CallInv` ties a request on its way
  to the query that was asked: the query is one that validation lets through (`Fit`),
  the request what validation makes of it (`Answers`), and its weather the banner's.
  `ReplyInv` keeps the same for the pages that follow.  `RowsOfPage` says what
  `SearchRows` answers.

  That pages partition the matches rests on three facts.  The ORDER BY clause leaves one
  order only (`OneOrder`): keys are of one length, the id makes them differ, and two
  orders would differ at a first place.  A request for a further page differs from
  the first in its page only, which neither finds nor orders cafes
  (`PageDoesNotMatter`).  And an offset is exact or an error (`PageIsSlice`): a walk
  goes up by at most 50 rows a page, so it cannot jump over the negative half of the
  range.  This needs `HalfAssumption`, that an int counts beyond 50.  `PagesInv` says
  that the pages so far are the first slices of one order of what matches now; flattened
  they are its front (`PagesFlatten`).
* **`ReviewListingProofs`** – `ListingTypeCorrect`, `SteadyListedOnceAlways`,
  `TwiceOnlyIfLoweredAlways`, `CalmWalkIsExactAlways`.  `Less` is a strict total order
  on keys, so that the cursor splits the reviews: the inductive invariant says that what
  has stayed as it was is listed if and only if it is above the cursor, and that what
  was listed is not below it unless it was lowered.  A page moves the cursor to the
  last row it lists, and nothing lies between two pages.
* **`PlacesProofs`** – `PlacesTypeCorrect`, `OneAddressAlways`, `ParentListsChildAlways`,
  `NamedAreaHasCafeAlways`, `SlugHasPagesAlways`.  `Current` says that a response that
  no change overtook is what the queries would return now, `Reading` the same of what a
  request on its way has read; a change empties `seen`, every other step leaves the
  tables alone.  The properties then compare the queries on one status and
  one map.  Lookups take the lowest id, which exists by well-foundedness of `<` on the
  naturals (`Least`), not by induction.
* **`CafePagesProofs`** – `CafePagesTypeCorrect`, `OneBucketHoldsAlways`,
  `ShownScoreIsFoundAlways`, `RankIsItsTierAlways`, `RatingOrderIsShownAlways`.  Averages are
  sums over sets of any size.  A sum lies between the number of its terms times the
  least and the greatest of them (`SumBounds`, by a least counterexample), so that an
  average, rounded, lies between stored scores (`AverageBetween`); stored scores lie
  in the span of their kind's buckets (`Rated`), of which no hundredth is in two
  (`NotInTwo`), nor in none if the kind is `Gapless` (`InOneBucket`).  Rounding keeps the order of fractions
  (`RoundedOrder`), so that an order by exact averages is one by shown scores.
  `Now` and `Reading` are as `Current` and `Reading` of `Places`.

Every invariant, action property and refinement that the passing runs check is also a
theorem.  Only model-checked is liveness (`EveryRequestAnswered`, `EveryCallReturns`,
`WalkEnds`): fairness and `ENABLED` are outside of what the prover does.  So is induction over
data; where a sum or a row of pages calls for it, the proofs argue by a least
counterexample, from the well-foundedness of `<` (`Least`).

Two attempts failed for a good reason and corrected the models.  Pages overlap if an int
is so small that an offset can wrap past all negative numbers to a page seen before, hence
`HalfAssumption`; and `BucketsAssumption` did not say that two buckets of a kind have two
lower bounds, as the seeded ones do (the seeder tells them apart by these:
`migrations/003_data_seeder.sql:145`).  One assumption is about data that the code takes for
granted: a tier's bounds are whole rupiah (`TiersAssumption`), as `FilterService.Get` cuts
the rest off.

## Not modelled

* Trigram ranking (quicksearch) and PostGIS geometry are the database's; `Places` is given
  the outcome of the latter.  Hits of quicksearch on tags and buckets, tags and
  weather values of the filters, images, texts and polygons are lookups of rows.
* A cursor made by hand that decodes but that PostgreSQL refuses, as one whose id is no int4 or
  whose year it does not know, is a 500 each time; `ReviewListing` has only cursors that
  the database takes.
* The feed and the random cafe are one query each, with nothing to compare it with.
* A page that a change overtakes may mix two states (`service/cafe.go:559`).  The models
  have these behaviours; no property forbids them, as nothing in the repository does.
* The migrations 011 and 012 beside a live server: they run once, by hand; `Reviews` has the
  keys before and after.  012 clears the text of every backfilled review, also of one that
  was edited in between (`migrations/012_user_reviews_cleanup.sql:14`).
* `SafeRedirect`, random tokens that fail, Google left unconfigured (503 on every auth
  route), the validation of review bodies, JSON and labels, configuration, CORS and the origin
  check hold no state that two requests share.  Seeders run once, by hand.

## Plan

Done, the most important behaviour first: `Reviews`, `ReviewBook` and their proofs;
`Sessions` and `Weather` with proofs; `OpeningHours` and `CafeSearch` with proofs;
`ReviewListing`, `Places` and `CafePages` with proofs.

Left: a measure for each fair request that its steps lower, as an action property with a
proof, for what `WalkEnds` and `EveryCallReturns` rest on; an abstract session store (a
session is open from its creation until one revocation or expiry) that `Sessions`
implements; the migrations beside a live server, should they be run so again.
