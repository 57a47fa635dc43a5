----------------------------- MODULE OpeningHours -----------------------------
(***************************************************************************)
(* The cafe_hour rows of one cafe, resolved twice: by resolveDay in Go for *)
(* the cafe's page, and by the open_hour filter of the search in SQL.      *)
(*                                                                         *)
(* A date is the number of its day, a time of day a number up to Midnight, *)
(* the minute 23:59.  Rows with equal columns resolve alike, so that the   *)
(* table is a set; ranges are listed in an order nothing depends on.       *)
(***************************************************************************)
EXTENDS Integers, FiniteSetsExt

CONSTANTS
    Rows,       \* the rows that mission control may write
    Midnight,   \* the last minute of a day
    LastDate,   \* bound of the calendar
    MaxRows,    \* bound of the number of rows
    Null

Days == 0..6
Times == 0..Midnight
Dates == 1..LastDate

HourRow == [day: Days \cup {Null}, open: Times \cup {Null}, close: Times \cup {Null},
            from: Dates \cup {Null}, until: Dates \cup {Null}, shut: BOOLEAN]

ASSUME BoundsAssumption == {Midnight, LastDate, MaxRows} \subseteq Nat /\ LastDate >= 1
ASSUME NullAssumption == Null \notin Int
ASSUME RowsAssumption == Rows \subseteq HourRow

VARIABLES
    hours,  \* the cafe_hour rows of the cafe
    today,  \* the date in Jakarta
    page    \* the schedule a visitor got from GET /v1/cafe/:id, and when

vars == <<hours, today, page>>

Weekday(date) == date % 7

\* "", which sorts before every date
EmptyDate == 0

----------------------------------------------------------------------------
(* resolveDay, in Go *)

tierNone == 0
tierDatedDay == 1
tierDatedAny == 2
tierDay == 3
tierAny == 4

Undated(h) == h.from = Null /\ h.until = Null

\* Both bounds are compared with the date as strings; a null bound is open.
OutOfBounds(h, date) == \/ h.from # Null /\ h.from > date
                        \/ h.until # Null /\ h.until < date

hourTier(h, date, day) ==
    CASE h.day # Null /\ h.day # day -> tierNone
      [] (h.day = Null \/ h.day = day) /\ Undated(h) ->
            IF h.day # Null THEN tierDay ELSE tierAny
      [] (h.day = Null \/ h.day = day) /\ ~Undated(h) ->
            IF OutOfBounds(h, date) THEN tierNone
            ELSE IF h.day # Null THEN tierDatedDay ELSE tierDatedAny

\* Mutant: dated rows are not skipped in the regular week
AllTiers(rows, date, day, dated) == {hourTier(h, date, day) : h \in rows} \ {tierNone}

\* The tiers that have rows
Tiers(rows, date, day, dated) ==
    {t \in {hourTier(h, date, day) : h \in rows} : t # tierNone /\ (dated \/ t >= tierDay)}

\* The rows of the most specific tier
BestRows(rows, date, day, dated) ==
    LET tiers == Tiers(rows, date, day, dated) IN
    {h \in rows : tiers # {} /\ hourTier(h, date, day) = Min(tiers)}

\* Mutant: rows with a NULL open or close are not ignored
AllRanges(rows) == {[open |-> h.open, close |-> h.close] : h \in rows}

RangesOf(rows) ==
    {[open |-> h.open, close |-> h.close] :
         h \in {g \in rows : g.open # Null /\ g.close # Null}}

\* closed, special and ranges of a day: closed wins over any open row.
resolveDay(rows, date, day, dated) ==
    LET best == BestRows(rows, date, day, dated)
        closed == \E h \in best : h.shut
    IN [closed |-> closed,
        special |-> \E h \in best : ~Undated(h),
        ranges |-> IF closed THEN {} ELSE RangesOf(best)]

\* Seven days from today on
ResolveHours(rows, date) ==
    [i \in Days |-> resolveDay(rows, date + i, Weekday(date + i), TRUE)]

ResolveRegularHours(rows) == [day \in Days |-> resolveDay(rows, EmptyDate, day, FALSE)]

----------------------------------------------------------------------------
(* The open_hour filter of CafeRepository.Search, in SQL *)

\* oh_match: the rows that apply to a date, and their tier
oh_match(rows, dd) == {h \in rows : /\ h.day = Null \/ h.day = Weekday(dd)
                                    /\ h.from = Null \/ h.from <= dd
                                    /\ h.until = Null \/ h.until >= dd}

tier(h) == IF h.from # Null \/ h.until # Null
           THEN IF h.day # Null THEN 1 ELSE 2
           ELSE IF h.day # Null THEN 3 ELSE 4

\* oh_ranked and the WHERE clause of oh_kept
oh_kept(rows, dd) == {h \in oh_match(rows, dd) :
                          \A g \in oh_match(rows, dd) : tier(h) <= tier(g)}

\* Mutant: a closed row of a less specific tier closes the day
AnyClosed(rows, dd) == \E h \in oh_match(rows, dd) : h.shut

day_closed(rows, dd) == \E h \in oh_kept(rows, dd) : h.shut

\* The rows that the last SELECT looks at
Usable(rows, dd) == {h \in oh_kept(rows, dd) : /\ ~day_closed(rows, dd)
                                               /\ h.open # Null
                                               /\ h.close # Null}

\* Mutant: no spill into a day that is closed itself
SpillUnlessClosed(rows, dd, t) ==
    /\ ~day_closed(rows, dd)
    /\ \E h \in Usable(rows, dd - 1) : h.close < h.open /\ t <= h.close

\* An overnight range of the day before
Spill(rows, dd, t) == \E h \in Usable(rows, dd - 1) : h.close < h.open /\ t <= h.close

\* Does the search find the cafe at time t of a date?
OpenAt(rows, dd, t) ==
    \/ \E h \in Usable(rows, dd) : \/ h.close > h.open /\ t >= h.open /\ t <= h.close
                                   \/ h.close < h.open /\ t >= h.open
    \/ Spill(rows, dd, t)

----------------------------------------------------------------------------
NoPage == [on |-> EmptyDate]

\* 013_cafe_hour.sql makes one every-day row of a cafe's old pair of hours.
Backfilled(o, c) == [day |-> Null, open |-> o, close |-> c,
                     from |-> Null, until |-> Null, shut |-> FALSE]

Init == /\ hours \in {{}} \cup {{Backfilled(o, c)} : o \in Times, c \in Times}
        /\ today = 1
        /\ page = NoPage

\* Mission control adds or removes a row; a page of before promises nothing.
AddRow(h) == /\ h \notin hours
             /\ Cardinality(hours) < MaxRows
             /\ hours' = hours \cup {h}
             /\ page' = NoPage
             /\ UNCHANGED today

RemoveRow(h) == /\ h \in hours
                /\ hours' = hours \ {h}
                /\ page' = NoPage
                /\ UNCHANGED today

\* The visitor keeps the page while days go by.
NextDay == /\ today < LastDate
           /\ today' = today + 1
           /\ UNCHANGED <<hours, page>>

\* CafeService.GetByID
GetByID == /\ page' = [on |-> today, hours |-> ResolveHours(hours, today),
                       regular |-> ResolveRegularHours(hours)]
           /\ UNCHANGED <<hours, today>>

Next == \/ \E h \in Rows : AddRow(h) \/ RemoveRow(h)
        \/ NextDay \/ GetByID

Spec == Init /\ [][Next]_vars

----------------------------------------------------------------------------
(* Properties *)

HourRange == [open: Times, close: Times]
DayHours == [closed: BOOLEAN, special: BOOLEAN, ranges: SUBSET HourRange]
Page == [on: Dates, hours: [Days -> DayHours], regular: [Days -> DayHours]]

\* Every variable has its type: a page never shows a time that is missing.
TypeOK == /\ hours \subseteq HourRow
          /\ today \in Dates
          /\ page \in Page \cup {NoPage}

\* What the page's entry for a day says of time t, on that day and on the next
ShownOn(entry, t) ==
    \E r \in entry.ranges : \/ r.open < r.close /\ r.open <= t /\ t <= r.close
                            \/ r.close < r.open /\ r.open <= t

ShownAfter(entry, t) == \E r \in entry.ranges : r.close < r.open /\ t <= r.close

\* The search finds a cafe at exactly the times that its page shows, also days
\* after the visitor fetched the page: resolveDay in Go and the filter in SQL
\* agree on tiers, bounds, closed days, missing times and overnight ranges.  The
\* page does not show the night before its first day.
SearchAgreesWithPage ==
    LET i == today - page.on IN
    page # NoPage /\ i \in Days =>
        \A t \in Times :
            OpenAt(hours, today, t) <=>
                \/ ShownOn(page.hours[i], t)
                \/ IF i = 0 THEN Spill(hours, today, t) ELSE ShownAfter(page.hours[i - 1], t)

\* A cafe that is open overnight is found until the last minute of the day and
\* from the first of the next one on, whatever holds for that one.
OvernightGoesOn ==
    [][NextDay =>
          \A r \in resolveDay(hours, today, Weekday(today), TRUE).ranges :
              r.close < r.open => OpenAt(hours, today, Midnight) /\ OpenAt(hours, today', 0)]_vars

\* A holiday or special event changes the schedule inside its dates only, and
\* never the regular week.
DatedRowsStayInBounds ==
    [][\A h \in Rows : (AddRow(h) \/ RemoveRow(h)) /\ ~Undated(h) =>
          /\ ResolveRegularHours(hours') = ResolveRegularHours(hours)
          /\ \A date \in Dates : OutOfBounds(h, date) =>
                resolveDay(hours', date, Weekday(date), TRUE) =
                    resolveDay(hours, date, Weekday(date), TRUE)]_vars
=============================================================================
