-------------------------- MODULE OpeningHoursProofs --------------------------
(***************************************************************************)
(* Proofs about OpeningHours, for any rows, times and calendar.            *)
(***************************************************************************)
EXTENDS OpeningHours, TLAPS

----------------------------------------------------------------------------
(* The two resolutions keep the same rows of a date                        *)

LEMMA RowType ==
    ASSUME NEW h \in HourRow
    PROVE  /\ h.day \in Days \cup {Null}
           /\ h.open \in Times \cup {Null} /\ h.close \in Times \cup {Null}
           /\ h.from \in Dates \cup {Null} /\ h.until \in Dates \cup {Null}
           /\ h.from # Null => h.from \in Int /\ h.from >= 1
           /\ h.until # Null => h.until \in Int /\ h.until >= 1
           /\ h.open # Null => h.open \in Int /\ 0 <= h.open /\ h.open <= Midnight
           /\ h.close # Null => h.close \in Int /\ 0 <= h.close /\ h.close <= Midnight
           /\ h.shut \in BOOLEAN
BY BoundsAssumption DEF HourRow, Times, Dates

\* hourTier is one of five numbers.
LEMMA TierRange ==
    ASSUME NEW h, NEW date, NEW day
    PROVE  hourTier(h, date, day) \in 0..4
<1>1. CASE h.day # Null /\ h.day # day
  BY <1>1 DEF hourTier, tierNone
<1>2. CASE (h.day = Null \/ h.day = day) /\ Undated(h)
  BY <1>2 DEF hourTier, tierDay, tierAny
<1>3. CASE (h.day = Null \/ h.day = day) /\ ~Undated(h)
  BY <1>3 DEF hourTier, tierNone, tierDatedDay, tierDatedAny
<1> QED
  BY <1>1, <1>2, <1>3

\* A row that has a tier in Go is one that the join in SQL matches, with the same tier.
LEMMA TiersAgree ==
    ASSUME NEW rows, rows \subseteq HourRow, NEW h \in rows, NEW dd \in Int
    PROVE  /\ h \in oh_match(rows, dd) <=> hourTier(h, dd, Weekday(dd)) # tierNone
           /\ h \in oh_match(rows, dd) => hourTier(h, dd, Weekday(dd)) = tier(h)
<1> DEFINE day == Weekday(dd)
<1>0. /\ h.from # Null => h.from \in Int
      /\ h.until # Null => h.until \in Int
  BY RowType
<1> HIDE DEF day
<1>1. CASE h.day # Null /\ h.day # day
  BY <1>1 DEF hourTier, tierNone, oh_match, day
<1>2. CASE (h.day = Null \/ h.day = day) /\ Undated(h)
  BY <1>2 DEF hourTier, tierNone, tierDay, tierAny, oh_match, tier, Undated, day
<1>3. CASE (h.day = Null \/ h.day = day) /\ ~Undated(h)
  <2>1. h \in oh_match(rows, dd) <=> ~OutOfBounds(h, dd)
    BY <1>0, <1>3 DEF oh_match, OutOfBounds, day
  <2> QED
    BY <2>1, <1>3 DEF hourTier, tierNone, tierDatedDay, tierDatedAny, tier, Undated, day
<1> QED
  BY <1>1, <1>2, <1>3

\* A set of tiers has a least one.
LEMMA LeastTier ==
    ASSUME NEW S, S \subseteq 1..4, S # {}
    PROVE  Min(S) \in S /\ \A t \in S : Min(S) <= t
<1>1. \E s \in S : \A t \in S : s <= t
  <2>1. CASE 1 \in S
    BY <2>1
  <2>2. CASE 1 \notin S /\ 2 \in S
    BY <2>2
  <2>3. CASE 1 \notin S /\ 2 \notin S /\ 3 \in S
    BY <2>3
  <2>4. CASE 1 \notin S /\ 2 \notin S /\ 3 \notin S
    <3>1. \A t \in S : t = 4
      BY <2>4
    <3>2. PICK s \in S : TRUE
      OBVIOUS
    <3> QED
      BY <3>1, <3>2
  <2> QED
    BY <2>1, <2>2, <2>3, <2>4
<1> QED
  BY <1>1 DEF Min

\* A row that applies to a day, and is looked at
Applies(h, date, day, dated) == /\ hourTier(h, date, day) # tierNone
                                /\ dated \/ hourTier(h, date, day) >= tierDay

\* The rows of the most specific tier, without Min
LEMMA BestRowsAre ==
    ASSUME NEW rows, NEW date, NEW day, NEW dated \in BOOLEAN
    PROVE  BestRows(rows, date, day, dated) =
               {h \in rows : /\ Applies(h, date, day, dated)
                             /\ \A g \in rows : Applies(g, date, day, dated) =>
                                    hourTier(h, date, day) <= hourTier(g, date, day)}
<1> DEFINE T(h) == hourTier(h, date, day)
           Counts(h) == T(h) # tierNone /\ (dated \/ T(h) >= tierDay)
           tiers == Tiers(rows, date, day, dated)
<1>1. \A h : T(h) \in 0..4
  BY TierRange
<1> HIDE DEF T
<1>2. tiers = {t \in {T(h) : h \in rows} : t # tierNone /\ (dated \/ t >= tierDay)}
  BY DEF Tiers, T
<1>3. tiers \subseteq 1..4
  BY <1>1, <1>2 DEF tierNone
<1>4. \A h \in rows : Counts(h) <=> T(h) \in tiers
  BY <1>2
<1>5. BestRows(rows, date, day, dated) = {h \in rows : tiers # {} /\ T(h) = Min(tiers)}
  BY DEF BestRows, T
<1>6. \A t \in tiers : \E g \in rows : t = T(g)
  BY <1>2
<1> HIDE DEF tiers, Counts
<1>7. ASSUME NEW h \in rows
      PROVE  (tiers # {} /\ T(h) = Min(tiers)) <=>
                 (Counts(h) /\ \A g \in rows : Counts(g) => T(h) <= T(g))
  <2>1. CASE tiers = {}
    BY <2>1, <1>4
  <2>2. CASE tiers # {}
    <3>1. Min(tiers) \in tiers /\ \A t \in tiers : Min(tiers) <= t
      BY <2>2, <1>3, LeastTier
    <3>2. ASSUME T(h) = Min(tiers)
          PROVE  Counts(h) /\ \A g \in rows : Counts(g) => T(h) <= T(g)
      BY <3>1, <3>2, <1>4
    <3>3. ASSUME Counts(h), \A g \in rows : Counts(g) => T(h) <= T(g)
          PROVE  T(h) = Min(tiers)
      <4>1. PICK g \in rows : Min(tiers) = T(g)
        BY <3>1, <1>6
      <4>2. T(h) <= Min(tiers) /\ Min(tiers) <= T(h)
        BY <4>1, <3>1, <3>3, <1>4
      <4>3. T(h) \in 0..4 /\ Min(tiers) \in 1..4
        BY <3>1, <1>1, <1>3
      <4> QED
        BY <4>2, <4>3
    <3> QED
      BY <3>2, <3>3, <2>2
  <2> QED
    BY <2>1, <2>2
<1> QED
  BY <1>5, <1>7 DEF T, Counts, Applies

\* For every date, resolveDay and the search keep the same rows.
LEMMA SameRows ==
    ASSUME NEW rows, rows \subseteq HourRow, NEW dd \in Int
    PROVE  BestRows(rows, dd, Weekday(dd), TRUE) = oh_kept(rows, dd)
<1> DEFINE T(h) == hourTier(h, dd, Weekday(dd))
<1>1. ASSUME NEW h \in rows
      PROVE  /\ h \in oh_match(rows, dd) <=> T(h) # tierNone
             /\ h \in oh_match(rows, dd) => T(h) = tier(h)
  BY TiersAgree
<1>2. oh_match(rows, dd) \subseteq rows
  BY DEF oh_match
<1>3. BestRows(rows, dd, Weekday(dd), TRUE) =
          {h \in rows : T(h) # tierNone /\ \A g \in rows : T(g) # tierNone => T(h) <= T(g)}
  <2>1. \A h : Applies(h, dd, Weekday(dd), TRUE) <=> T(h) # tierNone
    BY DEF Applies
  <2>2. ASSUME NEW dated \in BOOLEAN
        PROVE  BestRows(rows, dd, Weekday(dd), dated) =
                   {h \in rows : /\ Applies(h, dd, Weekday(dd), dated)
                                 /\ \A g \in rows : Applies(g, dd, Weekday(dd), dated) =>
                                        T(h) <= T(g)}
    BY BestRowsAre
  <2>3. BestRows(rows, dd, Weekday(dd), TRUE) =
            {h \in rows : /\ Applies(h, dd, Weekday(dd), TRUE)
                          /\ \A g \in rows : Applies(g, dd, Weekday(dd), TRUE) =>
                                 T(h) <= T(g)}
    BY <2>2
  <2> QED
    BY <2>1, <2>3
<1> HIDE DEF T
<1>4. \A h \in oh_match(rows, dd) : h \in rows /\ T(h) # tierNone /\ T(h) = tier(h)
  BY <1>1, <1>2
<1>5. \A h \in rows : T(h) # tierNone => h \in oh_match(rows, dd)
  BY <1>1
<1> QED
  BY <1>3, <1>4, <1>5 DEF oh_kept

\* What a page lists for a date are the hours that the search looks at.
LEMMA SameRanges ==
    ASSUME NEW rows, rows \subseteq HourRow, NEW dd \in Int
    PROVE  resolveDay(rows, dd, Weekday(dd), TRUE).ranges =
               {[open |-> h.open, close |-> h.close] : h \in Usable(rows, dd)}
<1> DEFINE best == BestRows(rows, dd, Weekday(dd), TRUE)
<1>1. best = oh_kept(rows, dd)
  BY SameRows
<1>2. resolveDay(rows, dd, Weekday(dd), TRUE).ranges =
          IF \E h \in best : h.shut THEN {} ELSE RangesOf(best)
  BY DEF resolveDay
<1> HIDE DEF best
<1>3. CASE \E h \in best : h.shut
  BY <1>1, <1>2, <1>3 DEF Usable, day_closed
<1>4. CASE ~ \E h \in best : h.shut
  <2>1. Usable(rows, dd) = {g \in best : g.open # Null /\ g.close # Null}
    BY <1>1, <1>4 DEF Usable, day_closed
  <2> QED
    BY <1>2, <1>4, <2>1 DEF RangesOf
<1> QED
  BY <1>3, <1>4

LEMMA UsableType ==
    ASSUME NEW rows, rows \subseteq HourRow, NEW dd \in Int, NEW h \in Usable(rows, dd)
    PROVE  h.open \in Times /\ h.close \in Times
BY RowType DEF Usable, oh_kept, oh_match, HourRow

----------------------------------------------------------------------------
(* Types, and what a page is                                               *)

\* The page a visitor has is the one the server made on its day, of the rows that
\* are still there.
PageInv ==
    page = NoPage \/ /\ page.on \in Dates
                     /\ page = [on |-> page.on, hours |-> ResolveHours(hours, page.on),
                                regular |-> ResolveRegularHours(hours)]

IInv == hours \subseteq HourRow /\ today \in Dates /\ PageInv

LEMMA DayType ==
    ASSUME NEW rows, rows \subseteq HourRow, NEW date, NEW day, NEW dated \in BOOLEAN
    PROVE  resolveDay(rows, date, day, dated) \in DayHours
<1> DEFINE best == BestRows(rows, date, day, dated)
<1>1. best \subseteq HourRow
  BY DEF BestRows
<1> HIDE DEF best
<1>2. RangesOf(best) \subseteq HourRange
  BY <1>1 DEF RangesOf, HourRange, HourRow
<1> QED
  BY <1>2 DEF resolveDay, DayHours, best

LEMMA PageType ==
    ASSUME IInv
    PROVE  TypeOK
<1> USE DEF IInv
<1>1. CASE page = NoPage
  BY <1>1 DEF TypeOK
<1>2. CASE page # NoPage
  <2>1. ResolveHours(hours, page.on) \in [Days -> DayHours]
    BY DayType DEF ResolveHours
  <2>2. ResolveRegularHours(hours) \in [Days -> DayHours]
    BY DayType DEF ResolveRegularHours
  <2> QED
    BY <1>2, <2>1, <2>2 DEF PageInv, TypeOK, Page
<1> QED
  BY <1>1, <1>2

LEMMA Initially == Init => IInv
<1> SUFFICES ASSUME Init  PROVE IInv
  OBVIOUS
<1>1. \A o, c \in Times : Backfilled(o, c) \in HourRow
  BY DEF Backfilled, HourRow
<1>2. today \in Dates
  BY BoundsAssumption DEF Init, Dates
<1> QED
  BY <1>1, <1>2 DEF Init, IInv, PageInv

LEMMA Inductive == IInv /\ [Next]_vars => IInv'
<1> SUFFICES ASSUME IInv, [Next]_vars  PROVE IInv'
  OBVIOUS
<1> USE DEF IInv
<1>1. ASSUME NEW h \in Rows, AddRow(h)  PROVE IInv'
  BY <1>1, RowsAssumption DEF AddRow, PageInv
<1>2. ASSUME NEW h \in Rows, RemoveRow(h)  PROVE IInv'
  BY <1>2 DEF RemoveRow, PageInv
<1>3. CASE NextDay
  <2>1. today' \in Dates
    BY <1>3, BoundsAssumption DEF NextDay, Dates
  <2> QED
    BY <1>3, <2>1 DEF NextDay, PageInv
<1>4. CASE GetByID
  BY <1>4 DEF GetByID, PageInv
<1>5. CASE UNCHANGED vars
  BY <1>5 DEF vars, PageInv
<1> QED
  BY <1>1, <1>2, <1>3, <1>4, <1>5 DEF Next

\* Every variable has its type.
THEOREM HoursTypeCorrect == Spec => []TypeOK
<1>1. Spec => []IInv
  BY Initially, Inductive, PTL DEF Spec
<1>2. IInv => TypeOK
  BY PageType
<1> QED
  BY <1>1, <1>2, PTL

----------------------------------------------------------------------------
(* The search and the page                                                 *)

LEMMA PageAgrees == IInv => SearchAgreesWithPage
<1> DEFINE i == today - page.on
<1> SUFFICES ASSUME IInv, page # NoPage, i \in Days, NEW t \in Times
             PROVE  OpenAt(hours, today, t) <=>
                        \/ ShownOn(page.hours[i], t)
                        \/ IF i = 0 THEN Spill(hours, today, t)
                                    ELSE ShownAfter(page.hours[i - 1], t)
  BY DEF SearchAgreesWithPage
<1> USE DEF IInv
<1>1. page.on \in Dates /\ page.hours = ResolveHours(hours, page.on)
  BY DEF PageInv
<1>2. page.on \in Int /\ today \in Int /\ i \in Int /\ page.on + i = today
  BY <1>1 DEF Dates, Days
<1> DEFINE Listed(dd) == {[open |-> h.open, close |-> h.close] : h \in Usable(hours, dd)}
<1>3. ASSUME NEW j \in Days
      PROVE  page.hours[j].ranges = Listed(page.on + j)
  <2>1. page.hours[j] = resolveDay(hours, page.on + j, Weekday(page.on + j), TRUE)
    BY <1>1 DEF ResolveHours
  <2>2. page.on + j \in Int
    BY <1>2 DEF Days
  <2> QED
    BY <2>1, <2>2, SameRanges
<1>4. page.hours[i].ranges = Listed(today)
  BY <1>2, <1>3
<1>5. i # 0 => page.hours[i - 1].ranges = Listed(today - 1)
  <2>1. i # 0 => i - 1 \in Days /\ page.on + (i - 1) = today - 1
    BY <1>2 DEF Days
  <2> QED
    BY <2>1, <1>3
<1> HIDE DEF i
<1>6. ShownOn(page.hours[i], t) <=>
          \E h \in Usable(hours, today) : \/ h.open < h.close /\ h.open <= t /\ t <= h.close
                                          \/ h.close < h.open /\ h.open <= t
  <2>1. ASSUME ShownOn(page.hours[i], t)
        PROVE  \E h \in Usable(hours, today) :
                   \/ h.open < h.close /\ h.open <= t /\ t <= h.close
                   \/ h.close < h.open /\ h.open <= t
    <3>1. PICK r \in Listed(today) : \/ r.open < r.close /\ r.open <= t /\ t <= r.close
                                     \/ r.close < r.open /\ r.open <= t
      BY <2>1, <1>4 DEF ShownOn
    <3>2. PICK h \in Usable(hours, today) : r = [open |-> h.open, close |-> h.close]
      BY <3>1
    <3> QED
      BY <3>1, <3>2
  <2>2. ASSUME NEW h \in Usable(hours, today),
               \/ h.open < h.close /\ h.open <= t /\ t <= h.close
               \/ h.close < h.open /\ h.open <= t
        PROVE  ShownOn(page.hours[i], t)
    <3>1. [open |-> h.open, close |-> h.close] \in page.hours[i].ranges
      BY <1>4
    <3> QED
      BY <2>2, <3>1 DEF ShownOn
  <2> QED
    BY <2>1, <2>2
<1>7. i # 0 => (ShownAfter(page.hours[i - 1], t) <=> Spill(hours, today, t))
  <2>1. ASSUME i # 0, ShownAfter(page.hours[i - 1], t)
        PROVE  Spill(hours, today, t)
    <3>1. PICK r \in Listed(today - 1) : r.close < r.open /\ t <= r.close
      BY <2>1, <1>5 DEF ShownAfter
    <3>2. PICK h \in Usable(hours, today - 1) : r = [open |-> h.open, close |-> h.close]
      BY <3>1
    <3> QED
      BY <3>1, <3>2 DEF Spill
  <2>2. ASSUME i # 0, NEW h \in Usable(hours, today - 1), h.close < h.open, t <= h.close
        PROVE  ShownAfter(page.hours[i - 1], t)
    <3>1. [open |-> h.open, close |-> h.close] \in page.hours[i - 1].ranges
      BY <2>2, <1>5
    <3> QED
      BY <2>2, <3>1 DEF ShownAfter
  <2> QED
    BY <2>1, <2>2 DEF Spill
<1>8. \A h \in Usable(hours, today) : h.open \in Int /\ h.close \in Int
  BY UsableType, <1>2, BoundsAssumption DEF Times
<1>9. t \in Int
  BY BoundsAssumption DEF Times
<1>10. OpenAt(hours, today, t) <=> ShownOn(page.hours[i], t) \/ Spill(hours, today, t)
  BY <1>6, <1>8, <1>9 DEF OpenAt
<1> QED
  BY <1>7, <1>10

\* Whatever rows a cafe has, the search finds it at exactly the times its page
\* shows, on the day of the page and on the six after it.
THEOREM SearchAgreesWithPageAlways == Spec => []SearchAgreesWithPage
<1>1. Spec => []IInv
  BY Initially, Inductive, PTL DEF Spec
<1> QED
  BY <1>1, PageAgrees, PTL

----------------------------------------------------------------------------
(* Nights                                                                  *)

\* A cafe that is open overnight is found on both sides of midnight, whatever
\* rows the next day has.
THEOREM OvernightGoesOnAlways == Spec => OvernightGoesOn
<1>1. ASSUME IInv, NextDay,
             NEW r \in resolveDay(hours, today, Weekday(today), TRUE).ranges,
             r.close < r.open
      PROVE  OpenAt(hours, today, Midnight) /\ OpenAt(hours, today', 0)
  <2>1. today \in Int /\ hours \subseteq HourRow
    BY <1>1 DEF IInv, Dates
  <2>2. PICK h \in Usable(hours, today) : r = [open |-> h.open, close |-> h.close]
    <3>1. resolveDay(hours, today, Weekday(today), TRUE).ranges =
              {[open |-> h.open, close |-> h.close] : h \in Usable(hours, today)}
      BY <2>1, SameRanges
    <3> QED
      BY <3>1
  <2>3. h.close < h.open
    BY <1>1, <2>2
  <2>4. h.open \in Times /\ h.close \in Times
    BY <2>1, UsableType
  <2>5. Midnight >= h.open /\ 0 <= h.close
    BY <2>4, BoundsAssumption DEF Times
  <2>6. OpenAt(hours, today, Midnight)
    BY <2>3, <2>5 DEF OpenAt
  <2>7. today' - 1 = today
    BY <1>1, <2>1 DEF NextDay
  <2>8. OpenAt(hours, today', 0)
    BY <2>3, <2>5, <2>7 DEF OpenAt, Spill
  <2> QED
    BY <2>6, <2>8
<1>2. IInv /\ [Next]_vars =>
          [NextDay =>
              \A r \in resolveDay(hours, today, Weekday(today), TRUE).ranges :
                  r.close < r.open =>
                      OpenAt(hours, today, Midnight) /\ OpenAt(hours, today', 0)]_vars
  BY <1>1
<1>3. Spec => []IInv
  BY Initially, Inductive, PTL DEF Spec
<1> QED
  BY <1>2, <1>3, PTL DEF Spec, OvernightGoesOn

----------------------------------------------------------------------------
(* Holidays                                                                *)

\* A row that does not apply to a day, or is skipped in the regular week, makes
\* no difference to that day.
LEMMA Irrelevant ==
    ASSUME NEW rows, NEW h, NEW date, NEW day, NEW dated \in BOOLEAN,
           ~Applies(h, date, day, dated)
    PROVE  resolveDay(rows \cup {h}, date, day, dated) = resolveDay(rows, date, day, dated)
<1>1. BestRows(rows \cup {h}, date, day, dated) = BestRows(rows, date, day, dated)
  <2> DEFINE Kept(rs) ==
                 {g \in rs : /\ Applies(g, date, day, dated)
                             /\ \A k \in rs : Applies(k, date, day, dated) =>
                                    hourTier(g, date, day) <= hourTier(k, date, day)}
  <2>1. Kept(rows \cup {h}) = Kept(rows)
    OBVIOUS
  <2>2. BestRows(rows \cup {h}, date, day, dated) = Kept(rows \cup {h})
    BY BestRowsAre
  <2>3. BestRows(rows, date, day, dated) = Kept(rows)
    BY BestRowsAre
  <2> QED
    BY <2>1, <2>2, <2>3
<1> QED
  BY <1>1 DEF resolveDay

LEMMA DatedSkipped ==
    ASSUME NEW h \in HourRow, ~Undated(h), NEW day
    PROVE  /\ ~Applies(h, EmptyDate, day, FALSE)
           /\ \A date : OutOfBounds(h, date) => ~Applies(h, date, day, TRUE)
<1>1. ASSUME NEW date
      PROVE  /\ hourTier(h, date, day) \in {tierNone, tierDatedDay, tierDatedAny}
             /\ OutOfBounds(h, date) => hourTier(h, date, day) = tierNone
  <2>1. CASE h.day # Null /\ h.day # day
    BY <2>1 DEF hourTier
  <2>2. CASE h.day = Null \/ h.day = day
    BY <2>2 DEF hourTier
  <2> QED
    BY <2>1, <2>2
<1> QED
  BY <1>1 DEF Applies, tierNone, tierDatedDay, tierDatedAny, tierDay

\* Adding or removing a dated row changes no day outside its bounds and never
\* the regular week, for any rows a cafe may have.
THEOREM DatedRowsStayInBoundsAlways == Spec => DatedRowsStayInBounds
<1>1. ASSUME NEW h \in Rows, AddRow(h) \/ RemoveRow(h), ~Undated(h)
      PROVE  /\ ResolveRegularHours(hours') = ResolveRegularHours(hours)
             /\ \A date \in Dates : OutOfBounds(h, date) =>
                   resolveDay(hours', date, Weekday(date), TRUE) =
                       resolveDay(hours, date, Weekday(date), TRUE)
  <2>1. h \in HourRow
    BY RowsAssumption
  <2>2. hours' = hours \cup {h} \/ hours = hours' \cup {h}
    BY <1>1 DEF AddRow, RemoveRow
  <2>3. ASSUME NEW date, NEW day, NEW dated \in BOOLEAN, ~Applies(h, date, day, dated)
        PROVE  resolveDay(hours', date, day, dated) = resolveDay(hours, date, day, dated)
    <3>1. /\ resolveDay(hours \cup {h}, date, day, dated) = resolveDay(hours, date, day, dated)
          /\ resolveDay(hours' \cup {h}, date, day, dated) = resolveDay(hours', date, day, dated)
      BY <2>3, Irrelevant
    <3> QED
      BY <2>2, <3>1
  <2>4. \A day : ~Applies(h, EmptyDate, day, FALSE)
    BY <1>1, <2>1, DatedSkipped
  <2>5. \A date, day : OutOfBounds(h, date) => ~Applies(h, date, day, TRUE)
    BY <1>1, <2>1, DatedSkipped
  <2>6. \A day : resolveDay(hours', EmptyDate, day, FALSE) =
                     resolveDay(hours, EmptyDate, day, FALSE)
    BY <2>3, <2>4
  <2> QED
    BY <2>3, <2>5, <2>6 DEF ResolveRegularHours
<1>2. [Next]_vars =>
          [\A h \in Rows : (AddRow(h) \/ RemoveRow(h)) /\ ~Undated(h) =>
              /\ ResolveRegularHours(hours') = ResolveRegularHours(hours)
              /\ \A date \in Dates : OutOfBounds(h, date) =>
                    resolveDay(hours', date, Weekday(date), TRUE) =
                        resolveDay(hours, date, Weekday(date), TRUE)]_vars
  BY <1>1
<1> QED
  BY <1>2, PTL DEF Spec, DatedRowsStayInBounds
=============================================================================
