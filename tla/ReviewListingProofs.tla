-------------------------- MODULE ReviewListingProofs --------------------------
(***************************************************************************)
(* What a walk through the reviews of a cafe lists, for any number of      *)
(* reviews, authors and pages of any size: nothing that stays as it is is  *)
(* skipped or repeated.                                                    *)
(*                                                                         *)
(* The cursor splits the reviews in those that are above it, which the     *)
(* walk has listed, and those below, which it has not.  A review that does *)
(* not change stays on its side, and a change that does not lower a key    *)
(* moves no review down over the cursor.                                   *)
(***************************************************************************)
EXTENDS ReviewListing, FiniteSetTheorems, SequenceTheorems, TLAPS

----------------------------------------------------------------------------
(* The order of keys *)

IsKey(k) == k[1] \in Nat /\ k[2] \in Nat /\ k[3] \in Nat

LEMMA LessIrreflexive == ASSUME NEW a, IsKey(a) PROVE ~Less(a, a)
  BY DEF IsKey, Less

LEMMA LessTransitive ==
  ASSUME NEW a, NEW b, NEW c, IsKey(a), IsKey(b), IsKey(c), Less(a, b), Less(b, c)
  PROVE  Less(a, c)
  BY DEF IsKey, Less

\* A key that is not below the cursor does not get below it by not sinking.
LEMMA StaysAbove ==
  ASSUME NEW a, NEW b, NEW c, IsKey(a), IsKey(b), IsKey(c), ~Less(a, c), ~Less(b, a)
  PROVE  ~Less(b, c)
  BY DEF IsKey, Less

----------------------------------------------------------------------------
(* The inductive invariant *)

\* A walk that has not begun or is over is forgotten.
Resting == ~walk.on => walk = NoWalk /\ call = Idle

\* Nothing is of the future.
Past == /\ \A id \in Ids : review[id].updated <= clock
        /\ \A u \in Users : \A t \in started[u] : t <= clock

\* The walk goes down from where it began.
Downwards ==
    walk.on => /\ Decodable(walk.from)
               /\ walk.from # Null => cursor # Null
               /\ cursor = walk.from \/ walk.from = Null \/ Less(cursor, walk.from)

There(id) == review[id].status # "absent"
Above(id) == cursor # Null /\ ~Less(Key(id), cursor)
InPage(id) == call.next = Null \/ ~Less(Key(id), call.next)

\* What was listed is above the cursor, unless it was lowered.
ListedAbove ==
    /\ \A id \in walk.listed \ walk.lowered : There(id) /\ Above(id)
    /\ walk.again \subseteq walk.lowered

\* What stays as it is was listed if, and only if, it is above the cursor.
SteadySplit ==
    /\ \A id \in walk.steady : Visible(id) /\ (id \in walk.listed <=> Above(id))
    /\ walk.steady \cap walk.again = {}

\* The page that was read goes from the cursor to the next one.
PageRead ==
    call.at = "ratings" =>
        /\ call.next # Null /\ cursor # Null => Less(call.next, cursor)
        /\ \A id \in call.items \ walk.lowered : There(id) /\ InPage(id)
        /\ call.items \cap walk.listed \subseteq walk.lowered
        /\ \A id \in walk.steady : id \in call.items <=> ~Above(id) /\ InPage(id)

\* In a calm walk all that is to be listed is steady, and below the cursor there
\* is something left to list.
Calm ==
    walk.calm =>
        /\ walk.steady = After(walk.from)
        /\ walk.listed \subseteq walk.steady
        /\ walk.listed # {} => \E id \in walk.steady : ~Above(id)
        /\ call.at = "ratings" =>
              /\ call.items \subseteq walk.steady
              /\ call.items = {} => walk.listed = {}
              /\ call.next # Null => \E id \in walk.steady : Less(Key(id), call.next)

Split == ListedAbove /\ SteadySplit /\ PageRead /\ Calm

IInv == TypeOK /\ Resting /\ Past /\ Downwards /\ Split

LEMMA KeyIsKey ==
  ASSUME TypeOK, NEW id \in Ids
  PROVE  /\ Key(id) \in Cursor
         /\ IsKey(Key(id))
         /\ Decodable(Key(id))
         /\ Key(id) # Null
  <1>1. review[id].updated \in Nat /\ review[id].pinned \in BOOLEAN /\ id \in Nat \ {0}
    BY IdsAssumption DEF TypeOK, Row
  <1> DEFINE pin == IF review[id].pinned THEN 1 ELSE 0
  <1>2. pin \in {0, 1} /\ Key(id) = <<pin, review[id].updated, id>>
    BY DEF Key
  <1> HIDE DEF pin
  <1>3. Key(id) \in Cursor
    BY <1>1, <1>2 DEF Cursor
  <1>4. IsKey(Key(id))
    BY <1>1, <1>2 DEF IsKey
  <1>5. review[id].updated # Bad /\ id # Bad
    BY <1>1, NullAssumption
  <1>6. Decodable(Key(id))
    BY <1>1, <1>2, <1>5 DEF Decodable
  <1>7. Key(id) # Null
    BY <1>3, NullAssumption DEF Cursor
  <1> QED  BY <1>3, <1>4, <1>6, <1>7

LEMMA CursorElements ==
  ASSUME NEW c \in Cursor PROVE IsKey(c)
  <1>1. PICK bit \in {0, 1}, time \in Nat, id \in Ids : c = <<bit, time, id>>
    BY DEF Cursor
  <1>2. c[1] = bit /\ c[2] = time /\ c[3] = id
    BY <1>1
  <1> QED  BY <1>1, <1>2, IdsAssumption DEF IsKey

LEMMA CursorIsKey ==
  ASSUME NEW c \in {Null} \cup Cursor \cup Sent, Decodable(c), c # Null
  PROVE  IsKey(c)
  <1>1. CASE c \in Cursor
    BY <1>1, CursorElements
  <1>2. CASE c \in Sent
    <2> DEFINE S == Nat \cup {Bad}
    <2>1. c \in Seq(S) /\ Len(c) = 3
      BY <1>2, SentAssumption DEF Decodable
    <2>2. c[2] \in S /\ c[3] \in S
      <3> HIDE DEF S
      <3>1. 2 \in 1..Len(c) /\ 3 \in 1..Len(c)
        BY <2>1
      <3> QED  BY <2>1, <3>1, ElementOfSeq
    <2>3. c[1] \in {0, 1} /\ c[2] # Bad /\ c[3] # Bad
      BY DEF Decodable
    <2> QED  BY <2>2, <2>3 DEF IsKey
  <1> QED  BY <1>1, <1>2

----------------------------------------------------------------------------
(* Types *)

LEMMA PageType ==
  ASSUME TypeOK, NEW rows \in SUBSET Ids, Page(rows)
  PROVE  call' \in [at: {"ratings"}, items: SUBSET Ids, next: {Null} \cup Cursor]
  <1>1. CASE Cardinality(rows) <= PageSize
    BY <1>1 DEF Page, Answer
  <1>2. CASE ~(Cardinality(rows) <= PageSize)
    <2>1. PICK items \in SUBSET rows, last \in rows : Answer(items, encodeReviewCursor(last))
      BY <1>2 DEF Page
    <2>2. encodeReviewCursor(last) \in Cursor
      BY KeyIsKey DEF encodeReviewCursor
    <2> QED  BY <2>1, <2>2 DEF Answer
  <1> QED  BY <1>1, <1>2

LEMMA ChangeTypes ==
  ASSUME TypeOK, NEW lowered \in SUBSET Ids, Change(lowered)
  PROVE  /\ walk' \in [from: {Null} \cup Sent, on: BOOLEAN, listed: SUBSET Ids,
                       again: SUBSET Ids, steady: SUBSET Ids, lowered: SUBSET Ids,
                       calm: BOOLEAN]
         /\ walk'.on = walk.on
         /\ edits' \in 0..MaxEdits
         /\ UNCHANGED <<call, code, cursor>>
  <1> DEFINE same == {id \in Ids : Visible(id) = Visible(id)' /\ Key(id) = Key(id)'}
  <1>1. /\ walk' = IF walk.on THEN [walk EXCEPT !.steady = @ \cap same,
                                               !.calm = @ /\ same = Ids,
                                               !.lowered = @ \cup lowered]
                             ELSE walk
        /\ edits < MaxEdits
        /\ edits' = edits + 1
        /\ UNCHANGED <<call, code, cursor>>
    BY DEF Change
  <1>2. same \subseteq Ids
    OBVIOUS
  <1> HIDE DEF same
  <1>3. edits' \in 0..MaxEdits
    BY <1>1, BoundsAssumption DEF TypeOK
  <1>4. walk \in [from: {Null} \cup Sent, on: BOOLEAN, listed: SUBSET Ids,
                 again: SUBSET Ids, steady: SUBSET Ids, lowered: SUBSET Ids,
                 calm: BOOLEAN]
    BY DEF TypeOK
  <1>5. CASE walk.on
    <2>1. walk' = [walk EXCEPT !.steady = walk.steady \cap same,
                               !.calm = walk.calm /\ same = Ids,
                               !.lowered = walk.lowered \cup lowered]
      BY <1>1, <1>5
    <2>2. walk.steady \cap same \in SUBSET Ids /\ walk.lowered \cup lowered \in SUBSET Ids
      BY <1>2, <1>4
    <2>3. (walk.calm /\ same = Ids) \in BOOLEAN
      OBVIOUS
    <2>4. /\ walk' \in [from: {Null} \cup Sent, on: BOOLEAN, listed: SUBSET Ids,
                        again: SUBSET Ids, steady: SUBSET Ids, lowered: SUBSET Ids,
                        calm: BOOLEAN]
          /\ walk'.on = walk.on
      BY <2>1, <2>2, <2>3, <1>4
    <2> QED  BY <2>4, <1>1, <1>3
  <1>6. CASE ~walk.on
    BY <1>1, <1>3, <1>4, <1>6
  <1> QED  BY <1>5, <1>6

\* The part of the state that the reader only reads
TablesOK ==
    /\ review \in [Ids -> Row]
    /\ active \in [Users -> BOOLEAN]
    /\ open \in BOOLEAN
    /\ started \in [Users -> SUBSET Nat]
    /\ clock \in Nat

LEMMA ChangeTypeOK ==
  ASSUME TypeOK, NEW lowered \in SUBSET Ids, Change(lowered), TablesOK'
  PROVE  TypeOK'
  <1>1. /\ walk' \in [from: {Null} \cup Sent, on: BOOLEAN, listed: SUBSET Ids,
                      again: SUBSET Ids, steady: SUBSET Ids, lowered: SUBSET Ids,
                      calm: BOOLEAN]
        /\ walk'.on = walk.on
        /\ edits' \in 0..MaxEdits
        /\ UNCHANGED <<call, code, cursor>>
    BY ChangeTypes
  <1> QED  BY <1>1 DEF TypeOK, TablesOK

----------------------------------------------------------------------------
(* What happens meanwhile *)

\* No review goes away, and none gets a lower key but the lowered ones.
Raised(lowered) ==
    \A id \in Ids \ lowered : There(id) => There(id)' /\ ~Less(Key(id)', Key(id))

LEMMA Untouched ==
  ASSUME TypeOK, UNCHANGED review, NEW lowered PROVE Raised(lowered)
  BY KeyIsKey, LessIrreflexive DEF Raised, There, Key

\* One review is written.
LEMMA OneTouched ==
  ASSUME TypeOK, Past, NEW id \in Ids, NEW row \in Row, row.updated <= clock', clock' >= clock,
         clock' \in Nat, row.status # "absent",
         review' = [review EXCEPT ![id] = row],
         NEW lowered,
         \/ id \in lowered
         \/ review[id].status = "absent"
         \/ /\ row.updated >= review[id].updated
            /\ review[id].pinned => row.pinned
  PROVE  /\ review' \in [Ids -> Row]
         /\ \A i \in Ids : review'[i].updated <= clock'
         /\ Raised(lowered)
  <1>1. review \in [Ids -> Row] /\ clock \in Nat
    BY DEF TypeOK
  <1>2. review' \in [Ids -> Row] /\ review'[id] = row
        /\ \A i \in Ids \ {id} : review'[i] = review[i]
    BY <1>1
  <1>3. \A i \in Ids : review'[i].updated <= clock'
    <2> TAKE i \in Ids
    <2>1. CASE i = id
      BY <2>1, <1>2
    <2>2. CASE i # id
      <3>1. review'[i] = review[i] /\ review[i].updated <= clock /\ review[i].updated \in Nat
        BY <2>2, <1>1, <1>2 DEF Past, Row
      <3> QED  BY <3>1, <1>1
    <2> QED  BY <2>1, <2>2
  <1>4. Raised(lowered)
    <2> SUFFICES ASSUME NEW i \in Ids \ lowered, There(i)
                 PROVE  There(i)' /\ ~Less(Key(i)', Key(i))
      BY DEF Raised
    <2>1. CASE i # id
      <3>1. Key(i)' = Key(i) /\ There(i)'
        BY <2>1, <1>2 DEF Key, There
      <3> QED  BY <3>1, KeyIsKey, LessIrreflexive
    <2>2. CASE i = id
      <3>1. /\ row.updated >= review[i].updated
            /\ review[i].pinned => row.pinned
            /\ row.pinned \in BOOLEAN /\ review[i].pinned \in BOOLEAN
            /\ row.updated \in Nat /\ review[i].updated \in Nat /\ i \in Nat
        BY <2>2, <1>1, IdsAssumption DEF There, Row
      <3>2. Key(i)' = <<IF row.pinned THEN 1 ELSE 0, row.updated, i>>
        BY <2>2, <1>2 DEF Key
      <3>3. ~Less(Key(i)', Key(i))
        BY <3>1, <3>2 DEF Key, Less
      <3> QED  BY <3>3, <2>2, <1>2 DEF There
    <2> QED  BY <2>1, <2>2
  <1> QED  BY <1>2, <1>3, <1>4

\* A write of one review by a transaction or a statement of its own
Writes(id, row, lowered) ==
    /\ review' = [review EXCEPT ![id] = row]
    /\ row.updated <= clock
    /\ row.status # "absent"
    /\ \/ id \in lowered
       \/ review[id].status = "absent"
       \/ row.updated >= review[id].updated /\ (review[id].pinned => row.pinned)

Outside ==
    \E lowered \in SUBSET Ids : Change(lowered) /\ Raised(lowered) /\ TablesOK' /\ Past'

LEMMA WriteIsOutside ==
  ASSUME TypeOK, Past, NEW id \in Ids, NEW row \in Row, NEW lowered \in SUBSET Ids,
         Writes(id, row, lowered), Change(lowered),
         UNCHANGED <<active, open, clock>>,
         started' \in [Users -> SUBSET Nat],
         \A u \in Users : started'[u] \subseteq started[u]
  PROVE  Outside
  <1>1. clock \in Nat /\ clock' = clock
    BY DEF TypeOK
  <1>2. /\ review' \in [Ids -> Row]
        /\ \A i \in Ids : review'[i].updated <= clock'
        /\ Raised(lowered)
    <2>1. row.updated <= clock' /\ clock' >= clock /\ clock' \in Nat
      BY <1>1 DEF Writes
    <2> QED  BY <2>1, OneTouched DEF Writes
  <1>3. TablesOK'
    BY <1>1, <1>2 DEF TypeOK, TablesOK
  <1>4. Past'
    BY <1>1, <1>2 DEF Past
  <1> QED  BY <1>2, <1>3, <1>4 DEF Outside

\* A step that writes no review
LEMMA QuietIsOutside ==
  ASSUME TypeOK, Past, Change({}), UNCHANGED review, TablesOK', clock' >= clock,
         \A u \in Users : \A t \in started'[u] : t <= clock'
  PROVE  Outside
  <1>1. Raised({})
    BY Untouched
  <1>2. \A id \in Ids : review'[id].updated <= clock'
    <2> TAKE id \in Ids
    <2>1. review[id].updated \in Nat /\ review[id].updated <= clock /\ clock \in Nat /\ clock' \in Nat
      BY DEF TypeOK, Past, TablesOK, Row
    <2> QED  BY <2>1
  <1>3. Past'
    BY <1>2 DEF Past
  <1> QED  BY <1>1, <1>3 DEF Outside

LEMMA WriteStep ==
  ASSUME TypeOK, Past, NEW u \in Users, Write(u)
  PROVE  Outside
  <1>0. /\ review \in [Ids -> Row] /\ started \in [Users -> SUBSET Nat] /\ clock \in Nat
        /\ \A i \in Users : \A t \in started[i] : t <= clock
    BY DEF TypeOK, Past
  <1>1. CASE Begin(u)
    <2>1. /\ clock' \in Nat /\ clock' >= clock
          /\ started' = [started EXCEPT ![u] = started[u] \cup {clock'}]
          /\ Change({}) /\ UNCHANGED <<review, active, open>>
      BY <1>0, <1>1 DEF Begin
    <2>2. \A i \in Users : \A t \in started'[i] : t <= clock'
      <3> SUFFICES ASSUME NEW i \in Users, NEW t \in started'[i] PROVE t <= clock'
        OBVIOUS
      <3>1. t = clock' \/ t \in started[i]
        BY <1>0, <2>1
      <3>2. t \in started[i] => t \in Nat /\ t <= clock
        BY <1>0
      <3> QED  BY <1>0, <2>1, <3>1, <3>2
    <2>3. TablesOK'
      BY <1>0, <2>1 DEF TypeOK, TablesOK
    <2> QED  BY <2>1, <2>2, <2>3, QuietIsOutside
  <1>2. ASSUME NEW t \in 0..MaxClock, Done(u, t)
        PROVE  /\ t <= clock
               /\ started' \in [Users -> SUBSET Nat]
               /\ \A i \in Users : started'[i] \subseteq started[i]
               /\ UNCHANGED <<active, open, clock>>
    BY <1>0, <1>2 DEF Done
  <1>3. ASSUME NEW t \in 0..MaxClock, Rollback(u, t) PROVE Outside
    <2>1. Done(u, t) /\ UNCHANGED review /\ Change({})
      BY <1>3 DEF Rollback
    <2>2. clock' >= clock /\ \A i \in Users : \A v \in started'[i] : v <= clock'
      BY <1>0, <1>2, <2>1
    <2>3. TablesOK'
      BY <1>0, <1>2, <2>1 DEF TypeOK, TablesOK
    <2> QED  BY <2>1, <2>2, <2>3, QuietIsOutside
  <1>4. ASSUME NEW t \in 0..MaxClock, NEW id \in Ids, Create(u, t, id) PROVE Outside
    <2> DEFINE row == [status |-> "pending", user |-> u, pinned |-> FALSE, updated |-> t]
    <2>1. row \in Row /\ Done(u, t) /\ Change({})
      BY <1>4, BoundsAssumption DEF Create, Row, Live
    <2>2. Writes(id, row, {})
      BY <1>2, <1>4, <2>1 DEF Create, Writes
    <2> HIDE DEF row
    <2> QED  BY <1>2, <2>1, <2>2, WriteIsOutside
  <1>5. ASSUME NEW t \in 0..MaxClock, NEW id \in Ids, Update(u, t, id) PROVE Outside
    <2> DEFINE row == [review[id] EXCEPT !.status = "pending", !.updated = t]
               low == IF t < review[id].updated THEN {id} ELSE {}
    <2>1. row \in Row /\ Done(u, t) /\ Change(low) /\ low \in SUBSET Ids
      <3>1. review[id] \in Row /\ t \in Nat
        BY <1>0, BoundsAssumption
      <3>2. row \in Row
        BY <3>1 DEF Row, Live
      <3>3. Done(u, t) /\ Change(low)
        BY <1>5, Zenon DEF Update
      <3> QED  BY <3>2, <3>3
    <2>2. Writes(id, row, low)
      <3>1. review[id].updated \in Nat /\ review[id].pinned \in BOOLEAN
        BY <1>0 DEF Row
      <3>2. /\ review' = [review EXCEPT ![id] = row]
            /\ row.updated = t /\ row.status = "pending" /\ row.pinned = review[id].pinned
        BY <1>0, <1>5 DEF Update, Row
      <3>3. id \in low \/ t >= review[id].updated
        BY <3>1
      <3> HIDE DEF row, low
      <3> QED  BY <1>2, <2>1, <3>2, <3>3 DEF Writes
    <2> HIDE DEF row, low
    <2> QED  BY <1>2, <2>1, <2>2, WriteIsOutside
  <1>6. ASSUME NEW id \in Ids, SoftDelete(u, id) PROVE Outside
    <2> DEFINE row == [review[id] EXCEPT !.status = "deleted", !.updated = clock]
    <2>1. row \in Row /\ Change({}) /\ UNCHANGED <<active, open, started, clock>>
      BY <1>0, <1>6 DEF SoftDelete, Row, Live
    <2>2. Writes(id, row, {})
      <3>1. review[id].updated <= clock
        BY DEF Past
      <3>2. /\ review' = [review EXCEPT ![id] = row]
            /\ row.updated = clock /\ row.status = "deleted" /\ row.pinned = review[id].pinned
        BY <1>0, <1>6 DEF SoftDelete, Row
      <3>3. review[id].updated \in Nat
        BY <1>0 DEF Row
      <3> HIDE DEF row
      <3> QED  BY <1>0, <3>1, <3>2, <3>3 DEF Writes
    <2> HIDE DEF row
    <2> QED  BY <1>0, <2>1, <2>2, WriteIsOutside
  <1> QED  BY <1>1, <1>3, <1>4, <1>5, <1>6 DEF Write

LEMMA MissionControlStep ==
  ASSUME TypeOK, Past, MissionControl
  PROVE  Outside
  <1>0. /\ review \in [Ids -> Row] /\ started \in [Users -> SUBSET Nat] /\ clock \in Nat
        /\ active \in [Users -> BOOLEAN]
        /\ \A i \in Users : \A t \in started[i] : t <= clock
        /\ \A id \in Ids : review[id].updated \in Nat /\ review[id].updated <= clock
    BY DEF TypeOK, Past, Row
  <1>1. ASSUME NEW id \in Ids, NEW status \in {"approved", "rejected", "deleted"},
               NEW t \in 0..MaxClock, Moderate(id, status, t)
        PROVE  Outside
    <2> DEFINE row == [review[id] EXCEPT !.status = status, !.updated = t]
    <2>1. Change({}) /\ UNCHANGED <<active, open, started, clock>>
      BY <1>1 DEF Moderate
    <2>2. t \in Nat /\ t <= clock /\ t >= review[id].updated
      BY <1>0, <1>1 DEF Moderate
    <2>3. row \in Row
      <3>1. review[id] \in Row /\ t \in Nat
        BY <1>0, <2>2
      <3> QED  BY <3>1 DEF Row, Live
    <2>4. Writes(id, row, {})
      <3>1. /\ review' = [review EXCEPT ![id] = row]
            /\ row.updated = t /\ row.status = status /\ row.pinned = review[id].pinned
        BY <1>0, <1>1 DEF Moderate, Row
      <3>2. status # "absent"
        OBVIOUS
      <3> HIDE DEF row
      <3> QED  BY <2>2, <3>1, <3>2 DEF Writes
    <2> HIDE DEF row
    <2> QED  BY <1>0, <2>1, <2>3, <2>4, WriteIsOutside
  <1>2. ASSUME NEW id \in Ids, NEW pinned \in BOOLEAN, Pin(id, pinned) PROVE Outside
    <2> DEFINE row == [review[id] EXCEPT !.pinned = pinned]
               low == IF pinned THEN {} ELSE {id}
    <2>1. Change(low) /\ UNCHANGED <<active, open, started, clock>> /\ low \in SUBSET Ids
      <3>1. Change(low)
        BY <1>2, Zenon DEF Pin
      <3> QED  BY <1>2, <3>1 DEF Pin
    <2>2. row \in Row
      <3>1. review[id] \in Row
        BY <1>0
      <3> QED  BY <3>1 DEF Row, Live
    <2>3. Writes(id, row, low)
      <3>1. /\ review' = [review EXCEPT ![id] = row]
            /\ row.updated = review[id].updated /\ row.status = review[id].status
            /\ row.pinned = pinned /\ review[id].status # "absent"
        BY <1>0, <1>2 DEF Pin, Row, Live
      <3>2. id \in low \/ pinned
        OBVIOUS
      <3> HIDE DEF row, low
      <3> QED  BY <1>0, <3>1, <3>2 DEF Writes
    <2> HIDE DEF row, low
    <2> QED  BY <1>0, <2>1, <2>2, <2>3, WriteIsOutside
  <1>3. ASSUME NEW id \in Ids, NEW pinned \in BOOLEAN, AddPartnership(id, pinned) PROVE Outside
    <2> DEFINE row == [status |-> "approved", user |-> NoUser, pinned |-> pinned,
                       updated |-> clock]
    <2>1. /\ row \in Row /\ Change({}) /\ UNCHANGED <<active, open, started, clock>>
          /\ Writes(id, row, {})
      BY <1>0, <1>3 DEF AddPartnership, Row, Live, Writes
    <2> HIDE DEF row
    <2> QED  BY <1>0, <2>1, WriteIsOutside
  <1>4. ASSUME UNCHANGED <<review, started, clock>>, Change({}),
               active' \in [Users -> BOOLEAN], open' \in BOOLEAN
        PROVE  Outside
    <2>1. TablesOK'
      BY <1>0, <1>4 DEF TablesOK
    <2>2. clock' >= clock /\ \A u \in Users : \A t \in started'[u] : t <= clock'
      BY <1>0, <1>4
    <2> QED  BY <1>4, <2>1, <2>2, QuietIsOutside
  <1>5. ASSUME NEW u \in Users, NEW b \in BOOLEAN, SetActive(u, b) PROVE Outside
    <2>1. active' \in [Users -> BOOLEAN] /\ open' \in BOOLEAN
      BY <1>0, <1>5 DEF SetActive, TypeOK
    <2> QED  BY <1>4, <1>5, <2>1 DEF SetActive
  <1>6. ASSUME NEW b \in BOOLEAN, SetOpen(b) PROVE Outside
    <2>1. active' \in [Users -> BOOLEAN] /\ open' \in BOOLEAN
      BY <1>0, <1>6 DEF SetOpen
    <2> QED  BY <1>4, <1>6, <2>1 DEF SetOpen
  <1> QED  BY <1>1, <1>2, <1>3, <1>5, <1>6 DEF MissionControl

\* What happens outside keeps every review that does not change on its side of
\* the cursor.
LEMMA OutsideKeepsInv ==
  ASSUME IInv, Outside
  PROVE  IInv'
  <1>1. PICK lowered \in SUBSET Ids : Change(lowered) /\ Raised(lowered) /\ TablesOK' /\ Past'
    BY DEF Outside
  <1> USE DEF IInv
  <1>2. TypeOK' /\ Past'
    BY <1>1, ChangeTypeOK
  <1> DEFINE same == {id \in Ids : Visible(id) = Visible(id)' /\ Key(id) = Key(id)'}
  <1>3. /\ walk' = IF walk.on THEN [walk EXCEPT !.steady = walk.steady \cap same,
                                               !.calm = (walk.calm /\ same = Ids),
                                               !.lowered = walk.lowered \cup lowered]
                             ELSE walk
        /\ UNCHANGED <<call, code, cursor>>
    BY <1>1 DEF Change
  <1>4. \A id \in same : id \in Ids /\ (Visible(id) <=> Visible(id)') /\ Key(id) = Key(id)'
    OBVIOUS
  <1> HIDE DEF same
  <1>5. walk \in [from: {Null} \cup Sent, on: BOOLEAN, listed: SUBSET Ids,
                 again: SUBSET Ids, steady: SUBSET Ids, lowered: SUBSET Ids, calm: BOOLEAN]
    BY DEF TypeOK
  <1>6. Resting' /\ Downwards'
    BY <1>3, <1>5 DEF Resting, Downwards, Idle, NoWalk
  <1>7. CASE ~walk.on
    <2>1. walk = NoWalk /\ call = Idle /\ walk' = NoWalk /\ call' = Idle
      BY <1>3, <1>7 DEF Resting
    <2>2. Split'
      BY <2>1 DEF Split, ListedAbove, SteadySplit, PageRead, Calm, NoWalk, Idle
    <2> QED  BY <1>2, <1>6, <2>2
  <1>8. CASE walk.on
    <2>1. /\ walk'.steady = walk.steady \cap same
          /\ walk'.calm = (walk.calm /\ same = Ids)
          /\ walk'.lowered = walk.lowered \cup lowered
          /\ walk'.listed = walk.listed /\ walk'.again = walk.again
          /\ walk'.from = walk.from
      BY <1>3, <1>5, <1>8
    <2>2. cursor # Null => IsKey(cursor)
      BY <1>8, CursorIsKey DEF TypeOK
    <2>3. call.at = "ratings" => call.items \in SUBSET Ids /\ (call.next # Null => IsKey(call.next))
      <3> SUFFICES ASSUME call.at = "ratings" PROVE call.items \in SUBSET Ids /\ (call.next # Null => IsKey(call.next))
        OBVIOUS
      <3>1. call.items \in SUBSET Ids /\ call.next \in {Null} \cup Cursor
        BY DEF TypeOK
      <3>2. ASSUME NEW k \in Cursor PROVE IsKey(k)
        BY <3>2, CursorElements
      <3> QED  BY <3>1, <3>2
    <2>4. ASSUME NEW id \in Ids \ lowered, There(id), NEW c, IsKey(c), ~Less(Key(id), c)
          PROVE  There(id)' /\ ~Less(Key(id)', c)
      <3>1. There(id)' /\ ~Less(Key(id)', Key(id))
        BY <1>1, <2>4 DEF Raised
      <3>2. IsKey(Key(id))
        BY KeyIsKey
      <3>3. IsKey(Key(id)')
        <4>1. review'[id].updated \in Nat /\ id \in Nat
          BY <1>2, IdsAssumption DEF TypeOK, Row
        <4> DEFINE pin == IF review'[id].pinned THEN 1 ELSE 0
        <4>2. pin \in Nat /\ Key(id)' = <<pin, review'[id].updated, id>>
          BY DEF Key
        <4> HIDE DEF pin
        <4> QED  BY <4>1, <4>2 DEF IsKey
      <3> QED  BY <2>4, <3>1, <3>2, <3>3, StaysAbove
    <2>5. ListedAbove'
      BY <1>3, <1>5, <2>1, <2>2, <2>4 DEF Split, ListedAbove, Above
    <2>6. SteadySplit'
      BY <1>3, <1>4, <1>5, <2>1 DEF Split, SteadySplit, Above
    <2>7. PageRead'
      <3> SUFFICES ASSUME call.at = "ratings" PROVE PageRead'
        BY <1>3 DEF PageRead
      <3>1. /\ call.next # Null /\ cursor # Null => Less(call.next, cursor)
            /\ call.items \cap walk.listed \subseteq walk.lowered
        BY DEF Split, PageRead
      <3>2. ASSUME NEW id \in call.items \ walk'.lowered PROVE There(id)' /\ InPage(id)'
        <4>1. id \in Ids \ lowered /\ There(id) /\ InPage(id)
          BY <2>1, <2>3, <3>2 DEF Split, PageRead
        <4>2. There(id)'
          BY <1>1, <4>1 DEF Raised
        <4>3. CASE call.next = Null
          BY <1>3, <4>2, <4>3 DEF InPage
        <4>4. CASE call.next # Null
          <5>1. ~Less(Key(id), call.next) /\ IsKey(call.next)
            BY <2>3, <4>1, <4>4 DEF InPage
          <5>2. ~Less(Key(id)', call.next)
            BY <2>4, <4>1, <5>1
          <5> QED  BY <1>3, <4>2, <5>2 DEF InPage
        <4> QED  BY <4>3, <4>4
      <3>3. ASSUME NEW id \in walk'.steady PROVE (id \in call.items <=> ~Above(id) /\ InPage(id))'
        <4>1. id \in walk.steady /\ Key(id)' = Key(id)
          BY <1>4, <2>1
        <4>2. id \in call.items <=> ~Above(id) /\ InPage(id)
          BY <4>1 DEF Split, PageRead
        <4> QED  BY <1>3, <4>1, <4>2 DEF Above, InPage
      <3> QED  BY <1>3, <2>1, <3>1, <3>2, <3>3 DEF PageRead
    <2>8. Calm'
      <3> SUFFICES ASSUME walk'.calm PROVE Calm'
        BY DEF Calm
      <3>1. walk.calm /\ same = Ids
        BY <2>1
      <3>2. walk'.steady = walk.steady
        BY <1>5, <2>1, <3>1
      <3>3. After(walk.from)' = After(walk.from)
        BY <1>4, <2>1, <3>1 DEF After
      <3> QED  BY <1>3, <1>4, <1>5, <2>1, <3>1, <3>2, <3>3 DEF Split, Calm, Above
    <2> QED  BY <1>2, <1>6, <2>5, <2>6, <2>7, <2>8 DEF Split
  <1> QED  BY <1>5, <1>7, <1>8

----------------------------------------------------------------------------
(* The reader's requests *)

\* A response that ends the walk leaves nothing to keep.
LEMMA EndsKeepsInv ==
  ASSUME IInv, NEW status \in {200, 400, 404}, Ends(status)
  PROVE  IInv'
  <1>1. /\ UNCHANGED <<tables, edits>>
        /\ call' = Idle /\ code' = status /\ cursor' = Null /\ walk' = NoWalk
    BY DEF Ends
  <1>2. TypeOK'
    BY <1>1 DEF IInv, TypeOK, tables, Idle, NoWalk, Row
  <1>3. Resting' /\ Past' /\ Downwards'
    BY <1>1 DEF IInv, Resting, Past, Downwards, tables, NoWalk
  <1>4. Split'
    BY <1>1 DEF Split, ListedAbove, SteadySplit, PageRead, Calm, NoWalk, Idle
  <1> QED  BY <1>2, <1>3, <1>4 DEF IInv

LEMMA EnterKeepsInv ==
  ASSUME IInv, NEW c \in {Null} \cup Sent, Enter(c)
  PROVE  IInv'
  <1>1. CASE ~Decodable(c) /\ Ends(400)
    BY <1>1, EndsKeepsInv
  <1>2. CASE Decodable(c)
    <2>1. /\ call' = [at |-> "cafe"] /\ code' = 0 /\ cursor' = c
          /\ walk' = [on |-> TRUE, from |-> c, listed |-> {}, again |-> {},
                      steady |-> After(c), lowered |-> {}, calm |-> TRUE]
          /\ UNCHANGED <<tables, edits>>
      BY <1>2 DEF Enter, NoWalk
    <2>2. After(c) \in SUBSET Ids
      BY DEF After
    <2>3. TypeOK'
      BY <1>2, <2>1, <2>2 DEF IInv, TypeOK, tables
    <2>4. Resting' /\ Past' /\ Downwards'
      BY <1>2, <2>1 DEF IInv, Resting, Past, Downwards, tables
    <2>5. /\ \A id \in After(c) : Visible(id) /\ ~(c # Null /\ ~Less(Key(id), c))
          /\ After(walk.from)' = After(c)
          /\ \A id \in Ids : Visible(id)' = Visible(id) /\ Key(id)' = Key(id)
      BY <2>1 DEF After, Visible, Key, tables
    <2>6. SteadySplit'
      BY <2>1, <2>2, <2>5 DEF SteadySplit, Above
    <2>7. ListedAbove' /\ PageRead' /\ Calm'
      BY <2>1, <2>5 DEF ListedAbove, PageRead, Calm
    <2> QED  BY <2>3, <2>4, <2>6, <2>7 DEF IInv, Split
  <1> QED  BY <1>1, <1>2 DEF Enter

\* A step that only moves the request on
LEMMA MovesOn ==
  ASSUME IInv, UNCHANGED <<tables, cursor, walk>>, walk.on, edits' \in 0..MaxEdits,
         call' \in [at: {"idle", "cafe", "rows"}], code' \in {0, 200, 400, 404, 500}
  PROVE  IInv'
  <1>1. TypeOK' /\ Resting' /\ Past' /\ Downwards'
    BY DEF IInv, TypeOK, Resting, Past, Downwards, tables
  <1>2. \A id : Visible(id)' = Visible(id) /\ Key(id)' = Key(id) /\ There(id)' = There(id)
    BY DEF Visible, Key, There, tables
  <1>3. After(walk.from)' = After(walk.from)
    BY <1>2 DEF After
  <1>4. call'.at # "ratings"
    OBVIOUS
  <1>5. ListedAbove' /\ SteadySplit'
    BY <1>2 DEF IInv, Split, ListedAbove, SteadySplit, Above
  <1>6. PageRead' /\ Calm'
    BY <1>2, <1>3, <1>4 DEF IInv, Split, PageRead, Calm, Above
  <1> QED  BY <1>1, <1>5, <1>6 DEF IInv, Split

LEMMA VisibleReviewsKeepsInv ==
  ASSUME IInv, VisibleReviews
  PROVE  IInv'
  <1> USE DEF IInv
  <1>0. /\ call.at = "rows" /\ walk.on
        /\ UNCHANGED <<tables, code, cursor, walk, edits>>
    BY DEF VisibleReviews, Resting, Idle
  <1>1. PICK rows \in SUBSET After(cursor) : Top(rows, After(cursor), PageSize + 1) /\ Page(rows)
    BY DEF VisibleReviews
  <1>2. rows \in SUBSET Ids /\ IsFiniteSet(rows) /\ Cardinality(rows) \in Nat
    <2>1. rows \in SUBSET Ids
      BY DEF After
    <2> QED  BY <2>1, IdsAssumption, FS_Subset, FS_CardinalityType
  <1>3. TypeOK' /\ Resting' /\ Past' /\ Downwards'
    <2>1. call' \in [at: {"ratings"}, items: SUBSET Ids, next: {Null} \cup Cursor]
      BY <1>1, <1>2, PageType
    <2> QED  BY <1>0, <2>1 DEF TypeOK, Resting, Past, Downwards, tables
  <1>4. \A id : Visible(id)' = Visible(id) /\ Key(id)' = Key(id) /\ There(id)' = There(id)
    BY <1>0 DEF Visible, Key, There, tables
  <1>5. After(walk.from)' = After(walk.from)
    BY <1>0, <1>4 DEF After
  <1>6. ListedAbove' /\ SteadySplit'
    BY <1>0, <1>4 DEF Split, ListedAbove, SteadySplit, Above
  <1>7. \A id \in Ids : id \in After(cursor) <=> Visible(id) /\ ~Above(id)
    BY DEF After, Above
  <1>8. walk.steady \subseteq Ids /\ \A id \in walk.steady : Visible(id)
    BY DEF TypeOK, Split, SteadySplit
  <1>9. \A id \in Ids : Visible(id) => There(id)
    BY DEF Visible, There
  \* The page is what is visible from the cursor down to the next one, and if
  \* there is a next one there is something below it.
  <1>10. PICK items \in SUBSET rows, next \in {Null} \cup Cursor :
            /\ call' = [at |-> "ratings", items |-> items, next |-> next]
            /\ \A id \in After(cursor) : id \in items <=> next = Null \/ ~Less(Key(id), next)
            /\ next # Null => /\ cursor # Null => Less(next, cursor)
                              /\ items # {}
                              /\ \E id \in After(cursor) : Less(Key(id), next)
    <2>1. CASE Cardinality(rows) <= PageSize
      <3>1. rows = After(cursor)
        <4>1. PageSize + 1 # Cardinality(rows)
          BY <1>2, <2>1, PageSizeAssumption
        <4> QED  BY <1>1, <4>1 DEF Top
      <3> QED  BY <1>1, <2>1, <3>1 DEF Page, Answer
    <2>2. CASE ~(Cardinality(rows) <= PageSize)
      <3>1. PICK items \in SUBSET rows, last \in rows :
               /\ Top(items, rows, PageSize)
               /\ IsLast(last, items)
               /\ Answer(items, encodeReviewCursor(last))
        BY <1>1, <2>2 DEF Page
      <3>2. last \in Ids /\ last \in items /\ Key(last) \in Cursor /\ Key(last) # Null
        BY <1>2, <3>1, KeyIsKey DEF IsLast
      <3>3. \A id \in items : ~Less(Key(id), Key(last))
        <4> TAKE id \in items
        <4>1. id \in Ids /\ IsKey(Key(id)) /\ IsKey(Key(last))
          BY <1>2, <3>1, <3>2, KeyIsKey
        <4>2. id = last \/ Less(Key(last), Key(id))
          BY <3>1 DEF IsLast
        <4> QED  BY <4>1, <4>2, LessIrreflexive, LessTransitive
      <3>4. \A id \in After(cursor) \ items : Less(Key(id), Key(last))
        BY <1>1, <3>1, <3>2 DEF Top
      <3>5. items # rows
        BY <1>2, <2>2, <3>1, PageSizeAssumption DEF Top
      <3>6. PICK id \in rows \ items : TRUE
        BY <3>5
      <3>7. Less(Key(id), Key(last)) /\ id \in After(cursor)
        BY <3>4, <3>6
      <3>8. cursor # Null => Less(Key(last), cursor)
        BY <3>2 DEF After
      <3> QED  BY <3>1, <3>2, <3>3, <3>4, <3>7, <3>8 DEF Answer, encodeReviewCursor
    <2> QED  BY <2>1, <2>2
  <1>11. call'.at = "ratings" /\ call'.items = items /\ call'.next = next
    BY <1>10
  <1>12. \A id \in items : id \in Ids /\ Visible(id) /\ There(id) /\ ~Above(id)
                           /\ (next = Null \/ ~Less(Key(id), next))
    BY <1>2, <1>7, <1>9, <1>10
  <1>13. PageRead'
    <2>1. items \cap walk.listed \subseteq walk.lowered
      BY <1>12 DEF Split, ListedAbove
    <2>2. \A id \in walk.steady : id \in items <=> ~Above(id) /\ (next = Null \/ ~Less(Key(id), next))
      BY <1>7, <1>8, <1>10, <1>12
    <2> QED  BY <1>0, <1>4, <1>10, <1>11, <1>12, <2>1, <2>2 DEF PageRead, Above, InPage
  <1>14. Calm'
    <2> SUFFICES ASSUME walk.calm PROVE Calm'
      BY <1>0 DEF Calm
    <2>1. /\ walk.steady = After(walk.from)
          /\ walk.listed \subseteq walk.steady
          /\ walk.listed # {} => \E id \in walk.steady : ~Above(id)
      BY DEF Split, Calm
    <2>2. After(cursor) \subseteq walk.steady
      <3> SUFFICES ASSUME NEW id \in After(cursor) PROVE id \in After(walk.from)
        BY <2>1
      <3>1. id \in Ids /\ Visible(id) /\ (cursor # Null => Less(Key(id), cursor)) /\ IsKey(Key(id))
        BY KeyIsKey DEF After
      <3>2. CASE walk.from = Null \/ cursor = walk.from
        BY <3>1, <3>2 DEF After
      <3>3. CASE walk.from # Null /\ cursor # walk.from
        <4>1. cursor # Null /\ Less(cursor, walk.from) /\ Decodable(cursor) /\ Decodable(walk.from)
          BY <1>0, <3>3 DEF Downwards, TypeOK
        <4>2. IsKey(cursor) /\ IsKey(walk.from)
          BY <3>3, <4>1, CursorIsKey DEF TypeOK
        <4>3. Less(Key(id), walk.from)
          BY <3>1, <4>1, <4>2, LessTransitive
        <4> QED  BY <3>1, <4>3 DEF After
      <3> QED  BY <3>2, <3>3
    <2>3. items \subseteq walk.steady
      BY <2>2
    <2>4. items = {} => walk.listed = {}
      <3> SUFFICES ASSUME items = {}, walk.listed # {} PROVE FALSE
        OBVIOUS
      <3>1. PICK id \in walk.steady : ~Above(id)
        BY <2>1
      <3>2. id \in After(cursor)
        BY <1>7, <1>8, <3>1
      <3> QED  BY <1>10, <3>2
    <2>5. next # Null => \E id \in walk.steady : Less(Key(id), next)
      BY <1>10, <2>2
    <2> QED  BY <1>0, <1>4, <1>5, <1>11, <2>1, <2>3, <2>4, <2>5 DEF Calm, Above
  <1> QED  BY <1>3, <1>6, <1>13, <1>14 DEF Split

LEMMA RespondKeepsInv ==
  ASSUME IInv, Respond
  PROVE  IInv'
  <1> USE DEF IInv
  <1>1. CASE call.next = Null
    BY <1>1, EndsKeepsInv DEF Respond
  <1>2. CASE call.next # Null
    <2>1. /\ call' = Idle /\ code' = 200 /\ cursor' = call.next
          /\ walk' = [walk EXCEPT !.listed = walk.listed \cup call.items,
                                  !.again = walk.again \cup (walk.listed \cap call.items)]
          /\ UNCHANGED <<tables, edits>>
          /\ call.at = "ratings"
      BY <1>2 DEF Respond
    <2>2. walk.on
      BY <2>1 DEF Resting, Idle
    <2>3. call.items \in SUBSET Ids /\ call.next \in Cursor
      BY <1>2, <2>1 DEF TypeOK
    <2>4. walk \in [from: {Null} \cup Sent, on: BOOLEAN, listed: SUBSET Ids,
                   again: SUBSET Ids, steady: SUBSET Ids, lowered: SUBSET Ids, calm: BOOLEAN]
      BY DEF TypeOK
    <2>5. /\ walk'.listed = walk.listed \cup call.items
          /\ walk'.again = walk.again \cup (walk.listed \cap call.items)
          /\ walk'.on = walk.on /\ walk'.from = walk.from /\ walk'.steady = walk.steady
          /\ walk'.lowered = walk.lowered /\ walk'.calm = walk.calm
          /\ walk' \in [from: {Null} \cup Sent, on: BOOLEAN, listed: SUBSET Ids,
                   again: SUBSET Ids, steady: SUBSET Ids, lowered: SUBSET Ids, calm: BOOLEAN]
      BY <2>1, <2>3, <2>4
    <2>6. IsKey(call.next)
      BY <2>3, CursorElements
    <2>7. cursor # Null => IsKey(cursor)
      BY <2>2, CursorIsKey DEF TypeOK
    <2>8. Decodable(call.next)
      <3>1. PICK bit \in {0, 1}, time \in Nat, id \in Ids : call.next = <<bit, time, id>>
        BY <2>3 DEF Cursor
      <3>2. time # Bad /\ id # Bad /\ id > 0
        BY IdsAssumption, NullAssumption
      <3> QED  BY <3>1, <3>2 DEF Decodable
    <2>9. TypeOK'
      BY <2>1, <2>3, <2>5, <2>8 DEF TypeOK, tables, Idle
    <2>10. Resting' /\ Past'
      BY <2>1, <2>2, <2>5 DEF Resting, Past, tables
    <2>11. Downwards'
      <3>1. walk.from # Null => IsKey(walk.from)
        BY <2>2, <2>4, CursorIsKey DEF Downwards
      <3>2. cursor # Null => Less(call.next, cursor)
        BY <1>2, <2>1 DEF Split, PageRead
      <3>3. walk.from # Null => Less(call.next, walk.from)
        BY <2>2, <2>6, <2>7, <3>1, <3>2, LessTransitive DEF Downwards
      <3> QED  BY <1>2, <2>1, <2>2, <2>5, <3>3 DEF Downwards
    <2>12. \A id : Visible(id)' = Visible(id) /\ Key(id)' = Key(id) /\ There(id)' = There(id)
      BY <2>1 DEF Visible, Key, There, tables
    <2>13. \A id \in Ids : Above(id)' <=> InPage(id)
      BY <1>2, <2>1, <2>12 DEF Above, InPage
    \* What is above the cursor is above the next one.
    <2>14. \A id \in Ids : Above(id) => InPage(id)
      <3> SUFFICES ASSUME NEW id \in Ids, Above(id), Less(Key(id), call.next) PROVE FALSE
        BY DEF InPage
      <3>1. cursor # Null /\ ~Less(Key(id), cursor) /\ Less(call.next, cursor)
        BY <1>2, <2>1 DEF Above, Split, PageRead
      <3>2. IsKey(Key(id))
        BY KeyIsKey
      <3> QED  BY <2>6, <2>7, <3>1, <3>2, LessTransitive
    <2>15. ListedAbove'
      <3>1. ASSUME NEW id \in walk'.listed \ walk'.lowered PROVE There(id) /\ InPage(id)
        <4>1. id \in Ids /\ id \notin walk.lowered /\ (id \in walk.listed \/ id \in call.items)
          BY <2>3, <2>4, <2>5
        <4>2. CASE id \in walk.listed
          BY <2>14, <4>1, <4>2 DEF Split, ListedAbove
        <4>3. CASE id \in call.items
          BY <2>1, <4>1, <4>3 DEF Split, PageRead
        <4> QED  BY <4>1, <4>2, <4>3
      <3>2. walk'.again \subseteq walk'.lowered
        BY <2>1, <2>5 DEF Split, ListedAbove, PageRead
      <3>3. walk'.listed \subseteq Ids
        BY <2>5
      <3> QED  BY <2>12, <2>13, <3>1, <3>2, <3>3 DEF ListedAbove
    <2>16. SteadySplit'
      <3>1. ASSUME NEW id \in walk.steady
            PROVE  /\ Visible(id) /\ id \in Ids /\ id \notin walk'.again
                   /\ id \in walk'.listed <=> InPage(id)
        <4>1. /\ Visible(id) /\ id \in Ids /\ id \notin walk.again
              /\ id \in walk.listed <=> Above(id)
              /\ id \in call.items <=> ~Above(id) /\ InPage(id)
          BY <2>1, <2>4 DEF Split, SteadySplit, PageRead
        <4> QED  BY <2>5, <2>14, <4>1
      <3> QED  BY <2>5, <2>12, <2>13, <3>1 DEF SteadySplit
    <2>17. PageRead'
      BY <2>1 DEF PageRead, Idle
    <2>18. Calm'
      <3> SUFFICES ASSUME walk.calm PROVE Calm'
        BY <2>5 DEF Calm
      <3>1. After(walk.from)' = After(walk.from)
        BY <2>5, <2>12 DEF After
      <3>2. /\ walk.steady = After(walk.from)
            /\ walk.listed \subseteq walk.steady /\ call.items \subseteq walk.steady
            /\ \E id \in walk.steady : Less(Key(id), call.next)
        BY <1>2, <2>1 DEF Split, Calm
      <3>3. \E id \in walk.steady : ~Above(id)'
        BY <1>2, <2>4, <2>13, <3>2 DEF InPage
      <3>4. call'.at # "ratings"
        BY <2>1 DEF Idle
      <3> QED  BY <2>5, <3>1, <3>2, <3>3, <3>4 DEF Calm
    <2> QED  BY <2>9, <2>10, <2>11, <2>15, <2>16, <2>17, <2>18 DEF Split
  <1> QED  BY <1>1, <1>2

LEMMA InitInv == Init => IInv
  <1> SUFFICES ASSUME Init PROVE IInv
    OBVIOUS
  <1>1. PICK s \in Start : review = s.review /\ started = s.started /\ clock = s.clock
    BY DEF Init
  <1>2. /\ review \in [Ids -> Row] /\ started \in [Users -> SUBSET Nat] /\ clock \in Nat
        /\ \A id \in Ids : review[id].updated <= clock
        /\ \A u \in Users : started[u] \subseteq 0..clock
    BY <1>1, StartAssumption
  <1>3. TypeOK
    BY <1>2, BoundsAssumption DEF Init, TypeOK, Idle, NoWalk
  <1>4. Past
    BY <1>2 DEF Past
  <1>5. Resting /\ Downwards /\ Split
    BY DEF Init, Resting, Downwards, Split, ListedAbove, SteadySplit, PageRead, Calm,
           NoWalk, Idle
  <1> QED  BY <1>3, <1>4, <1>5 DEF IInv

LEMMA NextInv == IInv /\ [Next]_vars => IInv'
  <1> SUFFICES ASSUME IInv, [Next]_vars PROVE IInv'
    OBVIOUS
  <1>1. ASSUME NEW c \in {Null} \cup Sent, Enter(c) PROVE IInv'
    BY <1>1, EnterKeepsInv
  <1>2. ASSUME Continue PROVE IInv'
    <2>1. CASE Ends(400)
      BY <2>1, EndsKeepsInv
    <2>2. CASE ~Ends(400)
      <3>1. call' = [at |-> "cafe"] /\ code' = 0 /\ UNCHANGED <<tables, cursor, walk, edits>> /\ walk.on
        BY <1>2, <2>2 DEF Continue
      <3> QED  BY <3>1, MovesOn DEF IInv, TypeOK
    <2> QED  BY <2>1, <2>2
  <1>3. ASSUME CafeIDByLocationID PROVE IInv'
    <2>1. CASE Ends(404)
      BY <2>1, EndsKeepsInv
    <2>2. CASE ~Ends(404)
      <3>1. call' = [at |-> "rows"] /\ UNCHANGED <<tables, code, cursor, walk, edits>> /\ walk.on
        BY <1>3, <2>2 DEF CafeIDByLocationID, IInv, Resting, Idle
      <3> QED  BY <3>1, MovesOn DEF IInv, TypeOK
    <2> QED  BY <2>1, <2>2
  <1>4. ASSUME VisibleReviews PROVE IInv'
    BY <1>4, VisibleReviewsKeepsInv
  <1>5. ASSUME Respond PROVE IInv'
    BY <1>5, RespondKeepsInv
  <1>6. ASSUME DbError PROVE IInv'
    <2>1. /\ call' = Idle /\ code' = 500 /\ UNCHANGED <<tables, cursor, walk>>
          /\ edits' = edits + 1 /\ edits < MaxEdits /\ walk.on
      BY <1>6 DEF DbError, IInv, Resting
    <2>2. edits' \in 0..MaxEdits
      BY <2>1, BoundsAssumption DEF IInv, TypeOK
    <2> QED  BY <2>1, <2>2, MovesOn DEF Idle
  <1>7. ASSUME NEW u \in Users, Write(u) PROVE IInv'
    BY <1>7, WriteStep, OutsideKeepsInv DEF IInv
  <1>8. ASSUME MissionControl PROVE IInv'
    BY <1>8, MissionControlStep, OutsideKeepsInv DEF IInv
  <1>9. CASE UNCHANGED vars
    <2>1. UNCHANGED <<review, active, open, started, clock, call, code, cursor, walk, edits>>
      BY <1>9 DEF vars, tables
    <2>2. TypeOK' /\ Resting' /\ Past' /\ Downwards'
      BY <2>1 DEF IInv, TypeOK, Resting, Past, Downwards
    <2>3. \A id : /\ Visible(id)' = Visible(id) /\ Key(id)' = Key(id)
                  /\ There(id)' = There(id)
      BY <2>1 DEF Visible, Key, There
    <2>4. After(walk.from)' = After(walk.from)
      BY <2>1, <2>3 DEF After
    <2>5. ListedAbove' /\ SteadySplit'
      BY <2>1, <2>3 DEF IInv, Split, ListedAbove, SteadySplit, Above
    <2>6. PageRead'
      BY <2>1, <2>3 DEF IInv, Split, PageRead, Above, InPage
    <2>7. Calm'
      BY <2>1, <2>3, <2>4 DEF IInv, Split, Calm, Above
    <2> QED  BY <2>2, <2>5, <2>6, <2>7 DEF IInv, Split
  <1> QED  BY <1>1, <1>2, <1>3, <1>4, <1>5, <1>6, <1>7, <1>8, <1>9 DEF Next, Serve

THEOREM Invariant == Spec => []IInv
  BY InitInv, NextInv, PTL DEF Spec

----------------------------------------------------------------------------
(* The theorems *)

\* Every variable has its type, and a cursor that was given out is accepted.
THEOREM ListingTypeCorrect == Spec => []TypeOK
  <1>1. IInv => TypeOK
    BY DEF IInv
  <1> QED  BY <1>1, Invariant, PTL

\* A review that stays as it is is listed once in a walk, whatever happens to
\* the others.
THEOREM SteadyListedOnceAlways == Spec => SteadyListedOnce
  <1>1. IInv /\ [Next]_vars => [Arrives => walk.steady \subseteq AllListed \ ListedAgain]_vars
    <2> SUFFICES ASSUME IInv, Arrives, NEW id \in walk.steady
                 PROVE  id \in AllListed \ ListedAgain
      OBVIOUS
    <2>1. call.at = "ratings" /\ call.next = Null
      BY DEF Arrives, Respond
    <2>2. /\ id \in walk.listed <=> Above(id)
          /\ id \notin walk.again
          /\ id \in call.items <=> ~Above(id)
      BY <2>1 DEF IInv, Split, SteadySplit, PageRead, InPage
    <2> QED  BY <2>2 DEF AllListed, ListedAgain
  <1> QED  BY <1>1, Invariant, PTL DEF Spec, SteadyListedOnce

\* Only what was unpinned, or written by an older transaction, comes twice.
THEOREM TwiceOnlyIfLoweredAlways == Spec => TwiceOnlyIfLowered
  <1>1. IInv /\ [Next]_vars => [Respond => ListedAgain \subseteq walk.lowered]_vars
    <2> SUFFICES ASSUME IInv, Respond PROVE ListedAgain \subseteq walk.lowered
      OBVIOUS
    <2>1. call.at = "ratings"
      BY DEF Respond
    <2> QED  BY <2>1 DEF IInv, Split, ListedAbove, PageRead, ListedAgain
  <1> QED  BY <1>1, Invariant, PTL DEF Spec, TwiceOnlyIfLowered

\* A walk during which nothing changes lists all and only what is visible, and
\* ends on a page that is not empty, if there is anything to list.
THEOREM CalmWalkIsExactAlways == Spec => CalmWalkIsExact
  <1>1. IInv /\ [Next]_vars =>
          [Arrives /\ walk.calm => /\ AllListed = After(walk.from)
                                   /\ (call.items = {} => AllListed = {})]_vars
    <2> SUFFICES ASSUME IInv, Arrives, walk.calm
                 PROVE  AllListed = After(walk.from) /\ (call.items = {} => AllListed = {})
      OBVIOUS
    <2>1. call.at = "ratings" /\ call.next = Null
      BY DEF Arrives, Respond
    <2>2. /\ walk.steady = After(walk.from)
          /\ walk.listed \subseteq walk.steady /\ call.items \subseteq walk.steady
          /\ call.items = {} => walk.listed = {}
      BY <2>1 DEF IInv, Split, Calm
    <2>3. \A id \in walk.steady : id \in walk.listed \/ id \in call.items
      BY <2>1 DEF IInv, Split, SteadySplit, PageRead, InPage
    <2> QED  BY <2>2, <2>3 DEF AllListed
  <1> QED  BY <1>1, Invariant, PTL DEF Spec, CalmWalkIsExact
=============================================================================
