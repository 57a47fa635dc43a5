--------------------------- MODULE CafePagesProofs ---------------------------
(***************************************************************************)
(* Proofs about CafePages.  An average lies between the scores it is of,   *)
(* and so in the span of a kind's buckets (Rated).  A response that no change   *)
(* overtook is what the queries would return now (Current), and so is what *)
(* a request on its way has read (Reading).                                *)
(***************************************************************************)
EXTENDS CafePages, FiniteSetTheorems, WellFoundedInduction, TLAPS

(* Least and greatest *)

LEMMA Minimal ==
  ASSUME NEW Q, NEW D, IsWellFoundedOn(Q, D), NEW B, B \subseteq D, B # {}
  PROVE  \E x \in B : \A y \in B : ~(<<y, x>> \in Q)
  BY WFMin

LEMMA LessIsWellFounded ==
  \E Q : /\ IsWellFoundedOn(Q, Nat)
         /\ \A x, y \in Nat : x < y => <<x, y>> \in Q
  <1>1. IsWellFoundedOn(OpToRel(<, Nat), Nat)
    BY NatLessThanWellFounded
  <1>2. \A x, y \in Nat : x < y => <<x, y>> \in OpToRel(<, Nat)
    BY DEF OpToRel
  <1> QED  BY <1>1, <1>2, Zenon

LEMMA Least ==
  ASSUME NEW S, S \subseteq Nat, S # {}
  PROVE  \E x \in S : \A y \in S : x <= y
  <1>1. PICK Q : /\ IsWellFoundedOn(Q, Nat)
                 /\ \A x, y \in Nat : x < y => <<x, y>> \in Q
    BY LessIsWellFounded
  <1>2. \E x \in S : \A y \in S : ~(<<y, x>> \in Q)
    <2> DEFINE D == Nat
    <2>1. IsWellFoundedOn(Q, D) /\ S \subseteq D
      BY <1>1
    <2> HIDE DEF D
    <2> QED  BY <2>1, Minimal, Zenon
  <1>3. PICK x \in S : \A y \in S : ~(<<y, x>> \in Q)
    BY <1>2
  <1>4. ASSUME NEW y \in S  PROVE x <= y
    <2>1. ~(<<y, x>> \in Q)
      BY <1>3
    <2>2. x \in Nat /\ y \in Nat
      OBVIOUS
    <2>3. ~(y < x)
      BY <1>1, <2>1, <2>2
    <2> QED  BY <2>2, <2>3
  <1> QED  BY <1>4

LEMMA Greatest ==
  ASSUME NEW v \in Nat, NEW S, S \subseteq Nat, S # {}, \A x \in S : x <= v
  PROVE  \E x \in S : \A y \in S : y <= x
  <1> DEFINE D == {v - x : x \in S}
  <1>1. D \subseteq Nat /\ D # {}
    <2>1. ASSUME NEW x \in S  PROVE v - x \in Nat
      <3>1. x \in Nat /\ x <= v
        OBVIOUS
      <3> QED  BY <3>1
    <2> QED  BY <2>1, Zenon
  <1>2. PICK d \in D : \A e \in D : d <= e
    BY <1>1, Least
  <1>3. PICK x \in S : d = v - x
    OBVIOUS
  <1>4. ASSUME NEW y \in S  PROVE y <= x
    <2>1. v - y \in D
      OBVIOUS
    <2>2. v - x <= v - y /\ x \in Nat /\ y \in Nat
      BY <1>2, <1>3, <2>1
    <2> QED  BY <2>2
  <1> QED  BY <1>4

----------------------------------------------------------------------------
(* Sums *)

Pick(s) == CHOOSE x \in s : TRUE

Sums(f, D, g) == g = [s \in D |-> IF s = {} THEN 0 ELSE f[Pick(s)] + g[s \ {Pick(s)}]]

UpTo(S, n) == {s \in SUBSET S : Cardinality(s) <= n}

LEMMA PickIsIn ==
  ASSUME NEW s, s # {}
  PROVE  Pick(s) \in s
  BY DEF Pick

LEMMA Smaller ==
  ASSUME NEW S, IsFiniteSet(S), NEW s \in SUBSET S, s # {}
  PROVE  /\ s \ {Pick(s)} \in SUBSET S
         /\ Cardinality(s) \in Nat /\ Cardinality(s \ {Pick(s)}) \in Nat
         /\ Cardinality(s) = Cardinality(s \ {Pick(s)}) + 1
  <1>1. IsFiniteSet(s) /\ IsFiniteSet(s \ {Pick(s)})
    BY FS_Subset
  <1>2. Cardinality(s \ {Pick(s)}) = Cardinality(s) - 1
    BY <1>1, PickIsIn, FS_RemoveElement
  <1> QED  BY <1>1, <1>2, FS_CardinalityType

LEMMA SumsExtend ==
  ASSUME NEW S, IsFiniteSet(S), NEW f, NEW n \in Nat, NEW g, Sums(f, UpTo(S, n), g)
  PROVE  \E h : Sums(f, UpTo(S, n + 1), h)
  <1> DEFINE Step(s) == IF s = {} THEN 0 ELSE f[Pick(s)] + g[s \ {Pick(s)}]
             h == [s \in UpTo(S, n + 1) |-> Step(s)]
  <1>1. ASSUME NEW s \in UpTo(S, n)  PROVE h[s] = g[s]
    <2>1. s \in UpTo(S, n + 1)
      <3>1. Cardinality(s) \in Nat
        BY FS_Subset, FS_CardinalityType DEF UpTo
      <3> QED  BY <3>1 DEF UpTo
    <2>2. g[s] = Step(s)
      BY Zenon DEF Sums
    <2> QED  BY <2>1, <2>2
  <1>2. ASSUME NEW s \in UpTo(S, n + 1), s # {}  PROVE s \ {Pick(s)} \in UpTo(S, n)
    BY <1>2, Smaller DEF UpTo
  <1>3. ASSUME NEW s \in UpTo(S, n + 1), s # {}
        PROVE  h[s] = f[Pick(s)] + h[s \ {Pick(s)}]
    BY <1>1, <1>2, <1>3
  <1>4. h = [s \in UpTo(S, n + 1) |-> IF s = {} THEN 0 ELSE f[Pick(s)] + h[s \ {Pick(s)}]]
    <2> DEFINE k == [s \in UpTo(S, n + 1) |-> IF s = {} THEN 0 ELSE f[Pick(s)] + h[s \ {Pick(s)}]]
    <2>1. ASSUME NEW s \in UpTo(S, n + 1)  PROVE h[s] = k[s]
      BY <1>3
    <2> QED  BY <2>1
  <1> HIDE DEF h
  <1> QED  BY <1>4 DEF Sums

LEMMA SumsExist ==
  ASSUME NEW S, IsFiniteSet(S), NEW f
  PROVE  \E g : Sums(f, SUBSET S, g)
  <1> DEFINE Bad == {n \in Nat : ~ \E g : Sums(f, UpTo(S, n), g)}
  <1>1. Bad = {}
    <2>1. SUFFICES ASSUME Bad # {}  PROVE FALSE
      OBVIOUS
    <2>2. PICK n \in Bad : \A m \in Bad : n <= m
      BY <2>1, Least
    <2>3. n # 0
      <3>1. ASSUME NEW s \in UpTo(S, 0)  PROVE s = {}
        <4>1. IsFiniteSet(s) /\ Cardinality(s) = 0
          BY FS_Subset, FS_CardinalityType DEF UpTo
        <4> QED  BY <4>1, FS_EmptySet
      <3> DEFINE g == [s \in UpTo(S, 0) |-> 0]
                 h == [s \in UpTo(S, 0) |-> IF s = {} THEN 0 ELSE f[Pick(s)] + g[s \ {Pick(s)}]]
      <3>2. \A s \in UpTo(S, 0) : g[s] = h[s]
        BY <3>1
      <3>3. g = h
        BY <3>2
      <3>4. \E k : Sums(f, UpTo(S, 0), k)
        BY <3>3 DEF Sums
      <3> QED  BY <3>4
    <2>4. n - 1 \in Nat /\ ~(n <= n - 1)
      BY <2>3
    <2>5. n - 1 \notin Bad
      BY <2>2, <2>4
    <2>6. PICK g : Sums(f, UpTo(S, n - 1), g)
      BY <2>4, <2>5
    <2>7. \E h : Sums(f, UpTo(S, (n - 1) + 1), h)
      BY <2>4, <2>6, SumsExtend
    <2> QED  BY <2>2, <2>7
  <1>2. Cardinality(S) \in Nat
    BY FS_CardinalityType
  <1>3. UpTo(S, Cardinality(S)) = SUBSET S
    BY FS_Subset DEF UpTo
  <1>4. \E g : Sums(f, UpTo(S, Cardinality(S)), g)
    BY <1>1, <1>2
  <1> QED  BY <1>3, <1>4, Zenon

LEMMA SumIs ==
  ASSUME NEW S, IsFiniteSet(S), NEW f
  PROVE  \E g : Sums(f, SUBSET S, g) /\ SumFunctionOnSet(f, S) = g[S]
  <1> DEFINE g == CHOOSE h : Sums(f, SUBSET S, h)
  <1>1. Sums(f, SUBSET S, g)
    BY SumsExist, Zenon
  <1>2. SumFunctionOnSet(f, S) = g[S]
    BY Zenon DEF SumFunctionOnSet, FoldFunctionOnSet, MapThenFoldSet, Sums, Pick
  <1> HIDE DEF g
  <1> QED  BY <1>1, <1>2

LEMMA OneMore ==
  ASSUME NEW a \in Int, NEW k \in Nat
  PROVE  a * (k + 1) = a * k + a /\ a * k \in Int
  OBVIOUS

\* A sum lies between as many times the least and the greatest of its numbers.
LEMMA SumBounds ==
  ASSUME NEW S, IsFiniteSet(S), NEW f, NEW lo \in Int, NEW hi \in Int,
         \A x \in S : f[x] \in Int
  PROVE  /\ SumFunctionOnSet(f, S) \in Int
         /\ (\A x \in S : lo <= f[x]) => lo * Cardinality(S) <= SumFunctionOnSet(f, S)
         /\ (\A x \in S : f[x] <= hi) => SumFunctionOnSet(f, S) <= hi * Cardinality(S)
  <1>1. PICK g : Sums(f, SUBSET S, g) /\ SumFunctionOnSet(f, S) = g[S]
    BY SumIs
  <1> DEFINE Low == \A x \in S : lo <= f[x]
             High == \A x \in S : f[x] <= hi
             Fits(s) == /\ g[s] \in Int
                        /\ Low => lo * Cardinality(s) <= g[s]
                        /\ High => g[s] <= hi * Cardinality(s)
             Bad == {n \in Nat : \E s \in SUBSET S : Cardinality(s) = n /\ ~Fits(s)}
  <1>2. Bad = {}
    <2>1. SUFFICES ASSUME Bad # {}  PROVE FALSE
      OBVIOUS
    <2>2. PICK n \in Bad : \A m \in Bad : n <= m
      BY <2>1, Least
    <2>3. PICK s \in SUBSET S : Cardinality(s) = n /\ ~Fits(s)
      OBVIOUS
    <2>4. g[s] = IF s = {} THEN 0 ELSE f[Pick(s)] + g[s \ {Pick(s)}]
      BY <1>1, Zenon DEF Sums
    <2>5. CASE s = {}
      <3>1. Cardinality(s) = 0 /\ g[s] = 0
        BY <2>4, <2>5, FS_EmptySet
      <3> QED  BY <2>3, <3>1
    <2>6. CASE s # {}
      <3> DEFINE t == s \ {Pick(s)}
      <3>1. /\ t \in SUBSET S /\ Cardinality(t) \in Nat /\ Cardinality(s) \in Nat
            /\ Cardinality(s) = Cardinality(t) + 1
        BY <2>6, Smaller
      <3>2. Pick(s) \in S
        BY <2>6, PickIsIn
      <3>3. g[s] = f[Pick(s)] + g[t]
        BY <2>4, <2>6
      <3> HIDE DEF t
      <3>4. Fits(t)
        <4>1. ~(n <= Cardinality(t))
          BY <2>3, <3>1
        <4> QED  BY <2>2, <3>1, <4>1
      <3>5. /\ f[Pick(s)] \in Int
            /\ Low => lo <= f[Pick(s)]
            /\ High => f[Pick(s)] <= hi
        BY <3>2
      <3>6. /\ lo * Cardinality(s) = lo * Cardinality(t) + lo
            /\ hi * Cardinality(s) = hi * Cardinality(t) + hi
            /\ lo * Cardinality(t) \in Int /\ hi * Cardinality(t) \in Int
        BY <3>1, OneMore
      <3> HIDE DEF Low, High
      <3> QED  BY <2>3, <3>1, <3>3, <3>4, <3>5, <3>6
    <2> QED  BY <2>5, <2>6
  <1>3. Cardinality(S) \in Nat
    BY FS_CardinalityType
  <1>4. Fits(S)
    BY <1>2, <1>3
  <1> QED  BY <1>1, <1>4

----------------------------------------------------------------------------
(* Averages *)

LEMMA Division ==
  ASSUME NEW t \in Nat, NEW m \in Nat, m > 0
  PROVE  /\ t \div m \in Nat
         /\ m * (t \div m) <= t
         /\ t < m * (t \div m) + m
  OBVIOUS

LEMMA RoundedIs ==
  ASSUME NEW t \in Nat, NEW n \in Nat, n > 0
  PROVE  /\ Rounded(t, n) \in Nat
         /\ (2 * n) * Rounded(t, n) <= 2 * t + n
         /\ 2 * t + n < (2 * n) * Rounded(t, n) + 2 * n
  <1>1. 2 * t + n \in Nat /\ 2 * n \in Nat /\ 2 * n > 0
    OBVIOUS
  <1> DEFINE a == 2 * t + n
             m == 2 * n
  <1>2. Rounded(t, n) = a \div m
    BY DEF Rounded
  <1>3. a \in Nat /\ m \in Nat /\ m > 0
    BY <1>1
  <1>4. /\ a \div m \in Nat /\ m * (a \div m) <= a /\ a < m * (a \div m) + m
    <2> HIDE DEF a, m
    <2> QED  BY <1>3, Division
  <1> QED  BY <1>2, <1>4

\* Rounding keeps the order of averages.
LEMMA RoundedOrder ==
  ASSUME NEW a \in Nat, NEW n \in Nat, n > 0, NEW b \in Nat, NEW m \in Nat, m > 0,
         a * m <= b * n
  PROVE  Rounded(a, n) <= Rounded(b, m)
  <1> DEFINE q == Rounded(a, n)
             r == Rounded(b, m)
  <1>1. /\ q \in Nat /\ r \in Nat
        /\ (2 * n) * q <= 2 * a + n
        /\ 2 * b + m < (2 * m) * r + 2 * m
    BY RoundedIs
  <1> HIDE DEF q, r
  <1>2. SUFFICES ASSUME r + 1 <= q  PROVE FALSE
    BY <1>1 DEF q, r
  <1>3. n * m \in Nat /\ n * m > 0
    OBVIOUS
  <1>4. 2 * b + m < (2 * m) * (r + 1)
    BY <1>1
  <1>5. (2 * b + m) * n < ((2 * m) * (r + 1)) * n
    BY <1>1, <1>4
  <1>6. ((2 * n) * q) * m <= (2 * a + n) * m
    BY <1>1
  <1>7. (r + 1) * (n * m) <= q * (n * m)
    BY <1>1, <1>2, <1>3
  <1>8. /\ ((2 * m) * (r + 1)) * n = 2 * ((r + 1) * (n * m))
        /\ ((2 * n) * q) * m = 2 * (q * (n * m))
        /\ (2 * b + m) * n = 2 * (b * n) + n * m
        /\ (2 * a + n) * m = 2 * (a * m) + n * m
    BY <1>1
  <1>9. /\ (r + 1) * (n * m) \in Int /\ q * (n * m) \in Int
        /\ b * n \in Int /\ a * m \in Int
    BY <1>1, <1>3
  <1> QED  BY <1>3, <1>5, <1>6, <1>7, <1>8, <1>9

\* Of some numbers, one is not above and one is not below their rounded average.
LEMMA AverageBetween ==
  ASSUME NEW S, IsFiniteSet(S), S # {}, NEW f, \A x \in S : f[x] \in Nat
  PROVE  LET v == Rounded(SumFunctionOnSet(f, S), Cardinality(S))
         IN /\ v \in Nat
            /\ SumFunctionOnSet(f, S) \in Nat
            /\ \E x \in S : f[x] <= v
            /\ \E x \in S : v <= f[x]
  <1> DEFINE n == Cardinality(S)
             t == SumFunctionOnSet(f, S)
             v == Rounded(t, n)
  <1>1. n \in Nat /\ n > 0
    BY FS_CardinalityType, FS_EmptySet
  <1>2. t \in Nat
    BY <1>1, SumBounds
  <1>3. v \in Nat
    <2> HIDE DEF n, t
    <2> QED  BY <1>1, <1>2, RoundedIs
  <1>4. \E x \in S : f[x] <= v
    <2>1. SUFFICES ASSUME \A x \in S : v + 1 <= f[x]  PROVE FALSE
      BY <1>3
    <2>2. (v + 1) * n <= t
      BY <1>3, <2>1, SumBounds
    <2>3. /\ (2 * n) * v <= 2 * t + n
          /\ 2 * t + n < (2 * n) * v + 2 * n
      <3> HIDE DEF n, t
      <3> QED  BY <1>1, <1>2, RoundedIs DEF v
    <2> HIDE DEF v, n, t
    <2>4. (2 * n) * v + 2 * n = 2 * ((v + 1) * n) /\ (v + 1) * n \in Int
      BY <1>1, <1>3
    <2> QED  BY <1>1, <1>2, <2>2, <2>3, <2>4
  <1>5. \E x \in S : v <= f[x]
    <2>1. SUFFICES ASSUME \A x \in S : f[x] <= v - 1  PROVE FALSE
      BY <1>3
    <2>2. t <= (v - 1) * n
      BY <1>3, <2>1, SumBounds
    <2>3. (2 * n) * v <= 2 * t + n
      <3> HIDE DEF n, t
      <3> QED  BY <1>1, <1>2, RoundedIs DEF v
    <2> HIDE DEF v, n, t
    <2>4. (2 * n) * v = 2 * ((v - 1) * n) + 2 * n /\ (v - 1) * n \in Int
      BY <1>1, <1>3
    <2> QED  BY <1>1, <1>2, <2>2, <2>3, <2>4
  <1> QED  BY <1>2, <1>3, <1>4, <1>5

----------------------------------------------------------------------------
(* Buckets *)

LEMMA BucketsAre ==
  ASSUME NEW k, NEW b \in BucketsOf(k)
  PROVE  /\ b \in Buckets /\ b.kind = k /\ k \in Kinds
         /\ b.lower \in Nat /\ b.upper \in Nat /\ b.lower <= b.upper
         /\ b.slug \in BOOLEAN
  BY BucketsAssumption DEF BucketsOf, Bucket

\* No score is in two of a kind's buckets.
LEMMA NotInTwo ==
  ASSUME NEW k, NEW b \in BucketsOf(k), NEW c \in BucketsOf(k),
         NEW v \in Nat, InRange(b, v), InRange(c, v)
  PROVE  b = c
  <1>1. /\ b \in Buckets /\ b.kind = k /\ b.lower \in Nat /\ b.upper \in Nat
        /\ c \in Buckets /\ c.kind = k /\ c.lower \in Nat /\ c.upper \in Nat
    BY BucketsAre
  <1>2. /\ b.lower = c.lower => b = c
        /\ b.lower < c.lower => b.upper < c.lower
        /\ c.lower < b.lower => c.upper < b.lower
    BY <1>1, BucketsAssumption
  <1> QED  BY <1>1, <1>2 DEF InRange

\* What is not outside of a gapless kind's span is in one of its buckets.
LEMMA InOneBucket ==
  ASSUME NEW k, Gapless(k), NEW v \in Nat,
         \E b \in BucketsOf(k) : b.lower <= v, \E b \in BucketsOf(k) : v <= b.upper
  PROVE  \E b \in BucketsOf(k) : InRange(b, v)
  <1>1. \A b \in BucketsOf(k) : /\ b \in Buckets /\ b.kind = k
                                /\ b.lower \in Nat /\ b.upper \in Nat /\ b.lower <= b.upper
    BY BucketsAre
  <1>2. \A b, c \in BucketsOf(k) :
           /\ b.lower = c.lower => b = c
           /\ b.lower < c.lower => \E d \in BucketsOf(k) : d.lower = b.upper + 1
           /\ c.lower < b.lower => c.upper < b.lower
    <2>1. ASSUME NEW b \in BucketsOf(k), NEW c \in BucketsOf(k)
          PROVE  /\ b.lower = c.lower => b = c
                 /\ b.lower < c.lower => \E d \in BucketsOf(k) : d.lower = b.upper + 1
                 /\ c.lower < b.lower => c.upper < b.lower
      <3>1. b \in Buckets /\ c \in Buckets /\ b.kind = k /\ c.kind = k
        BY <1>1
      <3>2. b.lower < c.lower => \E d \in BucketsOf(k) : d.lower = b.upper + 1
        BY DEF Gapless
      <3> QED  BY <3>1, <3>2, BucketsAssumption
    <2> QED  BY <2>1
  <1> DEFINE lowers == {b.lower : b \in {b \in BucketsOf(k) : b.lower <= v}}
  <1>3. lowers \subseteq Nat /\ lowers # {} /\ \A n \in lowers : n <= v
    BY <1>1
  <1>4. PICK n \in lowers : \A m \in lowers : m <= n
    BY <1>3, Greatest
  <1>5. PICK b \in BucketsOf(k) : b.lower = n /\ b.lower <= v
    BY <1>3
  <1>6. v <= b.upper
    <2>1. SUFFICES ASSUME b.upper < v  PROVE FALSE
      BY <1>1, <1>5
    <2>2. PICK c \in BucketsOf(k) : v <= c.upper
      OBVIOUS
    <2>3. c # b
      BY <1>1, <2>1, <2>2
    <2>4. b.lower < c.lower
      BY <1>1, <1>2, <1>5, <2>1, <2>2, <2>3
    <2>5. PICK d \in BucketsOf(k) : d.lower = b.upper + 1
      BY <1>2, <2>4
    <2>6. d.lower <= v /\ ~(d.lower <= b.lower)
      BY <1>1, <1>5, <2>1, <2>5
    <2>7. d.lower \in lowers
      BY <2>6
    <2> QED  BY <1>4, <1>5, <2>6, <2>7
  <1>7. v # None
    BY NoneAssumption
  <1> QED  BY <1>5, <1>6, <1>7 DEF InRange

----------------------------------------------------------------------------
(* The inductive invariant *)

\* A kind's stored scores are not outside of the span of its buckets.
Rated ==
    \A i \in Reviews, k \in Kinds : review[i].scores[k] # None =>
        /\ \E b \in BucketsOf(k) : b.lower <= review[i].scores[k]
        /\ \E b \in BucketsOf(k) : review[i].scores[k] <= b.upper

RatedKinds(c) == {k \in Kinds : RatedOf(c, k) # {}}

ScoresOf(c) == [k \in Kinds |-> PageScore(c, k)]

MarkedOf(c) == UNION {Marked(PageScore(c, k), k) : k \in RatedKinds(c)}

\* What the queries answer now
Current(r) ==
    /\ r.op = "review" => /\ r.overall = OverallScore(r.cafe)
                          /\ r.scores = ScoresOf(r.cafe)
                          /\ r.marked = MarkedOf(r.cafe)
    /\ r.op = "cafe" => r.price = price[r.cafe] /\ r.rank = PriceRank(price[r.cafe])
    /\ r.op = "filters" => r.tiers = PriceTiers
    /\ r.op = "search" => \/ r.code = 200 /\ r.found \in Orders(r.query)
                          \/ r.code = 400 /\ r.found = <<>> /\ ~OneBucketPerKind(r.query)

Reads(c) == /\ c.at = "ratings" => c.overall = OverallScore(c.cafe)
            /\ c.at = "rank" => c.price = price[c.cafe]

Reading == calm => \A c \in {call} : Reads(c)

Now == \A r \in seen : Current(r)

IInv == TypeOK /\ Rated /\ Reading /\ Now

----------------------------------------------------------------------------
(* Types *)

LEMMA NoneIsNoNumber ==
  None \notin Nat
  BY NoneAssumption

LEMMA ReviewsAre ==
  ASSUME TypeOK, NEW i \in Reviews
  PROVE  /\ review[i].overall # None => review[i].overall \in Nat /\ review[i].overall <= 500
         /\ \A k \in Kinds : review[i].scores[k] # None => review[i].scores[k] \in Nat
  <1>1. review[i] \in [status: Statuses, overall: Scores, scores: [Kinds -> OrNone(Nat)]]
    BY DEF TypeOK
  <1>2. review[i].overall \in Scores /\ review[i].scores \in [Kinds -> OrNone(Nat)]
    BY <1>1
  <1> QED  BY <1>2 DEF Scores, OrNone

LEMMA ReviewSets ==
  ASSUME NEW c, NEW k
  PROVE  /\ IsFiniteSet(VisibleOf(c)) /\ Cardinality(VisibleOf(c)) \in Nat
         /\ IsFiniteSet(ScoredOf(c)) /\ Cardinality(ScoredOf(c)) \in Nat
         /\ IsFiniteSet(RatedOf(c, k)) /\ Cardinality(RatedOf(c, k)) \in Nat
         /\ ScoredOf(c) \subseteq Reviews /\ RatedOf(c, k) \subseteq Reviews
  <1>1. /\ VisibleOf(c) \in SUBSET Reviews
        /\ ScoredOf(c) \in SUBSET Reviews
        /\ RatedOf(c, k) \in SUBSET Reviews
    BY DEF VisibleOf, ScoredOf, RatedOf
  <1>2. /\ IsFiniteSet(VisibleOf(c))
        /\ IsFiniteSet(ScoredOf(c))
        /\ IsFiniteSet(RatedOf(c, k))
    BY <1>1, ReviewsAssumption, FS_Subset
  <1> QED  BY <1>1, <1>2, FS_CardinalityType

OverallTotal(S) == SumFunctionOnSet([i \in S |-> review[i].overall], S)

RatedTotal(S, k) == SumFunctionOnSet([i \in S |-> review[i].scores[k]], S)

LEMMA OverallIs ==
  ASSUME TypeOK, NEW c, ScoredOf(c) # {}
  PROVE  /\ OverallScore(c) = Rounded(OverallTotal(ScoredOf(c)), Cardinality(ScoredOf(c)))
         /\ OverallTotal(ScoredOf(c)) \in Nat
         /\ OverallScore(c) \in 0..500
  <1> DEFINE S == ScoredOf(c)
             f == [i \in S |-> review[i].overall]
             v == Rounded(SumFunctionOnSet(f, S), Cardinality(S))
  <1>1. \A i \in S : f[i] \in Nat /\ f[i] <= 500
    BY ReviewsAre DEF ScoredOf, VisibleOf
  <1>2. IsFiniteSet(S) /\ S # {}
    BY ReviewSets
  <1>3. /\ v \in Nat /\ SumFunctionOnSet(f, S) \in Nat
        /\ \E i \in S : v <= f[i]
    <2> HIDE DEF S, f
    <2> QED  BY <1>1, <1>2, AverageBetween DEF v
  <1>4. v \in 0..500
    <2> HIDE DEF v, f
    <2> QED  BY <1>1, <1>3
  <1>5. OverallScore(c) = v
    BY DEF OverallScore, Total
  <1> QED  BY <1>3, <1>4, <1>5 DEF OverallTotal

LEMMA OverallType ==
  ASSUME TypeOK, NEW c
  PROVE  OverallScore(c) \in Scores
  <1>1. CASE ScoredOf(c) = {}
    BY <1>1 DEF OverallScore, Scores, OrNone
  <1>2. CASE ScoredOf(c) # {}
    BY <1>2, OverallIs DEF Scores, OrNone
  <1> QED  BY <1>1, <1>2

\* A kind's score is between two of the scores it is the average of.
LEMMA PageScoreIs ==
  ASSUME TypeOK, NEW c, NEW k \in Kinds, RatedOf(c, k) # {}
  PROVE  /\ PageScore(c, k) = Rounded(RatedTotal(RatedOf(c, k), k), Cardinality(RatedOf(c, k)))
         /\ PageScore(c, k) \in Nat
         /\ \E i \in RatedOf(c, k) : review[i].scores[k] <= PageScore(c, k)
         /\ \E i \in RatedOf(c, k) : PageScore(c, k) <= review[i].scores[k]
  <1> DEFINE S == RatedOf(c, k)
             f == [i \in S |-> review[i].scores[k]]
             v == Rounded(SumFunctionOnSet(f, S), Cardinality(S))
  <1>1. \A i \in S : f[i] \in Nat
    BY ReviewsAre DEF RatedOf, VisibleOf
  <1>2. IsFiniteSet(S) /\ S # {}
    BY ReviewSets
  <1>3. /\ v \in Nat
        /\ \E i \in S : f[i] <= v
        /\ \E i \in S : v <= f[i]
    <2> HIDE DEF S, f
    <2> QED  BY <1>1, <1>2, AverageBetween DEF v
  <1>4. PageScore(c, k) = v
    BY DEF PageScore, Total
  <1> QED  BY <1>3, <1>4 DEF RatedTotal

LEMMA ScoresType ==
  ASSUME TypeOK, NEW c
  PROVE  ScoresOf(c) \in [Kinds -> OrNone(Nat)]
  <1>1. ASSUME NEW k \in Kinds  PROVE PageScore(c, k) \in OrNone(Nat)
    <2>1. CASE RatedOf(c, k) = {}
      BY <2>1 DEF PageScore, OrNone
    <2>2. CASE RatedOf(c, k) # {}
      BY <2>2, PageScoreIs DEF OrNone
    <2> QED  BY <2>1, <2>2
  <1> QED  BY <1>1 DEF ScoresOf

LEMMA TiersAre ==
  /\ Len(Tiers) \in Nat /\ DOMAIN Tiers = 1..Len(Tiers)
  /\ \A i \in DOMAIN Tiers : /\ Tiers[i].lower \in Nat /\ Tiers[i].upper \in Nat
                             /\ Tiers[i].lower % 100 = 0 /\ Tiers[i].upper % 100 = 0
  <1>1. Len(Tiers) \in Nat /\ DOMAIN Tiers = 1..Len(Tiers)
    BY TiersAssumption
  <1>2. ASSUME NEW i \in DOMAIN Tiers
        PROVE  /\ Tiers[i].lower \in Nat /\ Tiers[i].upper \in Nat
               /\ Tiers[i].lower % 100 = 0 /\ Tiers[i].upper % 100 = 0
    <2>1. Tiers[i] \in BucketsOf(PriceKind)
      BY TiersAssumption DEF Range
    <2> QED  BY <2>1, BucketsAre, TiersAssumption
  <1> QED  BY <1>1, <1>2

LEMMA RankIs ==
  ASSUME NEW p \in Prices
  PROVE  \/ PriceRank(p) = None
         \/ /\ PriceRank(p) \in Nat /\ PriceRank(p) + 1 \in TiersOf(p)
            /\ None \notin {p.min, p.max}
  <1> DEFINE i == CHOOSE i \in TiersOf(p) : TRUE
  <1>1. CASE None \in {p.min, p.max} \/ TiersOf(p) = {}
    BY <1>1 DEF PriceRank
  <1>2. CASE ~(None \in {p.min, p.max} \/ TiersOf(p) = {})
    <2>1. i \in TiersOf(p)
      BY <1>2
    <2>2. PriceRank(p) = i - 1
      BY <1>2 DEF PriceRank
    <2> HIDE DEF i
    <2>3. i \in Nat /\ i > 0
      BY <2>1, TiersAre DEF TiersOf
    <2>4. i - 1 \in Nat /\ (i - 1) + 1 = i
      BY <2>3
    <2> QED  BY <1>2, <2>1, <2>2, <2>4
  <1> QED  BY <1>1, <1>2

\* A tier of GET /v1/filters is in rupiah.
LEMMA Rupiah ==
  ASSUME NEW n \in Nat
  PROVE  n \div 100 \in Nat /\ (n % 100 = 0 => n = 100 * (n \div 100))
  OBVIOUS

LEMMA TiersType ==
  PriceTiers \in Seq([min: Nat, max: OrNone(Nat)])
  <1>1. \A i \in 1..Len(Tiers) : PriceTiers[i] \in [min: Nat, max: OrNone(Nat)]
    <2>1. ASSUME NEW i \in 1..Len(Tiers)
          PROVE  PriceTiers[i] \in [min: Nat, max: OrNone(Nat)]
      <3>1. Tiers[i].lower \div 100 \in Nat /\ Tiers[i].upper \div 100 \in Nat
        BY TiersAre, Rupiah
      <3>2. PriceTiers[i] = [min |-> Tiers[i].lower \div 100,
                             max |-> IF i = Len(Tiers) THEN None ELSE Tiers[i].upper \div 100]
        BY TiersAre DEF PriceTiers
      <3> QED  BY <3>1, <3>2 DEF OrNone
    <2> QED  BY <2>1
  <1> DEFINE T == [min: Nat, max: OrNone(Nat)]
  <1>2. PriceTiers \in [1..Len(Tiers) -> T]
    BY <1>1, TiersAre DEF PriceTiers
  <1>3. PriceTiers \in Seq(T)
    <2> HIDE DEF T
    <2> QED  BY <1>2, TiersAre
  <1> QED  BY <1>3

LEMMA OrderIs ==
  ASSUME NEW q, NEW order \in Orders(q)
  PROVE  order \in Seq(Cafes) /\ Range(order) = Found(q)
  <1> DEFINE S == Found(q)
             n == Cardinality(S)
  <1>1. S \in SUBSET Cafes
    BY DEF Found
  <1>2. IsFiniteSet(S) /\ n \in Nat
    BY <1>1, CafesAssumption, FS_Subset, FS_CardinalityType
  <1>3. order \in [1..n -> S] /\ \A i, j \in 1..n : i # j => order[i] # order[j]
    BY DEF Orders, SetToSeqs
  <1>4. order \in Injection(1..n, S)
    BY <1>3 DEF Injection, IsInjective
  <1>5. IsFiniteSet(1..n) /\ Cardinality(1..n) = n
    BY <1>2, FS_Interval
  <1>6. order \in Surjection(1..n, S)
    <2> HIDE DEF S
    <2> QED  BY <1>2, <1>4, <1>5, FS_Injection
  <1>7. Range(order) = S
    BY <1>3, <1>6 DEF Surjection, Range
  <1>8. order \in Seq(Cafes)
    BY <1>1, <1>2, <1>3
  <1> QED  BY <1>7, <1>8

Fields(c) ==
    /\ c.at \in {"aggregates", "cafe", "ratings", "rank"} => c.cafe \in Cafes
    /\ c.at \in {"search", "rows"} => c.query \in Queries
    /\ c.at = "ratings" => c.overall \in Scores /\ c.scored \in Nat /\ c.total \in Nat
    /\ c.at = "rank" => c.price \in Prices

LEMMA CallFields ==
  ASSUME TypeOK
  PROVE  Fields(call)
  <1>1. CASE call = Idle
    BY <1>1 DEF Idle, Fields
  <1>2. CASE call \in Requests
    BY <1>2 DEF Requests, Fields
  <1>3. CASE call \in [at: {"rows"}, query: Queries]
    BY <1>3 DEF Fields
  <1>4. CASE call \in [at: {"ratings"}, cafe: Cafes, overall: Scores, scored: Nat, total: Nat]
    BY <1>4 DEF Fields
  <1>5. CASE call \in [at: {"rank"}, cafe: Cafes, price: Prices]
    BY <1>5 DEF Fields
  <1> QED  BY <1>1, <1>2, <1>3, <1>4, <1>5 DEF TypeOK

Reviewed == [status: Statuses, overall: Scores, scores: [Kinds -> OrNone(Nat)]]

Calls == {Idle} \cup Requests \cup [at: {"rows"}, query: Queries]
         \cup [at: {"ratings"}, cafe: Cafes, overall: Scores, scored: Nat, total: Nat]
         \cup [at: {"rank"}, cafe: Cafes, price: Prices]

Responses == ReviewPage \cup CafePage \cup Filters \cup Answers

Tables == /\ review \in [Reviews -> Reviewed]
          /\ active \in [Users -> BOOLEAN]
          /\ open \in [Cafes -> BOOLEAN]
          /\ price \in [Cafes -> Prices]

LEMMA TypeParts ==
  TypeOK <=> /\ Tables
             /\ call \in Calls
             /\ calm \in BOOLEAN
             /\ seen \subseteq Responses
             /\ edits \in 0..MaxEdits
  BY DEF TypeOK, Tables, Reviewed, Calls, Responses

LEMMA NextTypeParts ==
  TypeOK' <=> /\ Tables'
              /\ call' \in Calls
              /\ calm' \in BOOLEAN
              /\ seen' \subseteq Responses
              /\ edits' \in 0..MaxEdits
  BY DEF TypeOK, Tables, Reviewed, Calls, Responses

\* What fits the buckets is stored within them, and an overall score as 1.00 to 5.00.
LEMMA RowIs ==
  ASSUME NEW form \in Forms, InBounds(form), NEW status \in Statuses
  PROVE  /\ Row(form, status) \in Reviewed
         /\ \A k \in Kinds : Row(form, status).scores[k] # None =>
               /\ \E b \in BucketsOf(k) : b.lower <= Row(form, status).scores[k]
               /\ \E b \in BucketsOf(k) : Row(form, status).scores[k] <= b.upper
  <1>1. form.overall \in OrNone(Nat) /\ form.scores \in [Kinds -> OrNone(Nat)]
    BY FormsAssumption DEF Form
  <1>2. ASSUME NEW n \in OrNone(Nat)
        PROVE  /\ n = None => Stored(n) = None
               /\ n # None => /\ Stored(n) \in Nat
                              /\ \A m \in Nat : 10 * m <= n => m <= Stored(n)
                              /\ \A m \in Nat : n <= 10 * m => Stored(n) <= m
    <2>1. CASE n = None
      BY <2>1 DEF Stored
    <2>2. CASE n # None
      <3>1. n \in Nat /\ Stored(n) = (n + 5) \div 10
        BY <1>2, <2>2 DEF Stored, OrNone
      <3> QED  BY <2>2, <3>1
    <2> QED  BY <2>1, <2>2
  <1>3. Stored(form.overall) \in Scores
    <2>1. CASE form.overall = None
      BY <1>1, <1>2, <2>1 DEF Scores, OrNone
    <2>2. CASE form.overall # None
      <3>1. form.overall <= 10 * 500
        BY <1>1, <2>2 DEF InBounds, OrNone
      <3>2. Stored(form.overall) \in Nat /\ Stored(form.overall) <= 500
        BY <1>1, <1>2, <2>2, <3>1
      <3>3. Stored(form.overall) \in 0..500
        BY <3>2
      <3> QED  BY <3>3 DEF Scores, OrNone
    <2> QED  BY <2>1, <2>2
  <1>4. ASSUME NEW k \in Kinds
        PROVE  /\ Stored(form.scores[k]) \in OrNone(Nat)
               /\ Stored(form.scores[k]) # None =>
                     /\ \E b \in BucketsOf(k) : b.lower <= Stored(form.scores[k])
                     /\ \E b \in BucketsOf(k) : Stored(form.scores[k]) <= b.upper
    <2>1. form.scores[k] \in OrNone(Nat)
      BY <1>1
    <2>2. CASE form.scores[k] = None
      BY <1>2, <2>1, <2>2 DEF OrNone
    <2>3. CASE form.scores[k] # None
      <3>1. /\ \E b \in BucketsOf(k) : 10 * b.lower <= form.scores[k]
            /\ \E b \in BucketsOf(k) : form.scores[k] <= 10 * b.upper
        BY <2>3 DEF InBounds
      <3>2. \A b \in BucketsOf(k) : b.lower \in Nat /\ b.upper \in Nat
        BY BucketsAssumption DEF BucketsOf, Bucket
      <3> QED  BY <1>2, <2>1, <2>3, <3>1, <3>2 DEF OrNone
    <2> QED  BY <2>2, <2>3
  <1>5. Row(form, status).scores = [k \in Kinds |-> Stored(form.scores[k])]
    BY DEF Row
  <1>6. Row(form, status) \in Reviewed
    <2>1. [k \in Kinds |-> Stored(form.scores[k])] \in [Kinds -> OrNone(Nat)]
      BY <1>4
    <2> QED  BY <1>3, <2>1 DEF Row, Reviewed
  <1>7. ASSUME NEW k \in Kinds
        PROVE  Row(form, status).scores[k] = Stored(form.scores[k])
    BY <1>5
  <1> QED  BY <1>4, <1>6, <1>7

----------------------------------------------------------------------------
(* Steps *)

LEMMA InitIInv ==
  Init => IInv
  <1> SUFFICES ASSUME Init  PROVE IInv
    OBVIOUS
  <1>1. PICK form \in [Reviews -> {f \in Forms : InBounds(f)}] :
           review = [i \in Reviews |-> Row(form[i], "approved")]
    BY DEF Init
  <1>2. ASSUME NEW i \in Reviews
        PROVE  /\ review[i] \in Reviewed
               /\ \A k \in Kinds : review[i].scores[k] # None =>
                     /\ \E b \in BucketsOf(k) : b.lower <= review[i].scores[k]
                     /\ \E b \in BucketsOf(k) : review[i].scores[k] <= b.upper
    <2>1. form[i] \in Forms /\ InBounds(form[i]) /\ "approved" \in Statuses
      BY <1>1 DEF Statuses
    <2>2. review[i] = Row(form[i], "approved")
      BY <1>1
    <2> QED  BY <2>1, <2>2, RowIs
  <1>3. Tables
    BY <1>1, <1>2 DEF Init, Tables
  <1>4. call \in Calls /\ calm \in BOOLEAN /\ seen \subseteq Responses
    BY DEF Init, Calls
  <1>5. edits \in 0..MaxEdits
    BY MaxEditsAssumption DEF Init
  <1>6. Rated /\ Reading /\ Now
    BY <1>2 DEF Init, Rated, Reading, Reads, Now, Idle
  <1> QED  BY <1>3, <1>4, <1>5, <1>6, TypeParts DEF IInv

LEMMA QueriesStay ==
  ASSUME UNCHANGED tables, NEW c, NEW q
  PROVE  /\ OverallScore(c)' = OverallScore(c)
         /\ ScoresOf(c)' = ScoresOf(c)
         /\ MarkedOf(c)' = MarkedOf(c)
         /\ Orders(q)' = Orders(q)
  <1>1. review' = review /\ active' = active /\ open' = open /\ price' = price
    BY DEF tables
  <1>2. OverallScore(c)' = OverallScore(c)
    BY <1>1 DEF OverallScore, ScoredOf, VisibleOf, Visible, Total
  <1>3. \A k : RatedOf(c, k)' = RatedOf(c, k)
    BY <1>1 DEF RatedOf, VisibleOf, Visible
  <1>4. RatedKinds(c)' = RatedKinds(c)
    BY <1>3 DEF RatedKinds
  <1>5. \A k : PageScore(c, k)' = PageScore(c, k)
    BY <1>1 DEF PageScore, RatedOf, VisibleOf, Visible, Total
  <1>6. MarkedOf(c)' = MarkedOf(c) /\ ScoresOf(c)' = ScoresOf(c)
    BY <1>4, <1>5 DEF MarkedOf, Marked, ScoresOf
  <1>7. Orders(q)' = Orders(q)
    BY <1>1 DEF Orders, Found, Having, RatedOf, VisibleOf, Visible, Total, InPrice,
                Before, LateralReviews
  <1> QED  BY <1>2, <1>6, <1>7

LEMMA CurrentStays ==
  ASSUME UNCHANGED tables, NEW r, Current(r)
  PROVE  Current(r)'
  <1>1. price' = price
    BY DEF tables
  <1>2. PriceRank(price[r.cafe])' = PriceRank(price[r.cafe])
    BY <1>1 DEF PriceRank, TiersOf
  <1>3. OneBucketPerKind(r.query)' <=> OneBucketPerKind(r.query)
    BY DEF OneBucketPerKind
  <1>4. PriceTiers' = PriceTiers
    BY DEF PriceTiers
  <1> QED  BY <1>1, <1>2, <1>3, <1>4, QueriesStay DEF Current

LEMMA RatedStays ==
  ASSUME UNCHANGED tables, Tables, Rated
  PROVE  Tables' /\ Rated'
  BY DEF tables, Tables, Rated

\* A statement that reads, and the next is on its way
LEMMA ReadStep ==
  ASSUME IInv, UNCHANGED <<tables, calm, seen, edits>>,
         call' \in Calls, calm => \A c \in {call'} : Reads(c)
  PROVE  IInv'
  <1>1. TypeOK' /\ Rated'
    BY RatedStays, TypeParts, NextTypeParts DEF IInv
  <1>2. Reading'
    <2>1. ASSUME calm', NEW c \in {call'}  PROVE Reads(c)'
      <3>1. Reads(c) /\ price' = price /\ OverallScore(c.cafe)' = OverallScore(c.cafe)
        BY <2>1, QueriesStay DEF tables
      <3> QED  BY <3>1 DEF Reads
    <2> QED  BY <2>1 DEF Reading
  <1>3. Now'
    <2>1. ASSUME NEW r \in seen'  PROVE Current(r)'
      <3>1. Current(r)
        BY DEF IInv, Now
      <3> QED  BY <3>1, CurrentStays
    <2> QED  BY <2>1 DEF Now
  <1> QED  BY <1>1, <1>2, <1>3 DEF IInv

LEMMA ReplyStep ==
  ASSUME IInv, NEW response \in Responses, Reply(response), calm => Current(response)
  PROVE  IInv'
  <1>1. /\ call' = Idle /\ UNCHANGED <<tables, calm, edits>>
        /\ \A r \in seen' : r \in seen \/ (calm /\ r = response)
    BY DEF Reply
  <1>2. TypeOK' /\ Rated'
    <2>1. call' \in Calls /\ seen' \subseteq Responses
      BY <1>1, TypeParts DEF IInv, Calls
    <2> QED  BY <1>1, <2>1, RatedStays, TypeParts, NextTypeParts DEF IInv
  <1>3. Reading'
    BY <1>1 DEF Reading, Reads, Idle
  <1>4. Now'
    <2>1. ASSUME NEW r \in seen'  PROVE Current(r)'
      <3>1. Current(r)
        BY <1>1 DEF IInv, Now
      <3> QED  BY <1>1, <3>1, CurrentStays
    <2> QED  BY <2>1 DEF Now
  <1> QED  BY <1>2, <1>3, <1>4 DEF IInv

LEMMA ChangeStep ==
  ASSUME IInv, Change, Tables', Rated'
  PROVE  IInv'
  <1>1. TypeOK'
    <2>1. edits' \in 0..MaxEdits
      <3>1. edits \in 0..MaxEdits /\ edits < MaxEdits /\ edits' = edits + 1
        BY TypeParts DEF IInv, Change
      <3> QED  BY <3>1, MaxEditsAssumption
    <2>2. call' \in Calls /\ calm' \in BOOLEAN /\ seen' \subseteq Responses
      BY TypeParts DEF IInv, Change, Calls, Requests, Idle
    <2> QED  BY <2>1, <2>2, NextTypeParts
  <1>2. Reading' /\ Now'
    BY DEF Change, Reading, Now
  <1> QED  BY <1>1, <1>2 DEF IInv

LEMMA ServeStep ==
  ASSUME IInv, Serve
  PROVE  IInv'
  <1>0. Fields(call) /\ Tables /\ call \in Calls
    BY CallFields, TypeParts DEF IInv
  <1>1. CASE CafeReviewAggregatesByLocationID
    <2> DEFINE next == [at |-> "ratings", cafe |-> call.cafe,
                        overall |-> OverallScore(call.cafe),
                        scored |-> Cardinality(ScoredOf(call.cafe)),
                        total |-> Cardinality(VisibleOf(call.cafe))]
    <2>1. call' = next /\ UNCHANGED <<tables, calm, seen, edits>> /\ call.cafe \in Cafes
      BY <1>0, <1>1 DEF CafeReviewAggregatesByLocationID, Fields
    <2>2. next \in Calls
      BY <2>1, OverallType, ReviewSets DEF IInv, Calls
    <2>3. Reads(next)
      BY DEF Reads
    <2> QED  BY <2>1, <2>2, <2>3, ReadStep
  <1>2. CASE CafeRatingsByLocationID
    <2> DEFINE c == call.cafe
               response == [op |-> "review", cafe |-> c, overall |-> call.overall,
                            scored |-> call.scored, total |-> call.total,
                            scores |-> ScoresOf(c), marked |-> MarkedOf(c)]
    <2>1. call.at = "ratings" /\ Reply(response)
      BY <1>2 DEF CafeRatingsByLocationID, ScoresOf, RatedKinds, MarkedOf
    <2>2. c \in Cafes /\ call.overall \in Scores /\ call.scored \in Nat /\ call.total \in Nat
      BY <1>0, <2>1 DEF Fields
    <2>3. ScoresOf(c) \in [Kinds -> OrNone(Nat)] /\ MarkedOf(c) \subseteq Buckets
      BY ScoresType DEF IInv, MarkedOf, Marked, BucketsOf
    <2>4. response \in Responses
      BY <2>2, <2>3 DEF Responses, ReviewPage
    <2>5. calm => Current(response)
      BY <2>1 DEF IInv, Reading, Reads, Current
    <2> QED  BY <2>1, <2>4, <2>5, ReplyStep
  <1>3. CASE CafeByLocationID
    <2> DEFINE next == [at |-> "rank", cafe |-> call.cafe, price |-> price[call.cafe]]
    <2>1. call' = next /\ UNCHANGED <<tables, calm, seen, edits>> /\ call.cafe \in Cafes
      BY <1>0, <1>3 DEF CafeByLocationID, Fields
    <2>2. next \in Calls
      BY <1>0, <2>1 DEF Tables, Calls
    <2>3. Reads(next)
      BY DEF Reads
    <2> QED  BY <2>1, <2>2, <2>3, ReadStep
  <1>4. CASE CafePriceRankByLocationID
    <2> DEFINE response == [op |-> "cafe", cafe |-> call.cafe, price |-> call.price,
                            rank |-> PriceRank(price[call.cafe])]
    <2>1. call.at = "rank" /\ Reply(response)
      BY <1>4 DEF CafePriceRankByLocationID
    <2>2. call.cafe \in Cafes /\ call.price \in Prices /\ price[call.cafe] \in Prices
      BY <1>0, <2>1 DEF Fields, Tables
    <2>3. PriceRank(price[call.cafe]) \in OrNone(Nat)
      BY <2>2, RankIs DEF OrNone
    <2>4. response \in Responses
      BY <2>2, <2>3 DEF Responses, CafePage
    <2>5. calm => Current(response)
      BY <2>1 DEF IInv, Reading, Reads, Current
    <2> QED  BY <2>1, <2>4, <2>5, ReplyStep
  <1>5. CASE GetFilters
    <2> DEFINE response == [op |-> "filters", tiers |-> PriceTiers]
    <2>1. response \in Responses
      BY TiersType DEF Responses, Filters
    <2>2. Current(response)
      BY DEF Current
    <2> QED  BY <1>5, <2>1, <2>2, ReplyStep DEF GetFilters
  <1>6. CASE RatingCategoriesByIDs
    <2>1. call.at = "search" /\ call.query \in Queries
      BY <1>0, <1>6 DEF RatingCategoriesByIDs, Fields
    <2>2. CASE OneBucketPerKind(call.query)
      <3> DEFINE next == [call EXCEPT !.at = "rows"]
      <3>1. call' = next /\ UNCHANGED <<tables, calm, seen, edits>>
        BY <1>6, <2>2 DEF RatingCategoriesByIDs
      <3>2. call \in [at: {"search"}, query: Queries]
        BY <1>0, <2>1 DEF Calls, Requests, Idle
      <3>3. next \in Calls /\ next.at = "rows"
        BY <3>2 DEF Calls
      <3>4. Reads(next)
        BY <3>3 DEF Reads
      <3> QED  BY <3>1, <3>3, <3>4, ReadStep
    <2>3. CASE ~OneBucketPerKind(call.query)
      <3> DEFINE response == [op |-> "search", query |-> call.query, code |-> 400, found |-> <<>>]
      <3>1. Reply(response)
        BY <1>6, <2>3 DEF RatingCategoriesByIDs
      <3>2. response \in Responses
        BY <2>1 DEF Responses, Answers
      <3>3. Current(response)
        BY <2>3 DEF Current
      <3> QED  BY <3>1, <3>2, <3>3, ReplyStep
    <2> QED  BY <2>2, <2>3
  <1>7. CASE Search
    <2>1. call.query \in Queries
      BY <1>0, <1>7 DEF Search, Fields
    <2>2. PICK order \in Orders(call.query) :
             Reply([op |-> "search", query |-> call.query, code |-> 200, found |-> order])
      BY <1>7 DEF Search
    <2> DEFINE response == [op |-> "search", query |-> call.query, code |-> 200, found |-> order]
    <2>3. response \in Responses
      BY <2>1, OrderIs DEF Responses, Answers
    <2>4. Current(response)
      BY DEF Current
    <2> QED  BY <2>2, <2>3, <2>4, ReplyStep
  <1> QED  BY <1>1, <1>2, <1>3, <1>4, <1>5, <1>6, <1>7 DEF Serve

LEMMA EditStep ==
  ASSUME IInv, Edit
  PROVE  IInv'
  <1>0. Tables /\ Rated
    BY TypeParts DEF IInv
  <1>1. ASSUME NEW i \in Reviews, NEW form \in Forms, Write(i, form)
        PROVE  IInv'
    <2> DEFINE row == Row(form, "pending")
    <2>1. /\ review' = [review EXCEPT ![i] = row]
          /\ UNCHANGED <<active, open, price>> /\ Change /\ InBounds(form)
      BY <1>1 DEF Write
    <2>2. /\ row \in Reviewed
          /\ \A k \in Kinds : row.scores[k] # None =>
                /\ \E b \in BucketsOf(k) : b.lower <= row.scores[k]
                /\ \E b \in BucketsOf(k) : row.scores[k] <= b.upper
      BY <2>1, RowIs DEF Statuses
    <2> HIDE DEF row
    <2>3. Tables'
      BY <1>0, <2>1, <2>2 DEF Tables
    <2>4. \A j \in Reviews : review'[j] = IF j = i THEN row ELSE review[j]
      BY <1>0, <2>1 DEF Tables
    <2>5. Rated'
      BY <1>0, <2>2, <2>4 DEF Rated
    <2> QED  BY <2>1, <2>3, <2>5, ChangeStep
  <1>2. ASSUME NEW i \in Reviews, NEW status \in Statuses, Moderate(i, status)
        PROVE  IInv'
    <2>1. /\ review' = [review EXCEPT ![i].status = status]
          /\ UNCHANGED <<active, open, price>> /\ Change
      BY <1>2 DEF Moderate
    <2>2. \A j \in Reviews : /\ review'[j] \in Reviewed
                             /\ review'[j].scores = review[j].scores
      BY <1>0, <2>1 DEF Tables, Reviewed
    <2>3. Tables'
      BY <1>0, <2>1, <2>2 DEF Tables
    <2>4. Rated'
      BY <1>0, <2>2 DEF Rated
    <2> QED  BY <2>1, <2>3, <2>4, ChangeStep
  <1>3. ASSUME NEW u \in Users, NEW b \in BOOLEAN, SetActive(u, b)
        PROVE  IInv'
    <2>1. Tables' /\ Rated' /\ Change
      BY <1>0, <1>3 DEF SetActive, Tables, Rated
    <2> QED  BY <2>1, ChangeStep
  <1>4. ASSUME NEW c \in Cafes, NEW b \in BOOLEAN, SetOpen(c, b)
        PROVE  IInv'
    <2>1. Tables' /\ Rated' /\ Change
      BY <1>0, <1>4 DEF SetOpen, Tables, Rated
    <2> QED  BY <2>1, ChangeStep
  <1>5. ASSUME NEW c \in Cafes, NEW p \in Prices, SetPrice(c, p)
        PROVE  IInv'
    <2>1. Tables' /\ Rated' /\ Change
      BY <1>0, <1>5 DEF SetPrice, Tables, Rated
    <2> QED  BY <2>1, ChangeStep
  <1> QED  BY <1>1, <1>2, <1>3, <1>4, <1>5 DEF Edit

LEMMA NextStep ==
  ASSUME IInv, [Next]_vars
  PROVE  IInv'
  <1>1. ASSUME NEW request \in Requests, Ask(request)
        PROVE  IInv'
    <2>1. /\ call' = request /\ calm' = TRUE
          /\ seen' \subseteq seen
          /\ UNCHANGED <<tables, edits>>
      BY <1>1 DEF Ask
    <2>2. TypeOK' /\ Rated'
      <3>1. call' \in Calls /\ calm' \in BOOLEAN /\ seen' \subseteq Responses
        BY <2>1, TypeParts DEF IInv, Calls
      <3> QED  BY <2>1, <3>1, RatedStays, TypeParts, NextTypeParts DEF IInv
    <2>3. request.at # "ratings" /\ request.at # "rank"
      BY DEF Requests
    <2>4. Reading'
      BY <2>1, <2>3 DEF Reading, Reads
    <2>5. ASSUME NEW r \in seen'  PROVE Current(r)'
      <3>1. Current(r)
        BY <2>1 DEF IInv, Now
      <3> QED  BY <2>1, <3>1, CurrentStays
    <2> QED  BY <2>2, <2>4, <2>5 DEF IInv, Now
  <1>2. CASE DbError
    <2>1. call' = Idle /\ UNCHANGED <<tables, calm, seen, edits>>
      BY <1>2 DEF DbError
    <2>2. Idle \in Calls /\ Reads(Idle)
      BY DEF Calls, Reads, Idle
    <2> QED  BY <2>1, <2>2, ReadStep
  <1>3. CASE UNCHANGED vars
    <2>1. UNCHANGED <<tables, calm, seen, edits>> /\ call' = call
      BY <1>3 DEF vars
    <2>2. call \in Calls /\ (calm => \A c \in {call} : Reads(c))
      BY TypeParts DEF IInv, Reading
    <2> QED  BY <2>1, <2>2, ReadStep
  <1> QED  BY <1>1, <1>2, <1>3, ServeStep, EditStep DEF Next

LEMMA Invariant ==
  Spec => []IInv
  <1>1. IInv /\ [Next]_vars => IInv'
    BY NextStep
  <1> QED  BY InitIInv, <1>1, PTL DEF Spec

\* No rounding or averaging leaves 0.00 to 5.00 (TypeOK).
THEOREM CafePagesTypeCorrect ==
  Spec => []TypeOK
  <1>1. IInv => TypeOK
    BY DEF IInv
  <1> QED  BY <1>1, Invariant, PTL

----------------------------------------------------------------------------
(* Properties *)

LEMMA Kinded ==
  ASSUME NEW r \in Responses
  PROVE  /\ r.op = "review" => r \in ReviewPage
         /\ r.op = "cafe" => r \in CafePage
         /\ r.op = "search" => r \in Answers
  BY DEF Responses, ReviewPage, CafePage, Filters, Answers

\* A rounded average is not outside of the span of its kind's buckets.
LEMMA ScoreInSpan ==
  ASSUME TypeOK, Rated, NEW c, NEW k \in RatedKinds(c)
  PROVE  /\ \E b \in BucketsOf(k) : b.lower <= PageScore(c, k)
         /\ \E b \in BucketsOf(k) : PageScore(c, k) <= b.upper
  <1>1. k \in Kinds /\ RatedOf(c, k) # {}
    BY DEF RatedKinds
  <1>2. /\ PageScore(c, k) \in Nat
        /\ \E i \in RatedOf(c, k) : review[i].scores[k] <= PageScore(c, k)
        /\ \E i \in RatedOf(c, k) : PageScore(c, k) <= review[i].scores[k]
    BY <1>1, PageScoreIs
  <1>3. \A i \in RatedOf(c, k) :
           /\ i \in Reviews /\ review[i].scores[k] # None /\ review[i].scores[k] \in Nat
           /\ \E b \in BucketsOf(k) : b.lower <= review[i].scores[k]
           /\ \E b \in BucketsOf(k) : review[i].scores[k] <= b.upper
    BY <1>1, ReviewSets, ReviewsAre DEF RatedOf, Rated
  <1>4. \A b \in BucketsOf(k) : b.lower \in Nat /\ b.upper \in Nat
    BY BucketsAre
  <1>5. \E b \in BucketsOf(k) : b.lower <= PageScore(c, k)
    <2>1. PICK i \in RatedOf(c, k) : review[i].scores[k] <= PageScore(c, k)
      BY <1>2
    <2>2. PICK b \in BucketsOf(k) : b.lower <= review[i].scores[k]
      BY <1>3
    <2>3. b.lower <= PageScore(c, k)
      BY <1>2, <1>3, <1>4, <2>1, <2>2
    <2> QED  BY <2>3
  <1>6. \E b \in BucketsOf(k) : PageScore(c, k) <= b.upper
    <2>1. PICK i \in RatedOf(c, k) : PageScore(c, k) <= review[i].scores[k]
      BY <1>2
    <2>2. PICK b \in BucketsOf(k) : review[i].scores[k] <= b.upper
      BY <1>3
    <2>3. PageScore(c, k) <= b.upper
      BY <1>2, <1>3, <1>4, <2>1, <2>2
    <2> QED  BY <2>3
  <1> QED  BY <1>5, <1>6

\* Which kinds have a score
LEMMA ScoreOfRated ==
  ASSUME TypeOK, NEW c, NEW k \in Kinds
  PROVE  /\ k \in RatedKinds(c) <=> ScoresOf(c)[k] # None
         /\ k \in RatedKinds(c) <=> RatedOf(c, k) # {}
         /\ ScoresOf(c)[k] = PageScore(c, k)
         /\ k \in RatedKinds(c) => PageScore(c, k) \in Nat
  <1>1. ScoresOf(c)[k] = PageScore(c, k)
    BY DEF ScoresOf
  <1>2. k \in RatedKinds(c) <=> RatedOf(c, k) # {}
    BY DEF RatedKinds
  <1>3. RatedOf(c, k) = {} => PageScore(c, k) = None
    BY DEF PageScore
  <1>4. RatedOf(c, k) # {} => PageScore(c, k) \in Nat
    BY PageScoreIs
  <1> QED  BY <1>1, <1>2, <1>3, <1>4, NoneIsNoNumber

\* A kind's score is in one of its ranges at the most on every review page, and
\* in one if the ranges leave no hundredth out; the page gives a slug to the range
\* it is in, if that has one, and to no other (OneBucketHolds).
THEOREM OneBucketHoldsAlways ==
  Spec => []OneBucketHolds
  <1>1. IInv => OneBucketHolds
    <2> SUFFICES ASSUME IInv, NEW p \in Shown("review"), NEW k \in Kinds
                 PROVE  LET in == {b \in BucketsOf(k) : InRange(b, p.scores[k])}
                        IN /\ Cardinality(in) <= 1
                           /\ p.scores[k] # None /\ Gapless(k) => in # {}
                           /\ p.marked \cap BucketsOf(k) = {b \in in : b.slug}
      BY DEF OneBucketHolds
    <2> DEFINE c == p.cafe
               v == PageScore(c, k)
               in == {b \in BucketsOf(k) : InRange(b, p.scores[k])}
    <2>1. p.scores = ScoresOf(c) /\ p.marked = MarkedOf(c) /\ TypeOK /\ Rated
      BY DEF Shown, IInv, Now, Current
    <2>2. /\ p.scores[k] = v
          /\ k \in RatedKinds(c) <=> v # None
          /\ k \in RatedKinds(c) => v \in Nat
      BY <2>1, ScoreOfRated
    <2>3. \A b, d \in in : b = d
      <3>1. ASSUME NEW b \in in, NEW d \in in  PROVE b = d
        <4>1. b \in BucketsOf(k) /\ d \in BucketsOf(k) /\ InRange(b, v) /\ InRange(d, v)
          BY <2>2
        <4>2. v \in Nat
          BY <2>2, <4>1 DEF InRange
        <4> HIDE DEF v
        <4> QED  BY <4>1, <4>2, NotInTwo
      <3> QED  BY <3>1
    <2>4. Cardinality(in) <= 1
      <3> HIDE DEF in
      <3>1. CASE in = {}
        BY <3>1, FS_EmptySet
      <3>2. CASE in # {}
        <4>1. PICK b : in = {b}
          BY <2>3, <3>2
        <4>2. Cardinality({b}) = 1
          BY FS_Singleton, Zenon
        <4> QED  BY <4>1, <4>2
      <3> QED  BY <3>1, <3>2
    <2>5. p.scores[k] # None /\ Gapless(k) => in # {}
      <3>1. SUFFICES ASSUME v # None, Gapless(k)  PROVE in # {}
        BY <2>2
      <3>2. v \in Nat /\ k \in RatedKinds(c)
        BY <2>2, <3>1
      <3>3. /\ \E b \in BucketsOf(k) : b.lower <= v
            /\ \E b \in BucketsOf(k) : v <= b.upper
        BY <2>1, <3>2, ScoreInSpan
      <3>4. \E b \in BucketsOf(k) : InRange(b, v)
        <4> HIDE DEF v
        <4> QED  BY <3>1, <3>2, <3>3, InOneBucket
      <3> QED  BY <2>2, <3>4
    <2>6. p.marked \cap BucketsOf(k) = {b \in in : b.slug}
      <3>1. ASSUME NEW b \in BucketsOf(k)
            PROVE  b \in MarkedOf(c) <=> InRange(b, v) /\ b.slug
        <4>1. b \in MarkedOf(c) <=> \E m \in RatedKinds(c) : b \in Marked(PageScore(c, m), m)
          BY DEF MarkedOf
        <4>2. \A m : b \in Marked(PageScore(c, m), m) => m = k
          BY DEF Marked, BucketsOf
        <4>3. b \in Marked(v, k) <=> b.lower <= v /\ v <= b.upper /\ b.slug
          BY DEF Marked
        <4> QED  BY <2>2, <4>1, <4>2, <4>3 DEF InRange
      <3> QED  BY <2>1, <2>2, <3>1
    <2> QED  BY <2>4, <2>5, <2>6
  <1> QED  BY <1>1, Invariant, PTL

LEMMA HavingIsInRange ==
  ASSUME TypeOK, NEW c, NEW b \in Buckets
  PROVE  Having(c, b) <=> InRange(b, ScoresOf(c)[b.kind])
  <1>1. b.kind \in Kinds
    BY BucketsAssumption DEF Bucket
  <1>2. CASE RatedOf(c, b.kind) = {}
    BY <1>1, <1>2, ScoreOfRated DEF Having, InRange
  <1>3. CASE RatedOf(c, b.kind) # {}
    <2>1. Having(c, b) <=> b.lower <= PageScore(c, b.kind) /\ PageScore(c, b.kind) <= b.upper
      BY <1>3 DEF Having, PageScore
    <2> QED  BY <1>1, <1>3, <2>1, ScoreOfRated DEF InRange
  <1> QED  BY <1>2, <1>3

\* A search by buckets, with slugs or without, finds an open cafe if and only if
\* they contain the scores that its review page shows for their kinds
\* (ShownScoreIsFound).
THEOREM ShownScoreIsFoundAlways ==
  Spec => []ShownScoreIsFound
  <1>1. IInv => ShownScoreIsFound
    <2> SUFFICES ASSUME IInv, NEW p \in Shown("review"), NEW s \in Shown("search"),
                        open[p.cafe], s.code = 200, s.query.min = None, s.query.max = None
                 PROVE  p.cafe \in Range(s.found)
                           <=> \A b \in s.query.buckets : InRange(b, p.scores[b.kind])
      BY DEF ShownScoreIsFound
    <2>1. p.scores = ScoresOf(p.cafe) /\ s.found \in Orders(s.query) /\ TypeOK
      BY DEF Shown, IInv, Now, Current
    <2>2. p.cafe \in Cafes /\ s.query.buckets \subseteq Buckets
      <3>1. p \in ReviewPage /\ s \in Answers
        BY TypeParts, Kinded DEF Shown, IInv
      <3> QED  BY <3>1, QueriesAssumption DEF ReviewPage, Answers, Query
    <2>3. Range(s.found) = Found(s.query)
      BY <2>1, OrderIs
    <2>4. p.cafe \in Found(s.query) <=> \A b \in s.query.buckets : Having(p.cafe, b)
      BY <2>2 DEF Found, InPrice
    <2>5. \A b \in s.query.buckets : Having(p.cafe, b) <=> InRange(b, p.scores[b.kind])
      BY <2>1, <2>2, HavingIsInRange
    <2> QED  BY <2>3, <2>4, <2>5
  <1> QED  BY <1>1, Invariant, PTL

\* A cafe's rank is the tier of GET /v1/filters by which a search finds it, and
\* the middle of its prices is in that tier (RankIsItsTier).
THEOREM RankIsItsTierAlways ==
  Spec => []RankIsItsTier
  <1>1. IInv => RankIsItsTier
    <2> SUFFICES ASSUME IInv, NEW c \in Shown("cafe"), c.rank # None
                 PROVE  /\ \A f \in Shown("filters") :
                              LET tier == f.tiers[c.rank + 1]
                              IN /\ 2 * tier.min <= c.price.min + c.price.max
                                 /\ tier.max # None => c.price.min + c.price.max <= 2 * tier.max
                        /\ \A s \in Shown("search") :
                              LET tier == PriceTiers[c.rank + 1]
                              IN open[c.cafe] /\ s.query.buckets = {}
                                 /\ s.query.min = tier.min /\ s.query.max = tier.max
                                 => c.cafe \in Range(s.found)
      BY DEF RankIsItsTier
    <2> DEFINE p == c.price
               i == c.rank + 1
               tier == PriceTiers[i]
    <2>1. /\ c.cafe \in Cafes /\ p \in Prices /\ p = price[c.cafe] /\ c.rank = PriceRank(p)
      <3>1. c \in CafePage
        BY TypeParts, Kinded DEF Shown, IInv
      <3> QED  BY <3>1 DEF CafePage, Shown, IInv, Now, Current
    <2>2. i \in TiersOf(p) /\ None \notin {p.min, p.max}
      BY <2>1, RankIs
    <2>3. /\ p.min \in Nat /\ p.max \in Nat /\ p.min <= p.max
      BY <2>1, <2>2, PricesAssumption DEF Price, OrNone
    <2>4. /\ tier.min \in Nat /\ Tiers[i].lower = 100 * tier.min
          /\ tier.max # None => tier.max \in Nat /\ Tiers[i].upper = 100 * tier.max
      <3>1. i \in DOMAIN Tiers
        BY <2>2 DEF TiersOf
      <3>2. tier = [min |-> Tiers[i].lower \div 100,
                    max |-> IF i = Len(Tiers) THEN None ELSE Tiers[i].upper \div 100]
        BY <3>1 DEF PriceTiers
      <3>3. /\ Tiers[i].lower \div 100 \in Nat /\ Tiers[i].lower = 100 * (Tiers[i].lower \div 100)
            /\ Tiers[i].upper \div 100 \in Nat /\ Tiers[i].upper = 100 * (Tiers[i].upper \div 100)
        BY <3>1, TiersAre, Rupiah
      <3>4. tier.min = Tiers[i].lower \div 100
            /\ (tier.max # None => tier.max = Tiers[i].upper \div 100)
        BY <3>2
      <3> HIDE DEF tier, i
      <3> QED  BY <3>3, <3>4
    <2>5. /\ 2 * tier.min <= p.min + p.max
          /\ tier.max # None => p.min + p.max <= 2 * tier.max
      <3>1. /\ 2 * Tiers[i].lower <= 100 * (p.min + p.max)
            /\ 100 * (p.min + p.max) <= 2 * Tiers[i].upper
        BY <2>2 DEF TiersOf
      <3> HIDE DEF tier, i, p
      <3> QED  BY <2>3, <2>4, <3>1
    <2>6. \A f \in Shown("filters") : f.tiers = PriceTiers
      BY DEF Shown, IInv, Now, Current
    <2> HIDE DEF tier
    <2>7. ASSUME NEW s \in Shown("search"), open[c.cafe], s.query.buckets = {},
                 s.query.min = tier.min, s.query.max = tier.max
          PROVE  c.cafe \in Range(s.found)
      <3>1. tier.min <= p.max /\ (tier.max # None => p.min <= tier.max)
        BY <2>3, <2>4, <2>5
      <3>2. InPrice(price[c.cafe], s.query)
        BY <2>1, <2>2, <2>3, <2>7, <3>1 DEF InPrice
      <3>3. c.cafe \in Found(s.query)
        BY <2>1, <2>7, <3>2 DEF Found
      <3>4. OneBucketPerKind(s.query)
        BY <2>7 DEF OneBucketPerKind
      <3>5. s.found \in Orders(s.query)
        BY <3>4 DEF Shown, IInv, Now, Current
      <3> QED  BY <3>3, <3>5, OrderIs
    <2> QED  BY <2>5, <2>6, <2>7 DEF tier
  <1> QED  BY <1>1, Invariant, PTL

\* Two averages compare as the products of the totals with the other's count.
LEMMA AveragesOrder ==
  ASSUME TypeOK, NEW c, NEW d, ScoredOf(c) # {}, ScoredOf(d) # {},
         OverallTotal(ScoredOf(c)) * Cardinality(ScoredOf(d))
            <= OverallTotal(ScoredOf(d)) * Cardinality(ScoredOf(c))
  PROVE  OverallScore(c) <= OverallScore(d)
  <1> DEFINE a == OverallTotal(ScoredOf(c))
             b == OverallTotal(ScoredOf(d))
             n == Cardinality(ScoredOf(c))
             m == Cardinality(ScoredOf(d))
  <1>1. n \in Nat /\ m \in Nat /\ n > 0 /\ m > 0
    <2>1. /\ IsFiniteSet(ScoredOf(c)) /\ n \in Nat
          /\ IsFiniteSet(ScoredOf(d)) /\ m \in Nat
      BY ReviewSets
    <2>2. n # 0 /\ m # 0
      BY <2>1, FS_EmptySet
    <2> QED  BY <2>1, <2>2
  <1>2. /\ a \in Nat /\ OverallScore(c) = Rounded(a, n)
        /\ b \in Nat /\ OverallScore(d) = Rounded(b, m)
    BY OverallIs
  <1>3. a * m <= b * n
    OBVIOUS
  <1> HIDE DEF a, b, n, m
  <1> QED  BY <1>1, <1>2, <1>3, RoundedOrder

LEMMA BeforeIs ==
  ASSUME TypeOK, NEW c, NEW d, NEW order \in {"asc", "desc"},
         Before(c, d, order), ScoredOf(d) # {}
  PROVE  /\ ScoredOf(c) # {}
         /\ IF order = "asc" THEN OverallScore(c) <= OverallScore(d)
                             ELSE OverallScore(c) >= OverallScore(d)
  <1> DEFINE S == LateralReviews(c)
             T == LateralReviews(d)
             s == OverallTotal(S) * Cardinality(T)
             t == OverallTotal(T) * Cardinality(S)
  <1>1. S = ScoredOf(c) /\ T = ScoredOf(d)
    BY DEF LateralReviews, ScoredOf, VisibleOf
  <1>2. IF S = {} \/ T = {} THEN S # {} \/ (T = {} /\ c < d)
        ELSE \/ s < t /\ order = "asc"
             \/ s > t /\ order = "desc"
             \/ s = t /\ c < d
    BY DEF Before, Total, OverallTotal
  <1>3. S # {} /\ T # {}
    BY <1>1, <1>2
  <1>4. s \in Int /\ t \in Int
    <2>1. Cardinality(S) \in Nat /\ Cardinality(T) \in Nat
      BY <1>1, ReviewSets
    <2>2. OverallTotal(S) \in Nat /\ OverallTotal(T) \in Nat
      BY <1>1, <1>3, OverallIs
    <2> HIDE DEF S, T
    <2> QED  BY <2>1, <2>2
  <1>5. s <= t => OverallScore(c) <= OverallScore(d)
    BY <1>1, <1>3, AveragesOrder
  <1>6. t <= s => OverallScore(d) <= OverallScore(c)
    BY <1>1, <1>3, AveragesOrder
  <1>7. OverallScore(c) \in Int /\ OverallScore(d) \in Int
    BY <1>1, <1>3, OverallIs
  <1> HIDE DEF S, T, s, t
  <1> QED  BY <1>1, <1>2, <1>3, <1>4, <1>5, <1>6, <1>7

\* The cafes of a search by rating come in the order of the scores on their
\* review pages, those without a score last (RatingOrderIsShown).
THEOREM RatingOrderIsShownAlways ==
  Spec => []RatingOrderIsShown
  <1>1. IInv => RatingOrderIsShown
    <2> SUFFICES ASSUME IInv, NEW p \in Shown("review"), NEW s \in Shown("search"),
                        NEW i \in DOMAIN s.found, NEW j \in DOMAIN s.found,
                        i < j, p.cafe = s.found[j], p.overall # None
                 PROVE  /\ OverallScore(s.found[i]) # None
                        /\ IF s.query.order = "asc"
                           THEN OverallScore(s.found[i]) <= p.overall
                           ELSE OverallScore(s.found[i]) >= p.overall
      BY DEF RatingOrderIsShown
    <2>1. p.overall = OverallScore(p.cafe) /\ TypeOK
      BY DEF Shown, IInv, Now, Current
    <2>2. s.found \in Orders(s.query)
      <3>1. s.found # <<>>
        OBVIOUS
      <3> QED  BY <3>1 DEF Shown, IInv, Now, Current
    <2>3. Before(s.found[i], p.cafe, s.query.order)
      BY <2>2 DEF Orders
    <2>4. s.query.order \in {"asc", "desc"}
      <3>1. s \in Answers
        BY TypeParts, Kinded DEF Shown, IInv
      <3> QED  BY <3>1, QueriesAssumption DEF Answers, Query
    <2>5. ScoredOf(p.cafe) # {}
      BY <2>1 DEF OverallScore
    <2>6. /\ ScoredOf(s.found[i]) # {}
          /\ IF s.query.order = "asc" THEN OverallScore(s.found[i]) <= OverallScore(p.cafe)
                                      ELSE OverallScore(s.found[i]) >= OverallScore(p.cafe)
      BY <2>1, <2>3, <2>4, <2>5, BeforeIs
    <2>7. OverallScore(s.found[i]) # None
      BY <2>1, <2>6, OverallIs, NoneIsNoNumber
    <2> QED  BY <2>1, <2>6, <2>7
  <1> QED  BY <1>1, Invariant, PTL
=============================================================================
