---------------------------- MODULE EssayProofs -----------------------------
(* Theorems about the essays: their intake, EssayIntake, and their comparison,
   IntegrityCheck, for all handlers, workers, files and bounds. *)
EXTENDS EssayIntake, IntegrityCheck, SumProofs, FiniteSetTheorems, FunctionTheorems,
        SequenceTheorems, WellFoundedInduction, TLAPS

-----------------------------------------------------------------------------
(* Writing snapshots: the analysis of snapshots, which sorts them first *)

Precedes(s, i, j) ==
  \/ s[i].at < s[j].at
  \/ s[i].at = s[j].at /\ i < j

LEMMA SnapshotAt ==
  ASSUME NEW s \in Seq(Snapshot), NEW i \in 1 .. Len(s)
  PROVE  s[i].at \in Int /\ s[i].words \in Nat
<1>1. s[i] \in Snapshot
  OBVIOUS
<1>. QED
  BY <1>1 DEF Snapshot

\* Earlier snapshots have smaller places.
LEMMA PlacesAreOrdered ==
  ASSUME NEW s \in Seq(Snapshot), NEW i \in 1 .. Len(s), NEW j \in 1 .. Len(s), Precedes(s, i, j)
  PROVE  Place(s, i) < Place(s, j)
<1>. DEFINE Before(k) == {l \in 1 .. Len(s) : \/ s[l].at < s[k].at
                                              \/ s[l].at = s[k].at /\ l <= k}
<1>1. Len(s) \in Nat /\ DOMAIN s = 1 .. Len(s) /\ \A k \in 1 .. Len(s) : s[k] \in Snapshot
  OBVIOUS
<1>2. IsFiniteSet(1 .. Len(s))
  BY <1>1, FS_Interval
<1>3. \A k \in 1 .. Len(s) : s[k].at \in Int
  BY <1>1 DEF Snapshot
<1>4. Place(s, i) = Cardinality(Before(i)) /\ Place(s, j) = Cardinality(Before(j))
  BY <1>1 DEF Place
<1>5. /\ Before(i) \subseteq Before(j) \ {j}
      /\ j \in Before(j) /\ Before(j) \subseteq 1 .. Len(s)
  BY <1>1, <1>3 DEF Precedes
<1>. HIDE DEF Before
<1>6. PICK S : S = Before(j)
  OBVIOUS
<1>7. PICK T : T = Before(i)
  OBVIOUS
<1>8. IsFiniteSet(S)
  BY <1>2, <1>5, <1>6, FS_Subset
<1>9. IsFiniteSet(S \ {j}) /\ Cardinality(S \ {j}) = Cardinality(S) - 1 /\ Cardinality(S) \in Nat
  BY <1>5, <1>6, <1>8, FS_CardinalityType, FS_RemoveElement
<1>10. IsFiniteSet(T) /\ Cardinality(T) <= Cardinality(S \ {j})
  BY <1>5, <1>6, <1>7, <1>9, FS_Subset
<1>11. Cardinality(T) \in Nat
  BY <1>10, FS_CardinalityType
<1>. QED
  BY <1>4, <1>6, <1>7, <1>9, <1>10, <1>11

LEMMA PlaceIsPosition ==
  ASSUME NEW s \in Seq(Snapshot), NEW i \in 1 .. Len(s)
  PROVE  Place(s, i) \in 1 .. Len(s)
<1>. DEFINE Before == {l \in 1 .. Len(s) : \/ s[l].at < s[i].at
                                           \/ s[l].at = s[i].at /\ l <= i}
<1>1. Len(s) \in Nat /\ DOMAIN s = 1 .. Len(s)
  OBVIOUS
<1>2. IsFiniteSet(1 .. Len(s)) /\ Cardinality(1 .. Len(s)) = Len(s)
  BY <1>1, FS_Interval
<1>3. Place(s, i) = Cardinality(Before) /\ i \in Before /\ Before \subseteq 1 .. Len(s)
  BY <1>1 DEF Place
<1>. HIDE DEF Before
<1>4. PICK S : S = Before
  OBVIOUS
<1>5. IsFiniteSet(S) /\ Cardinality(S) <= Len(s)
  <2>1. PICK N, n : N = 1 .. Len(s) /\ n = Len(s)
    OBVIOUS
  <2>2. IsFiniteSet(N) /\ Cardinality(N) = n /\ S \subseteq N
    BY <1>2, <1>3, <1>4, <2>1
  <2>3. IsFiniteSet(S) /\ Cardinality(S) <= Cardinality(N)
    BY <2>2, FS_Subset
  <2>. QED
    BY <2>1, <2>2, <2>3
<1>6. Cardinality(S) \in Nat /\ Cardinality(S) # 0
  BY <1>3, <1>4, <1>5, FS_CardinalityType, FS_EmptySet
<1>. QED
  BY <1>1, <1>3, <1>4, <1>5, <1>6

\* There are as many places as snapshots, so none is free.
LEMMA PlacesAreTaken ==
  ASSUME NEW s \in Seq(Snapshot), NEW k \in 1 .. Len(s)
  PROVE  \E i \in 1 .. Len(s) : Place(s, i) = k
<1>. DEFINE place == [i \in 1 .. Len(s) |-> Place(s, i)]
<1>1. Len(s) \in Nat /\ \A i \in 1 .. Len(s) : s[i].at \in Int
  BY SnapshotAt
<1>2. place \in [1 .. Len(s) -> 1 .. Len(s)]
  BY PlaceIsPosition
<1>3. \A i, j \in 1 .. Len(s) : place[i] = place[j] => i = j
  <2>. SUFFICES ASSUME NEW i \in 1 .. Len(s), NEW j \in 1 .. Len(s), i # j
                PROVE  place[i] # place[j]
    OBVIOUS
  <2>1. Precedes(s, i, j) \/ Precedes(s, j, i)
    BY <1>1 DEF Precedes
  <2>2. Place(s, i) < Place(s, j) \/ Place(s, j) < Place(s, i)
    BY <2>1, PlacesAreOrdered
  <2>3. Place(s, i) \in 1 .. Len(s) /\ Place(s, j) \in 1 .. Len(s)
    BY PlaceIsPosition
  <2>. QED
    BY <1>1, <2>2, <2>3
<1>. HIDE DEF place
<1>4. place \in Injection(1 .. Len(s), 1 .. Len(s))
  BY <1>2, <1>3 DEF Injection, IsInjective
<1>5. IsFiniteSet(1 .. Len(s))
  BY <1>1, FS_Interval
<1>6. place \in Surjection(1 .. Len(s), 1 .. Len(s))
  BY <1>4, <1>5, FS_Injection
<1>7. \E i \in 1 .. Len(s) : place[i] = k
  BY <1>6 DEF Surjection
<1>. QED
  BY <1>7 DEF place

Timed(p) ==
  /\ p \in Seq(Snapshot) /\ p # <<>>
  /\ \A i, j \in 1 .. Len(p) : i <= j => p[i].at <= p[j].at

LEMMA ParsedIsTimed ==
  ASSUME NEW s \in Seq(Snapshot), s # <<>>
  PROVE  Timed(Parsed(s)) /\ Len(Parsed(s)) = Len(s)
<1>. DEFINE from(k) == CHOOSE i \in 1 .. Len(s) : Place(s, i) = k
<1>1. Len(s) \in Nat /\ DOMAIN s = 1 .. Len(s) /\ Len(s) > 0
  OBVIOUS
<1>2. \A k \in 1 .. Len(s) : from(k) \in 1 .. Len(s) /\ Place(s, from(k)) = k
  BY PlacesAreTaken
<1>3. Parsed(s) = [k \in 1 .. Len(s) |-> s[from(k)]]
  BY <1>1 DEF Parsed
<1>. HIDE DEF from
<1>4. Parsed(s) \in Seq(Snapshot) /\ Len(Parsed(s)) = Len(s)
  BY <1>1, <1>2, <1>3
<1>5. ASSUME NEW i \in 1 .. Len(s), NEW j \in 1 .. Len(s), i <= j
      PROVE  s[from(i)].at <= s[from(j)].at
  <2>1. s[from(i)].at \in Int /\ s[from(j)].at \in Int
    BY <1>2, SnapshotAt
  <2>2. CASE s[from(j)].at < s[from(i)].at
    <3>1. Place(s, from(j)) < Place(s, from(i))
      BY <1>2, <2>2, PlacesAreOrdered DEF Precedes
    <3>. QED
      BY <1>1, <1>2, <1>5, <3>1
  <2>. QED
    BY <2>1, <2>2
<1>. QED
  BY <1>1, <1>3, <1>4, <1>5 DEF Timed

---------------------------------------------------------------------------
(* Sessions *)

LEMMA SessionIs ==
  ASSUME NEW p, Timed(p), NEW s \in Sessions(p)
  PROVE  /\ s = <<s[1], s[2]>> /\ Len(p) \in Nat
         /\ s[1] \in 1 .. Len(p) /\ s[2] \in 1 .. Len(p) /\ s[1] <= s[2]
         /\ s[1] \in Begins(p) /\ s[2] \in Ends(p)
         /\ \A i \in Begins(p) : i <= s[1] \/ i > s[2]
<1>1. Len(p) \in Nat /\ DOMAIN p = 1 .. Len(p)
  BY DEF Timed
<1>2. /\ s \in Begins(p) \X Ends(p) /\ s[1] <= s[2]
      /\ \A i \in Begins(p) : i <= s[1] \/ i > s[2]
  BY DEF Sessions
<1>3. Begins(p) \subseteq 1 .. Len(p) /\ Ends(p) \subseteq 1 .. Len(p)
  BY <1>1 DEF Begins, Ends
<1>. QED
  BY <1>1, <1>2, <1>3

\* A snapshot lies in one session, and in no other.
LEMMA SessionsExclude ==
  ASSUME NEW p, Timed(p), NEW i \in 1 .. Len(p), NEW s \in Sessions(p), NEW t \in Sessions(p),
         s[1] <= i, i <= s[2], t[1] <= i, i <= t[2]
  PROVE  s = t
<1>1. /\ s = <<s[1], s[2]>> /\ Len(p) \in Nat /\ DOMAIN p = 1 .. Len(p)
      /\ s[1] \in 1 .. Len(p) /\ s[2] \in 1 .. Len(p)
      /\ s[1] \in Begins(p) /\ s[2] \in Ends(p)
      /\ \A j \in Begins(p) : j <= s[1] \/ j > s[2]
  BY SessionIs DEF Timed
<1>2. /\ t = <<t[1], t[2]>>
      /\ t[1] \in 1 .. Len(p) /\ t[2] \in 1 .. Len(p)
      /\ t[1] \in Begins(p) /\ t[2] \in Ends(p)
      /\ \A j \in Begins(p) : j <= t[1] \/ j > t[2]
  BY SessionIs
<1>3. s[1] = t[1]
  BY <1>1, <1>2
<1>4. (s[2] = Len(p) \/ s[2] + 1 \in Begins(p)) /\ (t[2] = Len(p) \/ t[2] + 1 \in Begins(p))
  BY <1>1, <1>2 DEF Ends
<1>5. s[2] = t[2]
  BY <1>1, <1>2, <1>4
<1>. QED
  BY <1>1, <1>2, <1>3, <1>5

LEMMA SessionsCover ==
  ASSUME NEW p, Timed(p), NEW i \in 1 .. Len(p)
  PROVE  \E s \in Sessions(p) : s[1] <= i /\ i <= s[2]
<1>1. PICK n \in Nat : n = Len(p) /\ DOMAIN p = 1 .. n /\ n > 0
  BY DEF Timed
<1>2. Begins(p) \subseteq 1 .. n /\ 1 \in Begins(p) /\ Ends(p) \subseteq 1 .. n /\ n \in Ends(p)
  BY <1>1 DEF Begins, Ends
<1>. DEFINE B == {b \in Begins(p) : b <= i}
            E == {e \in Ends(p) : i <= e}
<1>3. B \subseteq 1 .. n /\ 1 \in B /\ E \subseteq 1 .. n /\ n \in E
  BY <1>1, <1>2
<1>4. IsFiniteSet(B)
  <2>1. IsFiniteSet(1 .. n)
    BY FS_Interval
  <2>. HIDE DEF B
  <2>. QED
    BY <1>3, <2>1, FS_Subset
<1>5. PICK b \in B : \A c \in B : c <= b
  <2>1. B \in SUBSET Nat /\ B # {}
    BY <1>1, <1>3
  <2>. HIDE DEF B
  <2>. QED
    BY <1>4, <2>1, LargestExists
<1>6. PICK e \in E : \A c \in E : e <= c
  <2>1. E \subseteq Nat /\ E # {}
    BY <1>1, <1>3
  <2>. HIDE DEF E
  <2>. QED
    BY <2>1, LeastNumber
<1>7. ASSUME NEW c \in Begins(p), b < c, c <= e PROVE FALSE
  <2>1. c \in 1 .. n /\ b \in 1 .. n /\ e \in 1 .. n
    BY <1>2, <1>5, <1>6
  <2>2. c > i
    BY <1>1, <1>5, <1>7, <2>1
  <2>3. c - 1 \in 1 .. n /\ (c - 1) + 1 = c
    BY <1>1, <2>1, <2>2
  <2>4. c - 1 \in Ends(p)
    BY <1>1, <1>7, <2>3 DEF Ends
  <2>5. c - 1 \in E
    BY <1>1, <2>1, <2>2, <2>4
  <2>. QED
    BY <1>6, <1>7, <2>1, <2>5
<1>8. <<b, e>> \in Sessions(p)
  <2>1. b \in 1 .. n /\ e \in 1 .. n /\ b <= i /\ i <= e
    BY <1>2, <1>5, <1>6
  <2>2. \A c \in Begins(p) : c <= b \/ c > e
    BY <1>2, <1>7, <2>1
  <2>. QED
    BY <1>1, <1>5, <1>6, <2>1, <2>2 DEF Sessions
<1>. QED
  BY <1>5, <1>6, <1>8

LEMMA SessionsAreFinite ==
  ASSUME NEW p, Timed(p)
  PROVE  IsFiniteSet(Sessions(p))
<1>1. Sessions(p) \subseteq (1 .. Len(p)) \X (1 .. Len(p)) /\ Len(p) \in Nat
  BY DEF Sessions, Begins, Ends, Timed
<1>2. IsFiniteSet(1 .. Len(p))
  BY <1>1, FS_Interval
<1>. QED
  BY <1>1, <1>2, FS_Product, FS_Subset

---------------------------------------------------------------------------
(* Times *)

Added(p, i) == p[i].at - p[i - 1].at

LEMMA AddedSumUp ==
  ASSUME NEW p, Timed(p), NEW a \in 1 .. Len(p), NEW b \in 1 .. Len(p), a <= b,
         NEW f, \A i \in a + 1 .. b : f[i] = Added(p, i)
  PROVE  SumFunctionOnSet(f, a + 1 .. b) = p[b].at - p[a].at
<1>. DEFINE Missed == {k \in a .. b : SumFunctionOnSet(f, a + 1 .. k) # p[k].at - p[a].at}
<1>1. Len(p) \in Nat /\ \A i \in 1 .. Len(p) : p[i].at \in Int
  BY SnapshotAt DEF Timed
<1>. SUFFICES ASSUME Missed # {} PROVE FALSE
  BY <1>1
<1>2. PICK k \in Missed : \A l \in Missed : k <= l
  <2>1. Missed \subseteq Nat
    BY <1>1
  <2>. HIDE DEF Missed
  <2>. QED
    BY <2>1, LeastNumber
<1>3. k \in a .. b /\ k \in 1 .. Len(p)
  BY <1>1
<1>4. CASE k = a
  <2>1. a + 1 .. a = {} /\ p[a].at - p[a].at = 0
    BY <1>1
  <2>. QED
    BY <1>2, <1>4, <2>1, SumOfNone
<1>5. CASE k # a
  <2>1. /\ k - 1 \in a .. b /\ k - 1 \in 1 .. Len(p) /\ ~ (k <= k - 1)
        /\ k \in a + 1 .. k /\ (a + 1 .. k) \ {k} = a + 1 .. k - 1
    BY <1>1, <1>3, <1>5
  <2>2. SumFunctionOnSet(f, a + 1 .. k - 1) = p[k - 1].at - p[a].at
    BY <1>2, <2>1
  <2>3. \A i \in a + 1 .. k : f[i] \in Int
    <3>. SUFFICES ASSUME NEW i \in a + 1 .. k PROVE f[i] \in Int
      OBVIOUS
    <3>1. i \in a + 1 .. b /\ i \in 1 .. Len(p) /\ i - 1 \in 1 .. Len(p)
      BY <1>1, <1>3
    <3>2. p[i].at \in Int /\ p[i - 1].at \in Int
      BY <1>1, <3>1
    <3>. QED
      BY <3>1, <3>2 DEF Added
  <2>4. SumFunctionOnSet(f, a + 1 .. k) = f[k] + SumFunctionOnSet(f, a + 1 .. k - 1)
    <3>1. a + 1 \in Int /\ k \in Int /\ a + 1 <= k
      BY <1>1, <1>3, <1>5
    <3>. QED
      BY <2>3, <3>1, SumOfLast
  <2>5. f[k] = p[k].at - p[k - 1].at
    BY <1>1, <1>3, <1>5 DEF Added
  <2>6. p[k].at \in Int /\ p[k - 1].at \in Int /\ p[a].at \in Int
    BY <1>1, <1>3, <2>1
  <2>7. SumFunctionOnSet(f, a + 1 .. k) = (p[k].at - p[k - 1].at) + (p[k - 1].at - p[a].at)
    BY <2>2, <2>4, <2>5
  <2>8. SumFunctionOnSet(f, a + 1 .. k) = p[k].at - p[a].at
    BY ONLY <2>6, <2>7
  <2>. QED
    BY <1>2, <2>8
<1>. QED
  BY <1>4, <1>5

\* A snapshot that begins no session is in one that began before.
Between == <<0, 0>>

SessionAt(p, i) == CHOOSE s \in Sessions(p) : s[1] <= i /\ i <= s[2]

ClassOf(p, i) == IF i \in Begins(p) THEN Between ELSE SessionAt(p, i)

LEMMA SessionAtIs ==
  ASSUME NEW p, Timed(p), NEW i \in 1 .. Len(p)
  PROVE  /\ SessionAt(p, i) \in Sessions(p)
         /\ SessionAt(p, i)[1] <= i /\ i <= SessionAt(p, i)[2]
         /\ \A s \in Sessions(p) : s[1] <= i /\ i <= s[2] => s = SessionAt(p, i)
<1>1. /\ SessionAt(p, i) \in Sessions(p)
      /\ SessionAt(p, i)[1] <= i /\ i <= SessionAt(p, i)[2]
  BY SessionsCover DEF SessionAt
<1>. QED
  BY <1>1, SessionsExclude

LEMMA BetweenIsNone == ASSUME NEW p, Timed(p) PROVE Between \notin Sessions(p)
BY SessionIs DEF Between

LEMMA ClassOfBegin ==
  ASSUME NEW p, Timed(p), NEW i \in 2 .. Len(p)
  PROVE  ClassOf(p, i) = Between <=> i \in Begins(p)
<1>1. i \in 1 .. Len(p)
  BY DEF Timed
<1>2. SessionAt(p, i) # Between
  BY <1>1, SessionAtIs, BetweenIsNone
<1>. QED
  BY <1>2 DEF ClassOf

LEMMA ClassOfSession ==
  ASSUME NEW p, Timed(p), NEW i \in 2 .. Len(p), NEW s \in Sessions(p)
  PROVE  ClassOf(p, i) = s <=> i \in s[1] + 1 .. s[2]
<1>1. i \in 1 .. Len(p)
  BY DEF Timed
<1>2. /\ Len(p) \in Nat /\ s[1] \in 1 .. Len(p) /\ s[2] \in 1 .. Len(p)
      /\ s[1] \in Begins(p) /\ \A j \in Begins(p) : j <= s[1] \/ j > s[2]
  BY SessionIs
<1>3. CASE i \in Begins(p)
  <2>1. ClassOf(p, i) = Between /\ s # Between
    BY <1>3, BetweenIsNone DEF ClassOf
  <2>2. i <= s[1] \/ i > s[2]
    BY <1>2, <1>3
  <2>. QED
    BY <1>2, <2>1, <2>2
<1>4. CASE i \notin Begins(p)
  <2>1. ClassOf(p, i) = SessionAt(p, i)
    BY <1>4 DEF ClassOf
  <2>2. SessionAt(p, i) = s <=> s[1] <= i /\ i <= s[2]
    BY <1>1, SessionAtIs
  <2>3. i # s[1]
    BY <1>2, <1>4
  <2>. QED
    BY <1>2, <2>1, <2>2, <2>3
<1>. QED
  BY <1>3, <1>4

LEMMA TimesAddUp ==
  ASSUME NEW p, Timed(p)
  PROVE  /\ Active(p) \in Int /\ Gaps(p) \in Int
         /\ Active(p) + Gaps(p) = p[Len(p)].at - p[1].at
<1>. DEFINE T == 2 .. Len(p)
            K == Sessions(p) \union {Between}
            f == [i \in T |-> Added(p, i)]
            h == [i \in T |-> ClassOf(p, i)]
            sums == [k \in K |-> IF k = Between THEN Gaps(p) ELSE Duration(p, k)]
            Opening == Begins(p) \ {1}
            g == [i \in Opening |-> p[i].at - p[i - 1].at]
            d == [s \in Sessions(p) |-> Duration(p, s)]
<1>1. Len(p) \in Nat /\ Len(p) > 0 /\ DOMAIN p = 1 .. Len(p)
  BY DEF Timed
<1>2. \A i \in 1 .. Len(p) : p[i].at \in Int
  BY SnapshotAt DEF Timed
<1>3. IsFiniteSet(T)
  BY <1>1, FS_Interval
<1>4. \A i \in T : i \in 1 .. Len(p) /\ i - 1 \in 1 .. Len(p) /\ f[i] \in Int /\ f[i] = Added(p, i)
  BY <1>1, <1>2 DEF Added
<1>5. Opening \subseteq T /\ \A i \in Opening : f[i] = g[i]
  BY <1>1 DEF Begins, Added
<1>6. IsFiniteSet(Sessions(p)) /\ IsFiniteSet(K)
  BY SessionsAreFinite, FS_AddElement
<1>7. IsFiniteSet(Opening) /\ \A i \in Opening : f[i] \in Int
  BY <1>3, <1>4, <1>5, FS_Subset
<1>8. Gaps(p) = SumFunctionOnSet(g, Opening)
  BY DEF Gaps, SumFunction
<1>9. Active(p) = SumFunctionOnSet(d, Sessions(p))
  BY DEF Active, SumFunction
<1>10. SumFunctionOnSet(f, Opening) = Gaps(p) /\ Gaps(p) \in Int
  <2>. HIDE DEF f, g, Opening, T
  <2>1. SumFunctionOnSet(f, Opening) = SumFunctionOnSet(g, Opening)
    BY <1>5, <1>7, SumsAreEqual
  <2>2. SumFunctionOnSet(f, Opening) \in Int
    BY <1>7, SumIsInt
  <2>. QED
    BY <1>8, <2>1, <2>2
<1>11. \A s \in Sessions(p) : SumFunctionOnSet(f, s[1] + 1 .. s[2]) = Duration(p, s)
  <2>. SUFFICES ASSUME NEW s \in Sessions(p)
                PROVE  SumFunctionOnSet(f, s[1] + 1 .. s[2]) = Duration(p, s)
    OBVIOUS
  <2>1. PICK a, b : a = s[1] /\ b = s[2]
    OBVIOUS
  <2>2. a \in 1 .. Len(p) /\ b \in 1 .. Len(p) /\ a <= b
    BY <2>1, SessionIs
  <2>3. \A i \in a + 1 .. b : f[i] = Added(p, i)
    BY <1>1, <2>2
  <2>. HIDE DEF f
  <2>4. SumFunctionOnSet(f, a + 1 .. b) = p[b].at - p[a].at
    BY <2>2, <2>3, AddedSumUp
  <2>. QED
    BY <2>1, <2>4 DEF Duration
<1>12. \A s \in Sessions(p) : d[s] \in Int /\ sums[s] = d[s]
  <2>. SUFFICES ASSUME NEW s \in Sessions(p) PROVE Duration(p, s) \in Int /\ s # Between
    OBVIOUS
  <2>. QED
    BY <1>2, SessionIs, BetweenIsNone DEF Duration
<1>13. SumFunctionOnSet(sums, K) = SumFunctionOnSet(f, T)
  <2>1. \A i \in T : f[i] \in Int /\ h[i] \in K
    <3>. SUFFICES ASSUME NEW i \in T PROVE ClassOf(p, i) \in K
      BY <1>4
    <3>. QED
      BY <1>4, SessionAtIs DEF ClassOf
  <2>2. ASSUME NEW k \in K
        PROVE  \E U : /\ sums[k] = SumFunctionOnSet(f, U)
                      /\ \A x : x \in U <=> x \in T /\ h[x] = k
    <3>1. CASE k = Between
      <4>1. sums[k] = SumFunctionOnSet(f, Opening)
        BY <1>10, <3>1
      <4>2. \A x : x \in Opening <=> x \in T /\ h[x] = k
        <5>1. \A x \in T : h[x] = Between <=> x \in Begins(p)
          BY ClassOfBegin
        <5>. QED
          BY <1>5, <3>1, <5>1
      <4>. QED
        BY <4>1, <4>2
    <3>2. CASE k \in Sessions(p)
      <4>. DEFINE U == k[1] + 1 .. k[2]
      <4>1. sums[k] = SumFunctionOnSet(f, U)
        BY <1>11, <1>12, <3>2
      <4>2. \A x : x \in U <=> x \in T /\ h[x] = k
        <5>1. \A x \in T : h[x] = k <=> x \in U
          BY <3>2, ClassOfSession
        <5>2. U \subseteq T
          BY <1>1, <3>2, SessionIs
        <5>. QED
          BY <5>1, <5>2
      <4>. QED
        BY <4>1, <4>2
    <3>. QED
      BY <3>1, <3>2
  <2>. HIDE DEF T, K, f, h, sums
  <2>. QED
    BY <1>3, <1>6, <2>1, <2>2, SumByClass
<1>14. SumFunctionOnSet(f, T) = p[Len(p)].at - p[1].at
  <2>1. 1 \in 1 .. Len(p) /\ Len(p) \in 1 .. Len(p) /\ 1 <= Len(p) /\ T = 1 + 1 .. Len(p)
    BY <1>1
  <2>2. \A i \in 1 + 1 .. Len(p) : f[i] = Added(p, i)
    BY <1>4
  <2>3. SumFunctionOnSet(f, 1 + 1 .. Len(p)) = p[Len(p)].at - p[1].at
    <3>. HIDE DEF f, T
    <3>. QED
      BY <2>1, <2>2, AddedSumUp
  <2>. QED
    BY <2>1, <2>3
<1>15. SumFunctionOnSet(sums, K) = Gaps(p) + SumFunctionOnSet(sums, Sessions(p))
  <2>1. PICK x : x = Between
    OBVIOUS
  <2>2. x \in K /\ K \ {x} = Sessions(p) /\ sums[x] = Gaps(p)
    BY <2>1, BetweenIsNone
  <2>3. \A k \in K : sums[k] \in Int
    BY <1>10, <1>12
  <2>. HIDE DEF K, sums
  <2>4. SumFunctionOnSet(sums, K) = sums[x] + SumFunctionOnSet(sums, K \ {x})
    BY <1>6, <2>2, <2>3, SumOfOther
  <2>. QED
    BY <2>2, <2>4
<1>16. SumFunctionOnSet(sums, Sessions(p)) = Active(p) /\ Active(p) \in Int
  <2>. HIDE DEF sums, d
  <2>1. SumFunctionOnSet(d, Sessions(p)) = SumFunctionOnSet(sums, Sessions(p))
    BY <1>6, <1>12, SumsAreEqual
  <2>2. SumFunctionOnSet(d, Sessions(p)) \in Int
    BY <1>6, <1>12, SumIsInt
  <2>. QED
    BY <1>9, <2>1, <2>2
<1>. HIDE DEF f, T, sums, K
<1>17. Gaps(p) + Active(p) = p[Len(p)].at - p[1].at
  BY <1>13, <1>14, <1>15, <1>16
<1>. QED
  BY <1>10, <1>16, <1>17

---------------------------------------------------------------------------
(* The timeline *)

LEMMA SessionIsFound ==
  ASSUME NEW p, Timed(p), NEW i \in 1 .. Len(p)
  PROVE  FindSession(p, p[i].at) = SessionAt(p, i)
<1>. DEFINE found == {s \in Sessions(p) : p[s[1]].at <= p[i].at /\ p[i].at <= p[s[2]].at}
            r == SessionAt(p, i)
<1>1. Len(p) \in Nat /\ DOMAIN p = 1 .. Len(p) /\ \A j \in 1 .. Len(p) : p[j].at \in Int
  BY SnapshotAt DEF Timed
<1>2. \A j, k \in 1 .. Len(p) : j <= k => p[j].at <= p[k].at
  BY DEF Timed
<1>3. r \in found
  <2>1. r \in Sessions(p) /\ r[1] <= i /\ i <= r[2]
    BY SessionAtIs
  <2>2. r[1] \in 1 .. Len(p) /\ r[2] \in 1 .. Len(p)
    BY <2>1, SessionIs
  <2>. QED
    BY <1>2, <2>1, <2>2
<1>4. ASSUME NEW t \in found PROVE t = r
  <2>1. t \in Sessions(p) /\ p[t[1]].at <= p[i].at /\ p[i].at <= p[t[2]].at
    OBVIOUS
  <2>2. PICK a, b : a = t[1] /\ b = t[2]
    OBVIOUS
  <2>3. a \in 1 .. Len(p) /\ b \in 1 .. Len(p) /\ a \in Begins(p) /\ b \in Ends(p)
    BY <2>1, <2>2, SessionIs
  <2>4. a <= i
    <3>. SUFFICES ASSUME i < a PROVE FALSE
      BY <1>1, <2>3
    <3>1. a - 1 \in 1 .. Len(p) /\ i <= a - 1 /\ a # 1
      BY <1>1, <2>3
    <3>2. p[a].at - p[a - 1].at >= 30
      BY <2>3, <3>1 DEF Begins
    <3>3. p[i].at <= p[a - 1].at /\ p[a].at <= p[i].at
      BY <1>2, <2>1, <2>2, <3>1
    <3>4. p[i].at \in Int /\ p[a - 1].at \in Int /\ p[a].at \in Int
      BY <1>1, <2>3, <3>1
    <3>. QED
      BY ONLY <3>2, <3>3, <3>4
  <2>5. i <= b
    <3>. SUFFICES ASSUME b < i PROVE FALSE
      BY <1>1, <2>3
    <3>1. b + 1 \in 1 .. Len(p) /\ b + 1 <= i /\ b # Len(p) /\ b + 1 # 1 /\ (b + 1) - 1 = b
      <4>0. Len(p) \in Nat /\ i \in Int /\ b \in Int
        BY <1>1, <2>3
      <4>1. PICK n \in Nat, m \in Int, k \in Int : n = Len(p) /\ m = i /\ k = b
        BY <4>0
      <4>2. m \in 1 .. n /\ k \in 1 .. n /\ k < m
        BY <2>3, <4>1
      <4>3. k + 1 \in 1 .. n /\ k + 1 <= m /\ k # n /\ k + 1 # 1 /\ (k + 1) - 1 = k
        BY ONLY <4>2
      <4>. QED
        BY <4>1, <4>3
    <3>2. p[b + 1].at - p[b].at >= 30
      BY <2>3, <3>1 DEF Begins, Ends
    <3>3. p[b + 1].at <= p[i].at /\ p[i].at <= p[b].at
      BY <1>2, <2>1, <2>2, <3>1
    <3>4. p[i].at \in Int /\ p[b + 1].at \in Int /\ p[b].at \in Int
      BY <1>1, <2>3, <3>1
    <3>. QED
      BY ONLY <3>2, <3>3, <3>4
  <2>. QED
    BY <2>1, <2>2, <2>4, <2>5, SessionAtIs
<1>5. FindSession(p, p[i].at) = CHOOSE s \in found : \A t \in found : s[1] <= t[1]
  BY <1>3 DEF FindSession
<1>6. r[1] <= r[1]
  <2>1. r[1] \in 1 .. Len(p) /\ Len(p) \in Nat
    BY SessionAtIs, SessionIs
  <2>. QED
    BY <2>1
<1>. HIDE DEF found, r
<1>7. \A t \in found : r[1] <= t[1]
  BY <1>4, <1>6
<1>8. FindSession(p, p[i].at) \in found
  BY <1>3, <1>5, <1>7
<1>9. FindSession(p, p[i].at) = r
  BY <1>4, <1>8
<1>. QED
  BY <1>9 DEF r

LEMMA PastesAre ==
  ASSUME NEW p, Timed(p), NEW paste \in Pastes(p)
  PROVE  \E i \in 1 .. Len(p) : paste = <<i, SessionAt(p, i)>>
<1>1. PICK i \in 2 .. Len(p) : paste = <<i, FindSession(p, p[i].at)>>
  BY DEF Pastes
<1>2. i \in 1 .. Len(p)
  BY DEF Timed
<1>. QED
  BY <1>1, <1>2, SessionIsFound

LEMMA TimelineType ==
  ASSUME NEW s \in Seq(Snapshot)
  PROVE  Timeline(s) \in [sessions : SUBSET (Nat \X Nat), active : Int,
                          gaps : Int, elapsed : Int, pastes : SUBSET (Nat \X (Nat \X Nat)),
                          rapid : SUBSET (Nat \X Nat)]
<1>1. CASE s = <<>>
  <2>1. Timeline(s) = NoTimeline
    BY <1>1 DEF Timeline
  <2>. QED
    BY <2>1 DEF NoTimeline
<1>2. CASE s # <<>>
  <2>1. PICK p : p = Parsed(s)
    OBVIOUS
  <2>2. Timed(p)
    BY <1>2, <2>1, ParsedIsTimed
  <2>3. Len(p) \in Nat /\ Len(p) > 0
    BY <2>2 DEF Timed
  <2>4. Active(p) \in Int /\ Gaps(p) \in Int
    BY <2>2, TimesAddUp
  <2>5. p[Len(p)].at - p[1].at \in Int
    <3>1. p \in Seq(Snapshot) /\ 1 \in 1 .. Len(p) /\ Len(p) \in 1 .. Len(p)
      BY <2>2, <2>3 DEF Timed
    <3>2. p[1].at \in Int /\ p[Len(p)].at \in Int
      BY <3>1, SnapshotAt
    <3>. QED
      BY <3>2
  <2>6. Sessions(p) \subseteq Nat \X Nat
    <3>. SUFFICES ASSUME NEW t \in Sessions(p) PROVE t \in Nat \X Nat
      OBVIOUS
    <3>. QED
      BY <2>2, SessionIs
  <2>7. Pastes(p) \subseteq Nat \X (Nat \X Nat)
    <3>. SUFFICES ASSUME NEW paste \in Pastes(p) PROVE paste \in Nat \X (Nat \X Nat)
      OBVIOUS
    <3>1. PICK i \in 1 .. Len(p) : paste = <<i, SessionAt(p, i)>>
      BY <2>2, PastesAre
    <3>2. SessionAt(p, i) \in Nat \X Nat
      BY <2>2, <2>6, SessionAtIs
    <3>. QED
      BY <3>1, <3>2
  <2>8. RapidCompletions(p) \subseteq Sessions(p)
    BY DEF RapidCompletions
  <2>9. Timeline(s) = [sessions |-> Sessions(p), active |-> Active(p), gaps |-> Gaps(p),
                       elapsed |-> p[Len(p)].at - p[1].at, pastes |-> Pastes(p),
                       rapid |-> RapidCompletions(p)]
    BY <1>2, <2>1 DEF Timeline
  <2>. QED
    BY <2>4, <2>5, <2>6, <2>7, <2>8, <2>9
<1>. QED
  BY <1>1, <1>2

LEMMA TimelineAddsUp ==
  ASSUME NEW s \in Seq(Snapshot)
  PROVE  AddsUp(s)
<1>1. CASE s = <<>>
  <2>1. /\ Timeline(s).active = 0 /\ Timeline(s).gaps = 0 /\ Timeline(s).elapsed = 0
        /\ Timeline(s).pastes = {}
    BY <1>1 DEF Timeline, NoTimeline
  <2>2. DOMAIN s = {}
    BY <1>1
  <2>. QED
    BY <2>1, <2>2 DEF AddsUp
<1>2. CASE s # <<>>
  <2>1. PICK p : p = Parsed(s)
    OBVIOUS
  <2>2. Timed(p) /\ Len(p) = Len(s)
    BY <1>2, <2>1, ParsedIsTimed
  <2>3. /\ Timeline(s).sessions = Sessions(p) /\ Timeline(s).active = Active(p)
        /\ Timeline(s).gaps = Gaps(p) /\ Timeline(s).elapsed = p[Len(p)].at - p[1].at
        /\ Timeline(s).pastes = Pastes(p)
    BY <1>2, <2>1 DEF Timeline
  <2>4. Active(p) + Gaps(p) = p[Len(p)].at - p[1].at
    BY <2>2, TimesAddUp
  <2>5. ASSUME NEW i \in DOMAIN s
        PROVE  Cardinality({t \in Sessions(p) : t[1] <= i /\ i <= t[2]}) = 1
    <3>1. i \in 1 .. Len(p)
      BY <2>2
    <3>2. {t \in Sessions(p) : t[1] <= i /\ i <= t[2]} = {SessionAt(p, i)}
      BY <2>2, <3>1, SessionAtIs
    <3>. QED
      BY <3>2, FS_Singleton
  <2>6. ASSUME NEW paste \in Pastes(p)
        PROVE  paste[2][1] <= paste[1] /\ paste[1] <= paste[2][2]
    BY <2>2, PastesAre, SessionAtIs
  <2>. QED
    BY <2>3, <2>4, <2>5, <2>6 DEF AddsUp
<1>. QED
  BY <1>1, <1>2

-----------------------------------------------------------------------------
(* Intake, versions and writing snapshots: the inductive invariant *)

\* What get_process_signals may have stored, of any snapshots.
SignalsOf(s) == [count |-> Len(s), timeline |-> Timeline(s)]

VersionRow == [file      : Key \union {NoFile},
               snapshots : Seq(Snapshot) \union {NoSnapshots},
               signals   : {SignalsOf(s) : s \in Seq(Snapshot)} \union {NoSignals}]

EssayRow == [student  : Roster \union {NoStudent},
             status   : {"unassigned", "queued"},
             versions : Seq(VersionRow)]

IntakeCall == [op        : {"none", "ingest", "resubmit", "assign", "autosave", "signals"},
         pc        : {"idle", "upload", "extract", "commit", "assign", "save", "store"},
         essay     : EssayIds \union {NoEssay},
         n         : Nat,
         file      : Files \union {NoFile},
         student   : Roster \union {NoStudent},
         snapshots : Seq(Snapshot) \union {NoSnapshots},
         status    : {"none", "unassigned", "queued"}]

\* A handler that makes a version, and one whose object is in the bucket.
MakesVersion(c)  == server[c].pc \in {"upload", "extract", "commit"}
HoldsObject(c) == server[c].pc \in {"extract", "commit"}
Saves(c)  == server[c].pc = "save"

\* No longer than t, and equal to it as far as it goes.
StartOf(s, t) == Len(s) <= Len(t) /\ \A i \in 1 .. Len(s) : s[i] = t[i]

RowsAndCalls ==
  /\ DOMAIN essay \subseteq EssayIds
  /\ essay \in [DOMAIN essay -> EssayRow]
  /\ \A e \in DOMAIN essay :
       /\ Latest(e) \in 1 .. Limit + 1
       /\ essay[e].student # NoStudent => essay[e].status = "queued"
  /\ objects \subseteq Key
  /\ server \in [Servers -> IntakeCall]
  /\ allowed \in IntakeBound

\* What a call knows of the essay it is about.
CallFits(c) ==
  LET call == server[c]
  IN /\ call.op = "resubmit" => call.pc \in {"idle", "upload", "extract", "commit"}
     /\ MakesVersion(c) =>
          /\ call.essay \in EssayIds /\ call.file \in Files
          /\ \/ call.op = "ingest" /\ ~ Exists(call.essay) /\ call.n = 1
             \/ /\ call.op = "resubmit" /\ Exists(call.essay)
                /\ call.n = Latest(call.essay) + 1 /\ call.n <= Limit + 1
     /\ call.pc = "assign" =>
          /\ Exists(call.essay) /\ call.student \in Roster
          /\ call.status = "unassigned" \/ essay[call.essay].status = "queued"
     /\ call.pc \in {"save", "store"} =>
          /\ Exists(call.essay) /\ call.n \in 1 .. Latest(call.essay)
          /\ call.snapshots \in Seq(Snapshot)
     /\ Saves(c) => call.snapshots = essay[call.essay].versions[call.n].snapshots
     /\ call.pc = "store" =>
          StartOf(call.snapshots, Snapshots(essay[call.essay].versions[call.n]))

\* Of the calls about an essay one makes its next version; of those about a
\* version one saves snapshots.
CallsExclude ==
  /\ \A c, d \in Servers :
       MakesVersion(c) /\ MakesVersion(d) /\ server[c].essay = server[d].essay => c = d
  /\ \A c, d \in Servers :
       /\ Saves(c) /\ Saves(d)
       /\ server[c].essay = server[d].essay /\ server[c].n = server[d].n
       => c = d

FileOf(e, n) == essay[e].versions[n].file

\* An object belongs to a version or to the handler that makes one.
ObjectsAreOwned ==
  /\ \A e \in DOMAIN essay : \A n \in 1 .. Latest(e) : FileOf(e, n) # NoFile =>
       FileOf(e, n) \in objects /\ FileOf(e, n)[1] = e /\ FileOf(e, n)[2] = n
  /\ \A c \in Servers : HoldsObject(c) => KeyOf(c) \in objects
  /\ allowed.clean => \A key \in objects :
       \/ \E e \in DOMAIN essay : \E n \in 1 .. Latest(e) : FileOf(e, n) = key
       \/ \E c \in Servers : HoldsObject(c) /\ KeyOf(c) = key

\* Signals are those of the snapshots there were when they were computed.
FaithfulVersion(version) ==
  version.signals # NoSignals =>
    \E s \in Seq(Snapshot) : version.signals = SignalsOf(s) /\ StartOf(s, Snapshots(version))

SignalsFollow ==
  \A e \in DOMAIN essay : \A n \in 1 .. Latest(e) : FaithfulVersion(essay[e].versions[n])

IntakeInv ==
  /\ RowsAndCalls
  /\ \A c \in Servers : CallFits(c)
  /\ CallsExclude
  /\ ObjectsAreOwned
  /\ SignalsFollow

---------------------------------------------------------------------------
(* Rows and calls after a step *)

LEMMA FreeIsIdle == Free \in IntakeCall /\ Free.pc = "idle" /\ Free.op = "none"
BY DEF Free, IntakeCall

LEMMA SetCall ==
  ASSUME RowsAndCalls, NEW c \in Servers, NEW call \in IntakeCall,
         server' = [server EXCEPT ![c] = call]
  PROVE  /\ server' \in [Servers -> IntakeCall]
         /\ server'[c] = call
         /\ \A d \in Servers \ {c} : server'[d] = server[d]
BY DEF RowsAndCalls

LEMMA SnapshotsType ==
  ASSUME NEW version \in VersionRow
  PROVE  Snapshots(version) \in Seq(Snapshot)
<1>1. version.snapshots \in Seq(Snapshot) \union {NoSnapshots}
  BY DEF VersionRow
<1>2. <<>> \in Seq(Snapshot)
  OBVIOUS
<1>. QED
  BY <1>1, <1>2 DEF Snapshots

LEMMA VersionType ==
  ASSUME RowsAndCalls, NEW e \in DOMAIN essay, NEW n \in 1 .. Latest(e)
  PROVE  /\ essay[e] \in EssayRow /\ Latest(e) \in Nat
         /\ essay[e].versions \in Seq(VersionRow)
         /\ essay[e].versions[n] \in VersionRow
         /\ Snapshots(essay[e].versions[n]) \in Seq(Snapshot)
<1>1. essay[e] \in EssayRow
  BY DEF RowsAndCalls
<1>2. essay[e].versions \in Seq(VersionRow)
  BY <1>1 DEF EssayRow
<1>3. essay[e].versions[n] \in VersionRow
  BY <1>2 DEF Latest
<1>4. Latest(e) \in Nat
  BY <1>2 DEF Latest
<1>. QED
  BY <1>1, <1>2, <1>3, <1>4, SnapshotsType

LEMMA StartOfItself ==
  ASSUME NEW s \in Seq(Snapshot)
  PROVE  StartOf(s, s)
BY DEF StartOf

LEMMA StartOfLonger ==
  ASSUME NEW s \in Seq(Snapshot), NEW t \in Seq(Snapshot), NEW u \in Seq(Snapshot),
         StartOf(s, t), StartOf(t, u)
  PROVE  StartOf(s, u)
<1>1. Len(s) \in Nat /\ Len(t) \in Nat /\ Len(u) \in Nat
  OBVIOUS
<1>2. \A i \in 1 .. Len(s) : i \in 1 .. Len(t)
  BY <1>1 DEF StartOf
<1>. QED
  BY <1>1, <1>2 DEF StartOf

LEMMA AppendKeepsStart ==
  ASSUME NEW s \in Seq(Snapshot), NEW next \in Snapshot
  PROVE  Append(s, next) \in Seq(Snapshot) /\ StartOf(s, Append(s, next))
BY DEF StartOf

\* A new row is one more.
LEMMA RowAdded ==
  ASSUME RowsAndCalls, NEW e \in EssayIds, ~ Exists(e), NEW row \in EssayRow,
         essay' = WithRow(e, row)
  PROVE  /\ DOMAIN essay' = DOMAIN essay \union {e}
         /\ essay' \in [DOMAIN essay' -> EssayRow]
         /\ essay'[e] = row
         /\ \A f \in DOMAIN essay : essay'[f] = essay[f] /\ f # e
BY DEF RowsAndCalls, Exists, WithRow

LEMMA RowChanged ==
  ASSUME RowsAndCalls, NEW e \in DOMAIN essay, NEW row \in EssayRow,
         essay' = [essay EXCEPT ![e] = row]
  PROVE  /\ DOMAIN essay' = DOMAIN essay
         /\ essay' \in [DOMAIN essay' -> EssayRow]
         /\ essay'[e] = row
         /\ \A f \in DOMAIN essay : f # e => essay'[f] = essay[f]
BY DEF RowsAndCalls

---------------------------------------------------------------------------
(* Steps that leave the rows and the objects alone *)

\* A handler goes on, gives up or begins: it must fit the rows, exclude the
\* others and keep its object.
LEMMA CallMoves ==
  ASSUME IntakeInv, NEW c \in Servers, NEW call \in IntakeCall,
         server' = [server EXCEPT ![c] = call],
         UNCHANGED <<essay, objects>>,
         allowed' \in IntakeBound,
         CallFits(c)',
         MakesVersion(c)' => \A d \in Servers \ {c} :
                         MakesVersion(d) => server[d].essay # call.essay,
         Saves(c)' => \A d \in Servers \ {c} :
                         Saves(d) => server[d].essay # call.essay \/ server[d].n # call.n,
         HoldsObject(c)' => HoldsObject(c) /\ KeyOf(c)' = KeyOf(c),
         allowed'.clean => allowed.clean /\ (HoldsObject(c) => HoldsObject(c)')
  PROVE  IntakeInv'
<1>1. /\ server' \in [Servers -> IntakeCall]
      /\ server'[c] = call
      /\ \A d \in Servers \ {c} : server'[d] = server[d]
  BY SetCall DEF IntakeInv
<1>2. RowsAndCalls'
  BY <1>1 DEF IntakeInv, RowsAndCalls, Latest
<1>3. \A d \in Servers : CallFits(d)'
  <2>. TAKE d \in Servers
  <2>1. CASE d = c
    BY <2>1
  <2>2. CASE d # c
    <3>1. server'[d] = server[d] /\ CallFits(d)
      BY <1>1, <2>2 DEF IntakeInv
    <3>. QED
      BY <3>1 DEF CallFits, MakesVersion, Saves, Exists, Latest, Snapshots
  <2>. QED
    BY <2>1, <2>2
<1>4. CallsExclude'
  <2>1. \A d, f \in Servers :
          MakesVersion(d)' /\ MakesVersion(f)' /\ server'[d].essay = server'[f].essay => d = f
    BY <1>1 DEF IntakeInv, CallsExclude, MakesVersion
  <2>2. \A d, f \in Servers :
          /\ Saves(d)' /\ Saves(f)'
          /\ server'[d].essay = server'[f].essay /\ server'[d].n = server'[f].n
          => d = f
    BY <1>1 DEF IntakeInv, CallsExclude, Saves
  <2>. QED
    BY <2>1, <2>2 DEF CallsExclude
<1>5. ObjectsAreOwned'
  <2>1. \A d \in Servers : d # c => (HoldsObject(d)' <=> HoldsObject(d)) /\ KeyOf(d)' = KeyOf(d)
    BY <1>1 DEF HoldsObject, KeyOf
  <2>2. \A d \in Servers : HoldsObject(d)' => KeyOf(d)' \in objects'
    BY <2>1 DEF IntakeInv, ObjectsAreOwned
  <2>3. ASSUME allowed'.clean, NEW key \in objects'
        PROVE  \/ \E e \in DOMAIN essay' : \E n \in 1 .. Latest(e)' : FileOf(e, n)' = key
               \/ \E d \in Servers : HoldsObject(d)' /\ KeyOf(d)' = key
    BY <2>1, <2>3 DEF IntakeInv, ObjectsAreOwned, FileOf, Latest
  <2>4. \A e \in DOMAIN essay' : \A n \in 1 .. Latest(e)' : FileOf(e, n)' # NoFile =>
          FileOf(e, n)' \in objects' /\ FileOf(e, n)'[1] = e /\ FileOf(e, n)'[2] = n
    BY DEF IntakeInv, ObjectsAreOwned, FileOf, Latest
  <2>. QED
    BY <2>2, <2>3, <2>4 DEF ObjectsAreOwned
<1>6. SignalsFollow'
  BY DEF IntakeInv, SignalsFollow, Latest, FaithfulVersion, Snapshots
<1>. QED
  BY <1>2, <1>3, <1>4, <1>5, <1>6 DEF IntakeInv

\* The bounds after a call has begun or something has failed.
LEMMA CallsShrink ==
  ASSUME RowsAndCalls, allowed.calls > 0
  PROVE  /\ [allowed EXCEPT !.calls = @ - 1] \in IntakeBound
         /\ [allowed EXCEPT !.calls = @ - 1].clean = allowed.clean
BY DEF RowsAndCalls, IntakeBound

LEMMA FaultsShrink ==
  ASSUME RowsAndCalls, NEW clean \in BOOLEAN, Failure(clean)
  PROVE  /\ allowed' \in IntakeBound
         /\ allowed'.clean => allowed.clean /\ clean
<1>1. PICK both \in BOOLEAN : both = (allowed.clean /\ clean)
  OBVIOUS
<1>2. PICK left \in Nat : left = allowed.faults - 1
  BY DEF RowsAndCalls, IntakeBound, Failure
<1>3. allowed' = [allowed EXCEPT !.faults = left, !.clean = both]
  BY <1>1, <1>2 DEF Failure
<1>4. allowed' \in IntakeBound /\ allowed'.clean = both
  BY <1>3, Zenon DEF RowsAndCalls, IntakeBound
<1>. QED
  BY <1>1, <1>4

\* A call begins; a call that is refused ends at once.
LEMMA ReceiveKeeps ==
  ASSUME IntakeInv, NEW c \in Servers, NEW about \in {"files", "writing"},
         NEW call \in IntakeCall,
         Receive(c, about, call), UNCHANGED <<essay, objects>>,
         call.pc \in {"idle", "upload", "assign", "save", "store"},
         CallFits(c)',
         call.pc = "upload" => \A d \in Servers \ {c} :
                         MakesVersion(d) => server[d].essay # call.essay,
         call.pc = "save" => \A d \in Servers \ {c} :
                         Saves(d) => server[d].essay # call.essay \/ server[d].n # call.n
  PROVE  IntakeInv'
<1>1. server' = [server EXCEPT ![c] = call] /\ server'[c] = call
  BY SetCall DEF Receive, IntakeInv
<1>2. allowed' \in IntakeBound /\ allowed'.clean = allowed.clean
  BY CallsShrink DEF Receive, IntakeInv
<1>3. ~ HoldsObject(c) /\ ~ HoldsObject(c)'
  BY <1>1 DEF Receive, Idle, HoldsObject
<1>4. MakesVersion(c)' => call.pc = "upload"
  BY <1>1 DEF MakesVersion
<1>5. Saves(c)' => call.pc = "save"
  BY <1>1 DEF Saves
<1>. QED
  BY <1>1, <1>2, <1>3, <1>4, <1>5, CallMoves

\* A call ends and leaves everything as it is; an object it has leaves the bucket
\* unclean.
LEMMA EndFits ==
  ASSUME RowsAndCalls, NEW c \in Servers, Reply(c)
  PROVE  /\ server' = [server EXCEPT ![c] = Free] /\ server'[c] = Free
         /\ CallFits(c)' /\ ~ MakesVersion(c)' /\ ~ Saves(c)' /\ ~ HoldsObject(c)'
<1>1. server' = [server EXCEPT ![c] = Free] /\ server'[c] = Free
  BY SetCall, FreeIsIdle DEF Reply
<1>. QED
  BY <1>1, FreeIsIdle DEF CallFits, MakesVersion, Saves, HoldsObject

LEMMA FailKeeps ==
  ASSUME IntakeInv, NEW c \in Servers, NEW clean \in BOOLEAN,
         Failure(clean), Reply(c), UNCHANGED <<essay, objects>>,
         HoldsObject(c) => ~ clean
  PROVE  IntakeInv'
<1>1. /\ server' = [server EXCEPT ![c] = Free]
      /\ CallFits(c)' /\ ~ MakesVersion(c)' /\ ~ Saves(c)' /\ ~ HoldsObject(c)'
  BY EndFits DEF IntakeInv
<1>2. allowed' \in IntakeBound /\ (allowed'.clean => allowed.clean /\ clean)
  BY FaultsShrink DEF IntakeInv
<1>. QED
  BY <1>1, <1>2, FreeIsIdle, CallMoves

---------------------------------------------------------------------------
(* The handlers' first statements *)

LEMMA StartIngestKeeps ==
  ASSUME IntakeInv, NEW c \in Servers, NEW e \in EssayIds,
         NEW student \in Roster \union {NoStudent}, NEW file \in Files,
         StartIngest(c, e, student, file)
  PROVE  IntakeInv'
<1>. DEFINE call == [Free EXCEPT !.op = "ingest", !.pc = "upload", !.essay = e,
                            !.n = 1, !.file = file, !.student = student]
<1>1. /\ call \in IntakeCall /\ call.op = "ingest" /\ call.pc = "upload" /\ call.essay = e
      /\ call.n = 1 /\ call.file = file
  BY DEF Free, IntakeCall
<1>2. Receive(c, "files", call) /\ UNCHANGED <<essay, objects>> /\ Unused(e)
  BY DEF StartIngest
<1>. HIDE DEF call
<1>3. server'[c] = call
  BY <1>1, <1>2, SetCall DEF Receive, IntakeInv
<1>4. CallFits(c)'
  BY <1>1, <1>2, <1>3 DEF CallFits, MakesVersion, Saves, Unused, Exists
<1>5. \A d \in Servers \ {c} : MakesVersion(d) => server[d].essay # call.essay
  BY <1>1, <1>2 DEF Unused, Serving, Idle, MakesVersion
<1>. QED
  BY <1>1, <1>2, <1>4, <1>5, ReceiveKeeps

LEMMA StartResubmitKeeps ==
  ASSUME IntakeInv, NEW c \in Servers, NEW e \in EssayIds, NEW file \in Files,
         StartResubmit(c, e, file)
  PROVE  IntakeInv'
<1>. DEFINE call == IF Latest(e) - 1 >= Limit THEN Free
                    ELSE [Free EXCEPT !.op = "resubmit", !.pc = "upload", !.essay = e,
                                 !.n = Latest(e) + 1, !.file = file]
<1>1. Limit \in Nat /\ e \in DOMAIN essay /\ Latest(e) \in 1 .. Limit + 1
  BY IntakeAssumption DEF StartResubmit, Exists, IntakeInv, RowsAndCalls
<1>2. Receive(c, "files", call) /\ UNCHANGED <<essay, objects>> /\ EssayIsFree(e)
  BY DEF StartResubmit
<1>3. CASE Latest(e) - 1 >= Limit
  <2>1. call = Free
    BY <1>3
  <2>. HIDE DEF call
  <2>2. server'[c] = Free
    BY <1>2, <2>1, SetCall, FreeIsIdle DEF Receive, IntakeInv
  <2>3. CallFits(c)'
    BY <2>2, FreeIsIdle DEF CallFits, MakesVersion, Saves
  <2>. QED
    BY <1>2, <2>1, <2>3, FreeIsIdle, ReceiveKeeps
<1>4. CASE ~ (Latest(e) - 1 >= Limit)
  <2>1. /\ call \in IntakeCall /\ call.op = "resubmit" /\ call.pc = "upload"
        /\ call.essay = e /\ call.n = Latest(e) + 1 /\ call.n <= Limit + 1 /\ call.file = file
    <3>1. PICK next \in Nat : next = Latest(e) + 1 /\ next <= Limit + 1
      BY <1>1, <1>4
    <3>2. call = [Free EXCEPT !.op = "resubmit", !.pc = "upload", !.essay = e,
                              !.n = next, !.file = file]
      BY <1>4, <3>1
    <3>. HIDE DEF call
    <3>3. /\ call \in IntakeCall /\ call.op = "resubmit" /\ call.pc = "upload"
          /\ call.essay = e /\ call.n = next /\ call.file = file
      BY <3>2 DEF Free, IntakeCall
    <3>. QED
      BY <3>1, <3>3
  <2>. HIDE DEF call
  <2>2. server'[c] = call
    BY <1>2, <2>1, SetCall DEF Receive, IntakeInv
  <2>3. CallFits(c)'
    BY <1>1, <1>2, <2>1, <2>2 DEF CallFits, MakesVersion, Saves, Exists, Latest
  <2>4. \A d \in Servers \ {c} : MakesVersion(d) => server[d].essay # call.essay
    <3>. SUFFICES ASSUME NEW d \in Servers \ {c}, MakesVersion(d), server[d].essay = e
                  PROVE  FALSE
      BY <2>1
    <3>1. CallFits(d) /\ d \in Serving
      BY DEF IntakeInv, Serving, Idle, MakesVersion
    <3>2. server[d].op = "resubmit"
      BY <1>1, <3>1 DEF CallFits, Exists
    <3>. QED
      BY <1>2, <3>1, <3>2 DEF EssayIsFree
  <2>. QED
    BY <1>2, <2>1, <2>3, <2>4, ReceiveKeeps
<1>. QED
  BY <1>3, <1>4

LEMMA StartAssignKeeps ==
  ASSUME IntakeInv, NEW c \in Servers, NEW e \in EssayIds, NEW student \in Roster,
         StartAssign(c, e, student)
  PROVE  IntakeInv'
<1>. DEFINE call == [Free EXCEPT !.op = "assign", !.pc = "assign", !.essay = e,
                            !.student = student, !.status = essay[e].status]
<1>1. e \in DOMAIN essay /\ essay[e].status \in {"unassigned", "queued"}
  BY DEF StartAssign, Exists, IntakeInv, RowsAndCalls, EssayRow
<1>2. /\ call \in IntakeCall /\ call.op = "assign" /\ call.pc = "assign"
      /\ call.essay = e /\ call.student = student /\ call.status = essay[e].status
  BY <1>1 DEF Free, IntakeCall
<1>3. Receive(c, "files", call) /\ UNCHANGED <<essay, objects>>
  BY DEF StartAssign
<1>. HIDE DEF call
<1>4. server'[c] = call
  BY <1>2, <1>3, SetCall DEF Receive, IntakeInv
<1>5. CallFits(c)'
  BY <1>1, <1>2, <1>3, <1>4 DEF CallFits, MakesVersion, Saves, Exists
<1>. QED
  BY <1>2, <1>3, <1>5, ReceiveKeeps

LEMMA LockSnapshotsKeeps ==
  ASSUME IntakeInv, NEW c \in Servers, NEW e \in EssayIds, LockSnapshots(c, e)
  PROVE  IntakeInv'
<1>. DEFINE found == LatestSnapshots(e)
            call  == IF found = NoSnapshots THEN Free
                     ELSE [Free EXCEPT !.op = "autosave", !.pc = "save", !.essay = e,
                                       !.n = Latest(e), !.snapshots = found]
<1>1. /\ e \in DOMAIN essay /\ Latest(e) \in 1 .. Latest(e) /\ Latest(e) \in Nat
      /\ essay[e].versions[Latest(e)] \in VersionRow
  <2>1. e \in DOMAIN essay /\ Latest(e) \in 1 .. Limit + 1
    BY DEF LockSnapshots, Exists, IntakeInv, RowsAndCalls
  <2>. QED
    BY <2>1, VersionType DEF IntakeInv
<1>2. /\ found \in Seq(Snapshot) \union {NoSnapshots}
      /\ found = essay[e].versions[Latest(e)].snapshots
  BY <1>1 DEF LatestSnapshots, VersionRow
<1>3. Receive(c, "writing", call) /\ UNCHANGED <<essay, objects>> /\ VersionIsFree(e, Latest(e))
  BY DEF LockSnapshots
<1>. HIDE DEF found
<1>4. CASE found = NoSnapshots
  <2>1. call = Free
    BY <1>4
  <2>. HIDE DEF call
  <2>2. server'[c] = Free
    BY <1>3, <2>1, SetCall, FreeIsIdle DEF Receive, IntakeInv
  <2>3. CallFits(c)'
    BY <2>2, FreeIsIdle DEF CallFits, MakesVersion, Saves
  <2>. QED
    BY <1>3, <2>1, <2>3, FreeIsIdle, ReceiveKeeps
<1>5. CASE found # NoSnapshots
  <2>1. /\ call \in IntakeCall /\ call.op = "autosave" /\ call.pc = "save"
        /\ call.essay = e /\ call.n = Latest(e) /\ call.snapshots = found
        /\ found \in Seq(Snapshot)
    BY <1>1, <1>2, <1>5 DEF Free, IntakeCall
  <2>. HIDE DEF call
  <2>2. server'[c] = call
    BY <1>3, <2>1, SetCall DEF Receive, IntakeInv
  <2>3. CallFits(c)'
    BY <1>1, <1>2, <1>3, <2>1, <2>2 DEF CallFits, MakesVersion, Saves, Exists, Latest
  <2>4. \A d \in Servers \ {c} :
          Saves(d) => server[d].essay # call.essay \/ server[d].n # call.n
    BY <1>3, <2>1 DEF VersionIsFree, Serving, Idle, Saves
  <2>. QED
    BY <1>3, <2>1, <2>3, <2>4, ReceiveKeeps
<1>. QED
  BY <1>4, <1>5

LEMMA ReadSignalsKeeps ==
  ASSUME IntakeInv, NEW c \in Servers, NEW e \in EssayIds, ReadSignals(c, e)
  PROVE  IntakeInv'
<1>. DEFINE version == essay[e].versions[Latest(e)]
            now     == Snapshots(version)
            call    == IF Cached(version) THEN Free
                       ELSE [Free EXCEPT !.op = "signals", !.pc = "store", !.essay = e,
                                         !.n = Latest(e), !.snapshots = now]
<1>1. /\ e \in DOMAIN essay /\ Latest(e) \in 1 .. Latest(e) /\ Latest(e) \in Nat
      /\ now \in Seq(Snapshot)
  <2>1. e \in DOMAIN essay /\ Latest(e) \in 1 .. Limit + 1
    BY DEF ReadSignals, Exists, IntakeInv, RowsAndCalls
  <2>. QED
    BY <2>1, VersionType DEF IntakeInv
<1>2. Receive(c, "writing", call) /\ UNCHANGED <<essay, objects>>
  BY DEF ReadSignals
<1>3. CASE Cached(version)
  <2>1. call = Free
    BY <1>3
  <2>. HIDE DEF call
  <2>2. server'[c] = Free
    BY <1>2, <2>1, SetCall, FreeIsIdle DEF Receive, IntakeInv
  <2>3. CallFits(c)'
    BY <2>2, FreeIsIdle DEF CallFits, MakesVersion, Saves
  <2>. QED
    BY <1>2, <2>1, <2>3, FreeIsIdle, ReceiveKeeps
<1>4. CASE ~ Cached(version)
  <2>1. /\ call \in IntakeCall /\ call.op = "signals" /\ call.pc = "store"
        /\ call.essay = e /\ call.n = Latest(e) /\ call.snapshots = now
    <3>. HIDE DEF now
    <3>. QED
      BY <1>1, <1>4 DEF Free, IntakeCall
  <2>. HIDE DEF call
  <2>2. server'[c] = call
    BY <1>2, <2>1, SetCall DEF Receive, IntakeInv
  <2>3. StartOf(now, now)
    BY <1>1, StartOfItself
  <2>4. CallFits(c)'
    <3>1. essay' = essay
      BY <1>2
    <3>. QED
      BY <1>1, <2>1, <2>2, <2>3, <3>1 DEF CallFits, MakesVersion, Saves, Exists, Latest, Snapshots
  <2>. QED
    BY <1>2, <2>1, <2>4, ReceiveKeeps
<1>. QED
  BY <1>3, <1>4

---------------------------------------------------------------------------
(* Objects *)

LEMMA MoveCall ==
  ASSUME RowsAndCalls, NEW c \in Servers, NEW pc \in {"extract", "commit"},
         server' = [server EXCEPT ![c].pc = pc]
  PROVE  \E call \in IntakeCall :
           /\ server' = [server EXCEPT ![c] = call]
           /\ call = [server[c] EXCEPT !.pc = pc] /\ call.pc = pc
           /\ call.op = server[c].op /\ call.essay = server[c].essay
           /\ call.n = server[c].n /\ call.file = server[c].file
<1>. DEFINE call == [server[c] EXCEPT !.pc = pc]
<1>1. server[c] \in IntakeCall
  BY DEF RowsAndCalls
<1>2. /\ call \in IntakeCall /\ call.pc = pc
      /\ call.op = server[c].op /\ call.essay = server[c].essay
      /\ call.n = server[c].n /\ call.file = server[c].file
  BY <1>1 DEF IntakeCall
<1>3. server' = [server EXCEPT ![c] = call]
  BY DEF RowsAndCalls
<1>4. call = [server[c] EXCEPT !.pc = pc]
  OBVIOUS
<1>. HIDE DEF call
<1>. QED
  BY <1>2, <1>3, <1>4

\* The key of a version in the making is nobody else's.
LEMMA KeyIsOwn ==
  ASSUME IntakeInv, NEW c \in Servers, MakesVersion(c)
  PROVE  /\ KeyOf(c) \in Key /\ KeyOf(c) # NoFile
         /\ \A e \in DOMAIN essay : \A n \in 1 .. Latest(e) : FileOf(e, n) # KeyOf(c)
         /\ \A d \in Servers \ {c} : MakesVersion(d) => KeyOf(d) # KeyOf(c)
<1>1. CallFits(c)
  BY DEF IntakeInv
<1>2. \A e \in DOMAIN essay : Latest(e) \in Nat /\ Latest(e) >= 1
  BY IntakeAssumption DEF IntakeInv, RowsAndCalls
<1>3. /\ server[c].essay \in EssayIds /\ server[c].file \in Files
      /\ server[c].n \in Nat \ {0}
  BY <1>1, <1>2 DEF CallFits, Exists
<1>4. KeyOf(c) \in Key /\ KeyOf(c) # NoFile
  BY <1>3, NullAssumption DEF KeyOf, Key
<1>5. ASSUME NEW e \in DOMAIN essay, NEW n \in 1 .. Latest(e), FileOf(e, n) = KeyOf(c)
      PROVE  FALSE
  <2>1. FileOf(e, n)[1] = e /\ FileOf(e, n)[2] = n
    BY <1>4, <1>5 DEF IntakeInv, ObjectsAreOwned
  <2>2. server[c].essay = e /\ server[c].n = n
    BY <1>5, <2>1 DEF KeyOf
  <2>3. n <= Latest(e) /\ Latest(e) \in Nat
    BY <1>2
  <2>. QED
    BY <1>1, <2>2, <2>3 DEF CallFits, Exists
<1>6. \A d \in Servers \ {c} : MakesVersion(d) => KeyOf(d) # KeyOf(c)
  BY DEF IntakeInv, CallsExclude, KeyOf
<1>. QED
  BY <1>4, <1>5, <1>6

LEMMA HeldIsMade ==
  ASSUME NEW c \in Servers, HoldsObject(c)
  PROVE  MakesVersion(c)
BY DEF HoldsObject, MakesVersion

\* The object is stored and its handler goes on.
LEMMA StoreObjectKeeps ==
  ASSUME IntakeInv, NEW c \in Servers, server[c].pc = "upload",
         objects' = objects \union {KeyOf(c)},
         server' = [server EXCEPT ![c].pc = "extract"],
         UNCHANGED <<essay, allowed>>
  PROVE  IntakeInv'
<1>1. PICK call \in IntakeCall :
        /\ server' = [server EXCEPT ![c] = call]
        /\ call.pc = "extract" /\ call.op = server[c].op /\ call.essay = server[c].essay
        /\ call.n = server[c].n /\ call.file = server[c].file
  BY MoveCall DEF IntakeInv
<1>2. /\ server' \in [Servers -> IntakeCall]
      /\ server'[c] = call
      /\ \A d \in Servers \ {c} : server'[d] = server[d]
  BY <1>1, SetCall DEF IntakeInv
<1>3. MakesVersion(c) /\ KeyOf(c) \in Key
  BY KeyIsOwn DEF MakesVersion
<1>4. RowsAndCalls'
  BY <1>2, <1>3 DEF IntakeInv, RowsAndCalls, Latest
<1>5. \A d \in Servers : CallFits(d)'
  <2>. TAKE d \in Servers
  <2>1. CallFits(d)
    BY DEF IntakeInv
  <2>2. CASE d = c
    BY <1>1, <1>2, <1>3, <2>1, <2>2 DEF CallFits, MakesVersion, Saves, Exists, Latest
  <2>3. CASE d # c
    BY <1>2, <2>1, <2>3 DEF CallFits, MakesVersion, Saves, Exists, Latest, Snapshots
  <2>. QED
    BY <2>2, <2>3
<1>6. CallsExclude'
  <2>1. \A d \in Servers : /\ MakesVersion(d)' <=> MakesVersion(d)
                           /\ Saves(d)' <=> Saves(d)
                           /\ server'[d].essay = server[d].essay
                           /\ server'[d].n = server[d].n
    BY <1>1, <1>2, <1>3 DEF MakesVersion, Saves
  <2>. QED
    BY <2>1 DEF IntakeInv, CallsExclude
<1>7. ObjectsAreOwned'
  <2>1. \A d \in Servers : KeyOf(d)' = KeyOf(d)
    BY <1>1, <1>2 DEF KeyOf
  <2>2. \A d \in Servers : HoldsObject(d)' <=> HoldsObject(d) \/ d = c
    BY <1>1, <1>2 DEF HoldsObject
  <2>3. \A e \in DOMAIN essay' : \A n \in 1 .. Latest(e)' : FileOf(e, n)' # NoFile =>
          FileOf(e, n)' \in objects' /\ FileOf(e, n)'[1] = e /\ FileOf(e, n)'[2] = n
    BY DEF IntakeInv, ObjectsAreOwned, FileOf, Latest
  <2>4. \A d \in Servers : HoldsObject(d)' => KeyOf(d)' \in objects'
    BY <2>1, <2>2 DEF IntakeInv, ObjectsAreOwned
  <2>5. ASSUME allowed'.clean, NEW key \in objects'
        PROVE  \/ \E e \in DOMAIN essay' : \E n \in 1 .. Latest(e)' : FileOf(e, n)' = key
               \/ \E d \in Servers : HoldsObject(d)' /\ KeyOf(d)' = key
    <3>1. CASE key = KeyOf(c)
      BY <2>1, <2>2, <3>1
    <3>2. CASE key \in objects
      BY <2>1, <2>2, <2>5, <3>2 DEF IntakeInv, ObjectsAreOwned, FileOf, Latest
    <3>. QED
      BY <3>1, <3>2
  <2>. QED
    BY <2>3, <2>4, <2>5 DEF ObjectsAreOwned
<1>8. SignalsFollow'
  BY DEF IntakeInv, SignalsFollow, Latest, FaithfulVersion, Snapshots
<1>. QED
  BY <1>4, <1>5, <1>6, <1>7, <1>8 DEF IntakeInv

\* The object is removed and the call ends.
LEMMA RemoveObjectKeeps ==
  ASSUME IntakeInv, NEW c \in Servers, HoldsObject(c),
         objects' = objects \ {KeyOf(c)}, Reply(c), UNCHANGED essay,
         allowed' \in IntakeBound, allowed'.clean => allowed.clean
  PROVE  IntakeInv'
<1>1. /\ server' = [server EXCEPT ![c] = Free]
      /\ CallFits(c)' /\ ~ MakesVersion(c)' /\ ~ Saves(c)' /\ ~ HoldsObject(c)'
  BY EndFits DEF IntakeInv
<1>2. /\ server' \in [Servers -> IntakeCall]
      /\ \A d \in Servers \ {c} : server'[d] = server[d]
  BY <1>1, SetCall, FreeIsIdle DEF IntakeInv
<1>3. /\ MakesVersion(c)
      /\ \A e \in DOMAIN essay : \A n \in 1 .. Latest(e) : FileOf(e, n) # KeyOf(c)
      /\ \A d \in Servers \ {c} : HoldsObject(d) => KeyOf(d) # KeyOf(c)
  BY HeldIsMade, KeyIsOwn
<1>4. RowsAndCalls'
  BY <1>2 DEF IntakeInv, RowsAndCalls, Latest
<1>5. \A d \in Servers : CallFits(d)'
  <2>. TAKE d \in Servers
  <2>1. CASE d = c
    BY <1>1, <2>1
  <2>2. CASE d # c
    <3>1. server'[d] = server[d] /\ CallFits(d)
      BY <1>2, <2>2 DEF IntakeInv
    <3>. QED
      BY <3>1 DEF CallFits, MakesVersion, Saves, Exists, Latest, Snapshots
  <2>. QED
    BY <2>1, <2>2
<1>6. CallsExclude'
  BY <1>1, <1>2 DEF IntakeInv, CallsExclude, MakesVersion, Saves
<1>7. ObjectsAreOwned'
  <2>1. \A d \in Servers \ {c} : (HoldsObject(d)' <=> HoldsObject(d)) /\ KeyOf(d)' = KeyOf(d)
    BY <1>2 DEF HoldsObject, KeyOf
  <2>2. \A e \in DOMAIN essay' : \A n \in 1 .. Latest(e)' : FileOf(e, n)' # NoFile =>
          FileOf(e, n)' \in objects' /\ FileOf(e, n)'[1] = e /\ FileOf(e, n)'[2] = n
    BY <1>3 DEF IntakeInv, ObjectsAreOwned, FileOf, Latest
  <2>3. \A d \in Servers : HoldsObject(d)' => KeyOf(d)' \in objects'
    BY <1>1, <1>3, <2>1 DEF IntakeInv, ObjectsAreOwned
  <2>4. ASSUME allowed'.clean, NEW key \in objects'
        PROVE  \/ \E e \in DOMAIN essay' : \E n \in 1 .. Latest(e)' : FileOf(e, n)' = key
               \/ \E d \in Servers : HoldsObject(d)' /\ KeyOf(d)' = key
    <3>1. key \in objects /\ key # KeyOf(c) /\ allowed.clean
      BY <2>4
    <3>. QED
      BY <2>1, <3>1 DEF IntakeInv, ObjectsAreOwned, FileOf, Latest
  <2>. QED
    BY <2>2, <2>3, <2>4 DEF ObjectsAreOwned
<1>8. SignalsFollow'
  BY DEF IntakeInv, SignalsFollow, Latest, FaithfulVersion, Snapshots
<1>. QED
  BY <1>4, <1>5, <1>6, <1>7, <1>8 DEF IntakeInv

LEMMA CleanUpKeeps ==
  ASSUME IntakeInv, NEW c \in Servers, HoldsObject(c), CleanUp(c), Reply(c), UNCHANGED essay
  PROVE  IntakeInv'
<1>1. CASE objects' = objects \ {KeyOf(c)} /\ UNCHANGED allowed
  <2>1. allowed' \in IntakeBound /\ (allowed'.clean => allowed.clean)
    BY <1>1 DEF IntakeInv, RowsAndCalls
  <2>. QED
    BY <1>1, <2>1, RemoveObjectKeeps
<1>2. CASE Failure(FALSE) /\ UNCHANGED objects
  BY <1>2, FailKeeps
<1>. QED
  BY <1>1, <1>2 DEF CleanUp

LEMMA UploadKeeps ==
  ASSUME IntakeInv, NEW c \in Servers, Upload(c)
  PROVE  IntakeInv'
<1>1. CASE Failure(TRUE) /\ Reply(c) /\ UNCHANGED objects
  <2>1. ~ HoldsObject(c) /\ UNCHANGED <<essay, objects>>
    BY <1>1 DEF Upload, HoldsObject
  <2>. QED
    BY <1>1, <2>1, FailKeeps
<1>2. CASE /\ objects' = objects \union {KeyOf(c)}
           /\ server' = [server EXCEPT ![c].pc = "extract"]
           /\ UNCHANGED allowed
  BY <1>2, StoreObjectKeeps DEF Upload
<1>. QED
  BY <1>1, <1>2 DEF Upload

LEMMA ExtractKeeps ==
  ASSUME IntakeInv, NEW c \in Servers, Extract(c)
  PROVE  IntakeInv'
<1>1. HoldsObject(c) /\ MakesVersion(c) /\ ~ Saves(c) /\ server[c].pc = "extract"
  BY DEF Extract, HoldsObject, MakesVersion, Saves
<1>2. CASE server' = [server EXCEPT ![c].pc = "commit"] /\ UNCHANGED <<objects, allowed>>
  <2>1. PICK call \in IntakeCall :
          /\ server' = [server EXCEPT ![c] = call]
          /\ call.pc = "commit" /\ call.op = server[c].op /\ call.essay = server[c].essay
          /\ call.n = server[c].n /\ call.file = server[c].file
    BY <1>2, MoveCall DEF IntakeInv
  <2>2. server'[c] = call
    BY <2>1, SetCall DEF IntakeInv
  <2>3. UNCHANGED <<essay, objects, allowed>>
    BY <1>2 DEF Extract
  <2>4. CallFits(c)'
    <3>1. CallFits(c)
      BY DEF IntakeInv
    <3>. QED
      BY <1>1, <2>1, <2>2, <2>3, <3>1 DEF CallFits, MakesVersion, Saves, Exists, Latest
  <2>5. HoldsObject(c)' /\ KeyOf(c)' = KeyOf(c) /\ ~ Saves(c)'
    BY <2>1, <2>2 DEF HoldsObject, KeyOf, Saves
  <2>6. \A d \in Servers \ {c} : MakesVersion(d) => server[d].essay # call.essay
    BY <1>1, <2>1 DEF IntakeInv, CallsExclude
  <2>7. allowed' \in IntakeBound /\ (allowed'.clean => allowed.clean)
    BY <2>3 DEF IntakeInv, RowsAndCalls
  <2>. QED
    BY <1>1, <2>1, <2>3, <2>4, <2>5, <2>6, <2>7, CallMoves
<1>3. CASE CleanUp(c) /\ Reply(c)
  BY <1>1, <1>3, CleanUpKeeps DEF Extract
<1>. QED
  BY <1>2, <1>3 DEF Extract

---------------------------------------------------------------------------
(* New rows and new versions *)

\* A handler commits a new essay: an upload with the object it holds, a composed
\* one without.
LEMMA NewRowKeeps ==
  ASSUME IntakeInv, NEW c \in Servers, NEW e \in EssayIds, NEW row \in EssayRow,
         ~ Exists(e),
         Len(row.versions) = 1, row.versions[1].signals = NoSignals,
         row.student # NoStudent => row.status = "queued",
         \/ row.versions[1].file = NoFile /\ ~ HoldsObject(c)
         \/ /\ HoldsObject(c) /\ row.versions[1].file = KeyOf(c)
            /\ server[c].essay = e /\ server[c].n = 1,
         \A d \in Servers \ {c} : MakesVersion(d) => server[d].essay # e,
         essay' = WithRow(e, row), Reply(c), UNCHANGED objects,
         allowed' \in IntakeBound, allowed'.clean => allowed.clean
  PROVE  IntakeInv'
<1>1. /\ server' = [server EXCEPT ![c] = Free]
      /\ CallFits(c)' /\ ~ MakesVersion(c)' /\ ~ Saves(c)' /\ ~ HoldsObject(c)'
  BY EndFits DEF IntakeInv
<1>2. /\ server' \in [Servers -> IntakeCall]
      /\ \A d \in Servers \ {c} : server'[d] = server[d]
  BY <1>1, SetCall, FreeIsIdle DEF IntakeInv
<1>3. /\ DOMAIN essay' = DOMAIN essay \union {e}
      /\ essay' \in [DOMAIN essay' -> EssayRow]
      /\ essay'[e] = row
      /\ \A f \in DOMAIN essay : essay'[f] = essay[f] /\ f # e
  BY RowAdded DEF IntakeInv
<1>4. Limit \in Nat /\ 1 \in 1 .. Limit + 1
  BY IntakeAssumption
<1>5. RowsAndCalls'
  <2>1. ASSUME NEW f \in DOMAIN essay'
        PROVE  /\ Latest(f)' \in 1 .. Limit + 1
               /\ essay'[f].student # NoStudent => essay'[f].status = "queued"
    <3>1. CASE f \in DOMAIN essay
      BY <1>3, <3>1 DEF IntakeInv, RowsAndCalls, Latest
    <3>2. CASE f = e
      BY <1>3, <1>4, <3>2 DEF Latest
    <3>. QED
      BY <1>3, <3>1, <3>2
  <2>2. DOMAIN essay' \subseteq EssayIds
    BY <1>3 DEF IntakeInv, RowsAndCalls
  <2>. QED
    BY <1>2, <1>3, <2>1, <2>2 DEF IntakeInv, RowsAndCalls
<1>6. \A d \in Servers : CallFits(d)'
  <2>. TAKE d \in Servers
  <2>1. CASE d = c
    BY <1>1, <2>1
  <2>2. CASE d # c
    <3>1. server'[d] = server[d] /\ CallFits(d)
      BY <1>2, <2>2 DEF IntakeInv
    <3>2. MakesVersion(d) => server[d].essay # e
      BY <2>2
    <3>. QED
      BY <1>3, <3>1, <3>2 DEF CallFits, MakesVersion, Saves, Exists, Latest, Snapshots
  <2>. QED
    BY <2>1, <2>2
<1>7. CallsExclude'
  BY <1>1, <1>2 DEF IntakeInv, CallsExclude, MakesVersion, Saves
<1>8. ObjectsAreOwned'
  <2>1. \A d \in Servers \ {c} : (HoldsObject(d)' <=> HoldsObject(d)) /\ KeyOf(d)' = KeyOf(d)
    BY <1>2 DEF HoldsObject, KeyOf
  <2>2. \A f \in DOMAIN essay : Latest(f)' = Latest(f) /\ \A n \in 1 .. Latest(f) :
          FileOf(f, n)' = FileOf(f, n)
    BY <1>3 DEF Latest, FileOf
  <2>3. Latest(e)' = 1 /\ FileOf(e, 1)' = row.versions[1].file
    BY <1>3 DEF Latest, FileOf
  <2>4. HoldsObject(c) => KeyOf(c) \in objects
    BY DEF IntakeInv, ObjectsAreOwned
  <2>5. ASSUME NEW f \in DOMAIN essay', NEW n \in 1 .. Latest(f)', FileOf(f, n)' # NoFile
        PROVE  FileOf(f, n)' \in objects' /\ FileOf(f, n)'[1] = f /\ FileOf(f, n)'[2] = n
    <3>1. CASE f \in DOMAIN essay
      BY <2>2, <2>5, <3>1 DEF IntakeInv, ObjectsAreOwned
    <3>2. CASE f = e
      <4>1. n = 1
        BY <2>3, <3>2
      <4>. QED
        BY <2>3, <2>4, <2>5, <3>2, <4>1 DEF KeyOf
    <3>. QED
      BY <1>3, <3>1, <3>2
  <2>6. \A d \in Servers : HoldsObject(d)' => KeyOf(d)' \in objects'
    BY <1>1, <2>1 DEF IntakeInv, ObjectsAreOwned
  <2>7. ASSUME allowed'.clean, NEW key \in objects'
        PROVE  \/ \E f \in DOMAIN essay' : \E n \in 1 .. Latest(f)' : FileOf(f, n)' = key
               \/ \E d \in Servers : HoldsObject(d)' /\ KeyOf(d)' = key
    <3>1. CASE \E f \in DOMAIN essay : \E n \in 1 .. Latest(f) : FileOf(f, n) = key
      <4>1. PICK f \in DOMAIN essay : \E n \in 1 .. Latest(f) : FileOf(f, n) = key
        BY <3>1
      <4>2. f \in DOMAIN essay'
        BY <1>3
      <4>. QED
        BY <2>2, <4>1, <4>2
    <3>2. CASE \E d \in Servers : HoldsObject(d) /\ KeyOf(d) = key
      <4>1. PICK d \in Servers : HoldsObject(d) /\ KeyOf(d) = key
        BY <3>2
      <4>2. CASE d = c
        <5>1. e \in DOMAIN essay' /\ 1 \in 1 .. Latest(e)'
          BY <1>3, <2>3
        <5>. QED
          BY <2>3, <4>1, <4>2, <5>1
      <4>3. CASE d # c
        BY <2>1, <4>1, <4>3
      <4>. QED
        BY <4>2, <4>3
    <3>3. key \in objects /\ allowed.clean
      BY <2>7
    <3>. QED
      BY <3>1, <3>2, <3>3 DEF IntakeInv, ObjectsAreOwned
  <2>. QED
    BY <2>5, <2>6, <2>7 DEF ObjectsAreOwned
<1>9. SignalsFollow'
  <2>1. ASSUME NEW f \in DOMAIN essay', NEW n \in 1 .. Latest(f)'
        PROVE  FaithfulVersion(essay'[f].versions[n])
    <3>1. CASE f \in DOMAIN essay
      BY <1>3, <3>1 DEF IntakeInv, SignalsFollow, Latest
    <3>2. CASE f = e
      <4>1. Latest(f)' = 1
        BY <1>3, <3>2 DEF Latest
      <4>2. n = 1
        BY <4>1
      <4>. QED
        BY <1>3, <3>2, <4>2 DEF FaithfulVersion
    <3>. QED
      BY <1>3, <3>1, <3>2
  <2>. QED
    BY <2>1 DEF SignalsFollow, FaithfulVersion, Snapshots
<1>. QED
  BY <1>5, <1>6, <1>7, <1>8, <1>9 DEF IntakeInv

LEMMA NewRowType ==
  ASSUME NEW student \in Roster \union {NoStudent}, NEW file \in Key \union {NoFile},
         NEW snapshots \in Seq(Snapshot) \union {NoSnapshots},
         NEW row, row = [student |-> student, status |-> FirstStatus(student),
                         versions |-> <<NewVersion(file, snapshots)>>]
  PROVE  /\ row \in EssayRow /\ Len(row.versions) = 1
         /\ row.versions[1].signals = NoSignals /\ row.versions[1].file = file
         /\ row.student # NoStudent => row.status = "queued"
<1>1. NewVersion(file, snapshots) \in VersionRow
  BY DEF NewVersion, VersionRow
<1>2. FirstStatus(student) \in {"unassigned", "queued"}
  BY DEF FirstStatus
<1>3. <<NewVersion(file, snapshots)>> \in Seq(VersionRow)
  BY <1>1
<1>4. row \in EssayRow
  BY <1>2, <1>3 DEF EssayRow
<1>. QED
  BY <1>4 DEF NewVersion, FirstStatus

LEMMA MatchIsOnRoster ==
  ASSUME NEW resembled \in SUBSET SUBSET Roster
  PROVE  MatchStudent(resembled) \in Roster \union {NoStudent}
<1>. DEFINE candidates == Roster \intersect UNION resembled
<1>1. Cardinality(candidates) = 1 => candidates # {}
  BY FS_EmptySet
<1>. QED
  BY <1>1 DEF MatchStudent

LEMMA CommitIngestKeeps ==
  ASSUME IntakeInv, NEW c \in Servers, CommitIngest(c)
  PROVE  IntakeInv'
<1>. DEFINE e == server[c].essay
<1>1. HoldsObject(c) /\ MakesVersion(c) /\ server[c].op = "ingest"
  BY DEF CommitIngest, HoldsObject, MakesVersion
<1>2. e \in EssayIds /\ ~ Exists(e) /\ server[c].n = 1
  BY <1>1 DEF IntakeInv, CallFits
<1>3. Reply(c) /\ UNCHANGED objects
  BY DEF CommitIngest
<1>4. CASE Failure(FALSE) /\ UNCHANGED essay
  BY <1>3, <1>4, FailKeeps
<1>5. CASE /\ \E resembled \in SUBSET SUBSET Roster :
                LET student == IF server[c].student = NoStudent THEN MatchStudent(resembled)
                               ELSE server[c].student
                IN essay' = WithRow(e, [student |-> student, status |-> FirstStatus(student),
                                        versions |-> <<NewVersion(KeyOf(c), NoSnapshots)>>])
           /\ UNCHANGED allowed
  <2>1. PICK resembled \in SUBSET SUBSET Roster :
          LET student == IF server[c].student = NoStudent THEN MatchStudent(resembled)
                         ELSE server[c].student
          IN essay' = WithRow(e, [student |-> student, status |-> FirstStatus(student),
                                  versions |-> <<NewVersion(KeyOf(c), NoSnapshots)>>])
    BY <1>5
  <2>. DEFINE student == IF server[c].student = NoStudent THEN MatchStudent(resembled)
                         ELSE server[c].student
              row == [student |-> student, status |-> FirstStatus(student),
                      versions |-> <<NewVersion(KeyOf(c), NoSnapshots)>>]
  <2>2. essay' = WithRow(e, row)
    BY <2>1
  <2>3. student \in Roster \union {NoStudent}
    BY MatchIsOnRoster DEF IntakeInv, RowsAndCalls, IntakeCall
  <2>4. KeyOf(c) \in Key
    BY <1>1, KeyIsOwn
  <2>. HIDE DEF student
  <2>5. /\ row \in EssayRow /\ Len(row.versions) = 1
        /\ row.versions[1].signals = NoSignals /\ row.versions[1].file = KeyOf(c)
        /\ row.student # NoStudent => row.status = "queued"
    BY <2>3, <2>4, NewRowType
  <2>6. \A d \in Servers \ {c} : MakesVersion(d) => server[d].essay # e
    BY <1>1 DEF IntakeInv, CallsExclude
  <2>7. allowed' \in IntakeBound /\ (allowed'.clean => allowed.clean)
    BY <1>5 DEF IntakeInv, RowsAndCalls
  <2>. HIDE DEF row, e
  <2>. QED
    BY <1>1, <1>2, <1>3, <2>2, <2>5, <2>6, <2>7, NewRowKeeps DEF e
<1>. QED
  BY <1>4, <1>5 DEF CommitIngest

LEMMA ComposeKeeps ==
  ASSUME IntakeInv, NEW c \in Servers, NEW e \in EssayIds,
         NEW student \in Roster \union {NoStudent}, Compose(c, e, student)
  PROVE  IntakeInv'
<1>. DEFINE row == [student |-> student, status |-> FirstStatus(student),
                    versions |-> <<NewVersion(NoFile, <<>>)>>]
<1>1. /\ Idle(c) /\ ~ Exists(e) /\ Reply(c) /\ UNCHANGED objects
      /\ essay' = WithRow(e, row)
  BY DEF Compose, Receive, Unused, Reply
<1>2. allowed' \in IntakeBound /\ (allowed'.clean => allowed.clean)
  BY CallsShrink DEF Compose, Receive, IntakeInv
<1>3. /\ row \in EssayRow /\ Len(row.versions) = 1
      /\ row.versions[1].signals = NoSignals /\ row.versions[1].file = NoFile
      /\ row.student # NoStudent => row.status = "queued"
  <2>1. <<>> \in Seq(Snapshot)
    OBVIOUS
  <2>. QED
    BY <2>1, NewRowType
<1>4. \A d \in Servers : MakesVersion(d) => server[d].essay # e
  BY DEF Compose, Unused, Serving, Idle, MakesVersion
<1>5. ~ HoldsObject(c)
  BY <1>1 DEF Idle, HoldsObject
<1>. HIDE DEF row
<1>. QED
  BY <1>1, <1>2, <1>3, <1>4, <1>5, NewRowKeeps

\* A resubmission adds its version at the end.
WithVersion(e, version) ==
  [essay EXCEPT ![e].versions = Append(@, version), ![e].status = "queued"]

LEMMA VersionAppended ==
  ASSUME RowsAndCalls, NEW e \in DOMAIN essay, NEW version \in VersionRow,
         essay' = WithVersion(e, version)
  PROVE  /\ DOMAIN essay' = DOMAIN essay
         /\ essay' \in [DOMAIN essay' -> EssayRow]
         /\ essay'[e].status = "queued"
         /\ Latest(e)' = Latest(e) + 1
         /\ essay'[e].versions[Latest(e) + 1] = version
         /\ \A n \in 1 .. Latest(e) : essay'[e].versions[n] = essay[e].versions[n]
         /\ \A f \in DOMAIN essay : f # e => essay'[f] = essay[f]
<1>. DEFINE versions == Append(essay[e].versions, version)
            row == [essay[e] EXCEPT !.versions = versions, !.status = "queued"]
<1>1. essay[e] \in EssayRow /\ essay[e].versions \in Seq(VersionRow)
  BY DEF RowsAndCalls, EssayRow
<1>2. /\ versions \in Seq(VersionRow) /\ Len(versions) = Latest(e) + 1
      /\ versions[Latest(e) + 1] = version
      /\ \A n \in 1 .. Latest(e) : versions[n] = essay[e].versions[n]
  BY <1>1 DEF Latest
<1>3. essay' = [essay EXCEPT ![e] = row]
  BY DEF RowsAndCalls, WithVersion
<1>. HIDE DEF versions
<1>4. row \in EssayRow /\ row.versions = versions /\ row.status = "queued"
  BY <1>1, <1>2 DEF EssayRow
<1>. HIDE DEF row
<1>5. /\ DOMAIN essay' = DOMAIN essay
      /\ essay' \in [DOMAIN essay' -> EssayRow]
      /\ essay'[e] = row
      /\ \A f \in DOMAIN essay : f # e => essay'[f] = essay[f]
  BY <1>3, <1>4, RowChanged
<1>. QED
  BY <1>2, <1>4, <1>5 DEF Latest

LEMMA AppendVersionKeeps ==
  ASSUME IntakeInv, NEW c \in Servers, NEW e, e = server[c].essay,
         HoldsObject(c), server[c].op = "resubmit",
         essay' = WithVersion(e, NewVersion(KeyOf(c), NoSnapshots)),
         Reply(c), UNCHANGED <<objects, allowed>>
  PROVE  IntakeInv'
<1>. DEFINE version == NewVersion(KeyOf(c), NoSnapshots)
<1>1. /\ server' = [server EXCEPT ![c] = Free]
      /\ CallFits(c)' /\ ~ MakesVersion(c)' /\ ~ Saves(c)' /\ ~ HoldsObject(c)'
  BY EndFits DEF IntakeInv
<1>2. /\ server' \in [Servers -> IntakeCall]
      /\ \A d \in Servers \ {c} : server'[d] = server[d]
  BY <1>1, SetCall, FreeIsIdle DEF IntakeInv
<1>3. /\ MakesVersion(c) /\ e \in DOMAIN essay
      /\ server[c].n = Latest(e) + 1 /\ Latest(e) + 1 \in 1 .. Limit + 1 /\ Latest(e) \in Nat
  <2>1. MakesVersion(c) /\ CallFits(c)
    BY HeldIsMade DEF IntakeInv
  <2>2. e \in DOMAIN essay /\ server[c].n = Latest(e) + 1 /\ server[c].n <= Limit + 1
    BY <2>1 DEF CallFits, Exists
  <2>3. Latest(e) \in 1 .. Limit + 1 /\ Limit \in Nat
    BY <2>2, IntakeAssumption DEF IntakeInv, RowsAndCalls
  <2>. QED
    BY <2>1, <2>2, <2>3
<1>4. version \in VersionRow /\ version.file = KeyOf(c) /\ version.signals = NoSignals
  BY <1>3, KeyIsOwn DEF NewVersion, VersionRow
<1>5. /\ DOMAIN essay' = DOMAIN essay
      /\ essay' \in [DOMAIN essay' -> EssayRow]
      /\ essay'[e].status = "queued"
      /\ Latest(e)' = Latest(e) + 1
      /\ essay'[e].versions[Latest(e) + 1] = version
      /\ \A n \in 1 .. Latest(e) : essay'[e].versions[n] = essay[e].versions[n]
      /\ \A f \in DOMAIN essay : f # e => essay'[f] = essay[f]
  <2>1. essay' = WithVersion(e, version)
    OBVIOUS
  <2>. HIDE DEF version
  <2>. QED
    BY <1>3, <1>4, <2>1, VersionAppended DEF IntakeInv
<1>. HIDE DEF version
<1>6. RowsAndCalls'
  <2>1. ASSUME NEW f \in DOMAIN essay'
        PROVE  /\ Latest(f)' \in 1 .. Limit + 1
               /\ essay'[f].student # NoStudent => essay'[f].status = "queued"
    <3>1. CASE f # e
      BY <1>5, <3>1 DEF IntakeInv, RowsAndCalls, Latest
    <3>2. CASE f = e
      BY <1>3, <1>5, <3>2
    <3>. QED
      BY <3>1, <3>2
  <2>. QED
    BY <1>2, <1>5, <2>1 DEF IntakeInv, RowsAndCalls
<1>7. \A d \in Servers : CallFits(d)'
  <2>. TAKE d \in Servers
  <2>1. CASE d = c
    BY <1>1, <2>1
  <2>2. CASE d # c
    <3>1. server'[d] = server[d] /\ CallFits(d)
      BY <1>2, <2>2 DEF IntakeInv
    <3>2. CASE server[d].essay # e
      BY <1>5, <3>1, <3>2 DEF CallFits, MakesVersion, Saves, Exists, Latest, Snapshots
    <3>3. CASE server[d].essay = e
      <4>1. ~ MakesVersion(d)
        BY <1>3, <2>2, <3>3 DEF IntakeInv, CallsExclude
      <4>2. server[d].n \in 1 .. Latest(e) => server[d].n \in 1 .. Latest(e)'
        BY <1>3, <1>5
      <4>. QED
        BY <1>5, <3>1, <3>3, <4>1, <4>2 DEF CallFits, MakesVersion, Saves, Exists, Snapshots
    <3>. QED
      BY <3>2, <3>3
  <2>. QED
    BY <2>1, <2>2
<1>8. CallsExclude'
  BY <1>1, <1>2 DEF IntakeInv, CallsExclude, MakesVersion, Saves
<1>9. \A f \in DOMAIN essay : \A n \in 1 .. Latest(f) :
        /\ n \in 1 .. Latest(f)' /\ essay'[f].versions[n] = essay[f].versions[n]
  <2>. TAKE f \in DOMAIN essay
  <2>. TAKE n \in 1 .. Latest(f)
  <2>1. CASE f = e
    BY <1>3, <1>5, <2>1
  <2>2. CASE f # e
    BY <1>5, <2>2 DEF Latest
  <2>. QED
    BY <2>1, <2>2
<1>10. \A f \in DOMAIN essay' : \A n \in 1 .. Latest(f)' :
         \/ n \in 1 .. Latest(f) /\ essay'[f].versions[n] = essay[f].versions[n]
         \/ f = e /\ n = Latest(e) + 1 /\ essay'[f].versions[n] = version
  <2>. TAKE f \in DOMAIN essay'
  <2>. TAKE n \in 1 .. Latest(f)'
  <2>1. CASE f = e
    <3>1. n \in 1 .. Latest(e) \/ n = Latest(e) + 1
      BY <1>3, <1>5, <2>1
    <3>. QED
      BY <1>5, <2>1, <3>1
  <2>2. CASE f # e
    BY <1>5, <2>2 DEF Latest
  <2>. QED
    BY <2>1, <2>2
<1>11. \A f, n : FileOf(f, n) = essay[f].versions[n].file /\ FileOf(f, n)' = essay'[f].versions[n].file
  BY DEF FileOf
<1>12. ObjectsAreOwned'
  <2>1. \A d \in Servers \ {c} : (HoldsObject(d)' <=> HoldsObject(d)) /\ KeyOf(d)' = KeyOf(d)
    BY <1>2 DEF HoldsObject, KeyOf
  <2>2. KeyOf(c) \in objects /\ KeyOf(c)[1] = e /\ KeyOf(c)[2] = Latest(e) + 1
    BY <1>3 DEF IntakeInv, ObjectsAreOwned, KeyOf
  <2>3. ASSUME NEW f \in DOMAIN essay', NEW n \in 1 .. Latest(f)', FileOf(f, n)' # NoFile
        PROVE  FileOf(f, n)' \in objects' /\ FileOf(f, n)'[1] = f /\ FileOf(f, n)'[2] = n
    <3>1. CASE n \in 1 .. Latest(f) /\ essay'[f].versions[n] = essay[f].versions[n]
      <4>1. FileOf(f, n)' = FileOf(f, n)
        BY <1>11, <3>1
      <4>. QED
        BY <1>5, <2>3, <3>1, <4>1 DEF IntakeInv, ObjectsAreOwned
    <3>2. CASE f = e /\ n = Latest(e) + 1 /\ essay'[f].versions[n] = version
      <4>1. FileOf(f, n)' = KeyOf(c)
        BY <1>4, <1>11, <3>2
      <4>. QED
        BY <2>2, <3>2, <4>1
    <3>. QED
      BY <1>10, <3>1, <3>2
  <2>4. \A d \in Servers : HoldsObject(d)' => KeyOf(d)' \in objects'
    BY <1>1, <2>1 DEF IntakeInv, ObjectsAreOwned
  <2>5. ASSUME allowed'.clean, NEW key \in objects'
        PROVE  \/ \E f \in DOMAIN essay' : \E n \in 1 .. Latest(f)' : FileOf(f, n)' = key
               \/ \E d \in Servers : HoldsObject(d)' /\ KeyOf(d)' = key
    <3>1. CASE \E f \in DOMAIN essay : \E n \in 1 .. Latest(f) : FileOf(f, n) = key
      <4>1. PICK f \in DOMAIN essay : \E n \in 1 .. Latest(f) : FileOf(f, n) = key
        BY <3>1
      <4>2. PICK n \in 1 .. Latest(f) : FileOf(f, n) = key
        BY <4>1
      <4>3. f \in DOMAIN essay' /\ n \in 1 .. Latest(f)' /\ FileOf(f, n)' = key
        BY <1>5, <1>9, <1>11, <4>2
      <4>. QED
        BY <4>3
    <3>2. CASE \E d \in Servers : HoldsObject(d) /\ KeyOf(d) = key
      <4>1. PICK d \in Servers : HoldsObject(d) /\ KeyOf(d) = key
        BY <3>2
      <4>2. CASE d = c
        <5>1. PICK n \in Nat : n = Latest(e) + 1
          BY <1>3
        <5>2. e \in DOMAIN essay' /\ n \in 1 .. Latest(e)'
          BY <1>3, <1>5, <5>1
        <5>3. FileOf(e, n)' = key
          BY <1>4, <1>5, <1>11, <4>1, <4>2, <5>1
        <5>. QED
          BY <5>2, <5>3
      <4>3. CASE d # c
        BY <2>1, <4>1, <4>3
      <4>. QED
        BY <4>2, <4>3
    <3>3. key \in objects /\ allowed.clean
      BY <2>5
    <3>. QED
      BY <3>1, <3>2, <3>3 DEF IntakeInv, ObjectsAreOwned
  <2>. QED
    BY <2>3, <2>4, <2>5 DEF ObjectsAreOwned
<1>13. SignalsFollow'
  <2>1. ASSUME NEW f \in DOMAIN essay', NEW n \in 1 .. Latest(f)'
        PROVE  FaithfulVersion(essay'[f].versions[n])
    <3>1. CASE n \in 1 .. Latest(f) /\ essay'[f].versions[n] = essay[f].versions[n]
      BY <1>5, <3>1 DEF IntakeInv, SignalsFollow
    <3>2. CASE essay'[f].versions[n] = version
      BY <1>4, <3>2 DEF FaithfulVersion
    <3>. QED
      BY <1>10, <3>1, <3>2
  <2>. QED
    BY <2>1 DEF SignalsFollow, FaithfulVersion, Snapshots
<1>. QED
  BY <1>6, <1>7, <1>8, <1>12, <1>13 DEF IntakeInv

LEMMA CommitResubmitKeeps ==
  ASSUME IntakeInv, NEW c \in Servers, CommitResubmit(c)
  PROVE  IntakeInv'
<1>. DEFINE e == server[c].essay
<1>1. HoldsObject(c) /\ MakesVersion(c) /\ server[c].op = "resubmit" /\ Reply(c)
  BY DEF CommitResubmit, HoldsObject, MakesVersion
<1>2. CASE Failure(TRUE) /\ objects' = objects \ {KeyOf(c)} /\ UNCHANGED essay
  <2>1. allowed' \in IntakeBound /\ (allowed'.clean => allowed.clean)
    BY <1>2, FaultsShrink DEF IntakeInv
  <2>. QED
    BY <1>1, <1>2, <2>1, RemoveObjectKeeps
<1>3. CASE CleanUp(c) /\ UNCHANGED essay
  BY <1>1, <1>3, CleanUpKeeps
<1>4. CASE /\ essay' = WithVersion(e, NewVersion(KeyOf(c), NoSnapshots))
           /\ UNCHANGED <<objects, allowed>>
  BY <1>1, <1>4, AppendVersionKeeps
<1>. QED
  BY <1>2, <1>3, <1>4 DEF CommitResubmit, WithVersion

---------------------------------------------------------------------------
(* Changes of one row *)

\* The versions and their files are those of before, snapshots are added and no
\* essay leaves the queue.
SameVersions ==
  /\ DOMAIN essay' = DOMAIN essay
  /\ essay' \in [DOMAIN essay' -> EssayRow]
  /\ \A f \in DOMAIN essay :
       /\ Latest(f)' = Latest(f)
       /\ essay[f].status = "queued" => essay'[f].status = "queued"
       /\ essay'[f].student # NoStudent => essay'[f].status = "queued"
       /\ \A n \in 1 .. Latest(f) :
            /\ essay'[f].versions[n].file = essay[f].versions[n].file
            /\ StartOf(Snapshots(essay[f].versions[n]), Snapshots(essay'[f].versions[n]))
            /\ FaithfulVersion(essay'[f].versions[n])

LEMMA RewriteKeeps ==
  ASSUME IntakeInv, NEW c \in Servers, server[c].pc \in {"assign", "save", "store"},
         SameVersions, Reply(c), UNCHANGED <<objects, allowed>>,
         \A d \in Servers \ {c} : Saves(d) =>
           essay'[server[d].essay].versions[server[d].n].snapshots
             = essay[server[d].essay].versions[server[d].n].snapshots
  PROVE  IntakeInv'
<1>1. /\ server' = [server EXCEPT ![c] = Free]
      /\ CallFits(c)' /\ ~ MakesVersion(c)' /\ ~ Saves(c)' /\ ~ HoldsObject(c)'
  BY EndFits DEF IntakeInv
<1>2. /\ server' \in [Servers -> IntakeCall]
      /\ \A d \in Servers \ {c} : server'[d] = server[d]
  BY <1>1, SetCall, FreeIsIdle DEF IntakeInv
<1>3. ~ HoldsObject(c)
  BY DEF HoldsObject
<1>4. RowsAndCalls'
  BY <1>2 DEF IntakeInv, RowsAndCalls, SameVersions
<1>5. \A d \in Servers : CallFits(d)'
  <2>. TAKE d \in Servers
  <2>1. CASE d = c
    BY <1>1, <2>1
  <2>2. CASE d # c
    <3>. DEFINE e == server[d].essay
                n == server[d].n
    <3>1. server'[d] = server[d] /\ CallFits(d)
      BY <1>2, <2>2 DEF IntakeInv
    <3>2. ASSUME server[d].pc = "store"
          PROVE  StartOf(server[d].snapshots, Snapshots(essay'[e].versions[n]))
      <4>1. /\ e \in DOMAIN essay /\ n \in 1 .. Latest(e) /\ server[d].snapshots \in Seq(Snapshot)
            /\ StartOf(server[d].snapshots, Snapshots(essay[e].versions[n]))
        BY <3>1, <3>2 DEF CallFits, Exists
      <4>2. Snapshots(essay[e].versions[n]) \in Seq(Snapshot)
        BY <4>1, VersionType DEF IntakeInv
      <4>3. Snapshots(essay'[e].versions[n]) \in Seq(Snapshot)
        <5>1. essay'[e] \in EssayRow /\ Len(essay'[e].versions) = Latest(e)
          BY <4>1 DEF SameVersions, Latest
        <5>2. essay'[e].versions[n] \in VersionRow
          BY <4>1, <5>1 DEF EssayRow
        <5>. QED
          BY <5>2, SnapshotsType
      <4>4. StartOf(Snapshots(essay[e].versions[n]), Snapshots(essay'[e].versions[n]))
        BY <4>1 DEF SameVersions
      <4>. QED
        BY <4>1, <4>2, <4>3, <4>4, StartOfLonger
    <3>3. Saves(d) => essay'[e].versions[n].snapshots = essay[e].versions[n].snapshots
      BY <2>2
    <3>4. \A f : Exists(f)' = Exists(f)
      BY DEF SameVersions, Exists
    <3>5. \A f \in DOMAIN essay : /\ Latest(f)' = Latest(f)
                                  /\ essay[f].status = "queued" => essay'[f].status = "queued"
      BY DEF SameVersions
    <3>6. (Saves(d)' <=> Saves(d)) /\ (MakesVersion(d)' <=> MakesVersion(d))
      BY <3>1 DEF Saves, MakesVersion
    <3>7. Saves(d) => server[d].pc = "save"
      BY DEF Saves
    <3>. QED
      BY <3>1, <3>2, <3>3, <3>4, <3>5, <3>6, <3>7 DEF CallFits, Exists, Snapshots
  <2>. QED
    BY <2>1, <2>2
<1>6. CallsExclude'
  BY <1>1, <1>2 DEF IntakeInv, CallsExclude, MakesVersion, Saves
<1>7. ObjectsAreOwned'
  <2>1. \A d \in Servers \ {c} : (HoldsObject(d)' <=> HoldsObject(d)) /\ KeyOf(d)' = KeyOf(d)
    BY <1>2 DEF HoldsObject, KeyOf
  <2>2. \A f \in DOMAIN essay : Latest(f)' = Latest(f) /\ \A n \in 1 .. Latest(f) :
          FileOf(f, n)' = FileOf(f, n)
    BY DEF SameVersions, FileOf
  <2>3. DOMAIN essay' = DOMAIN essay
    BY DEF SameVersions
  <2>4. \A f \in DOMAIN essay' : \A n \in 1 .. Latest(f)' : FileOf(f, n)' # NoFile =>
          FileOf(f, n)' \in objects' /\ FileOf(f, n)'[1] = f /\ FileOf(f, n)'[2] = n
    BY <2>2, <2>3 DEF IntakeInv, ObjectsAreOwned
  <2>5. \A d \in Servers : HoldsObject(d)' => KeyOf(d)' \in objects'
    BY <1>1, <2>1 DEF IntakeInv, ObjectsAreOwned
  <2>6. ASSUME allowed'.clean, NEW key \in objects'
        PROVE  \/ \E f \in DOMAIN essay' : \E n \in 1 .. Latest(f)' : FileOf(f, n)' = key
               \/ \E d \in Servers : HoldsObject(d)' /\ KeyOf(d)' = key
    <3>1. \/ \E f \in DOMAIN essay : \E n \in 1 .. Latest(f) : FileOf(f, n) = key
          \/ \E d \in Servers : HoldsObject(d) /\ KeyOf(d) = key
      BY <2>6 DEF IntakeInv, ObjectsAreOwned
    <3>. QED
      BY <1>3, <2>1, <2>2, <2>3, <3>1
  <2>. QED
    BY <2>4, <2>5, <2>6 DEF ObjectsAreOwned
<1>8. SignalsFollow'
  <2>1. \A f \in DOMAIN essay' : \A n \in 1 .. Latest(f)' : FaithfulVersion(essay'[f].versions[n])
    BY DEF SameVersions
  <2>. QED
    BY <2>1 DEF SignalsFollow, FaithfulVersion, Snapshots
<1>. QED
  BY <1>4, <1>5, <1>6, <1>7, <1>8 DEF IntakeInv

LEMMA AssignSame ==
  ASSUME IntakeInv, NEW c \in Servers, Assign(c)
  PROVE  /\ SameVersions
         /\ \A f \in DOMAIN essay : essay'[f].versions = essay[f].versions
<1>. DEFINE e == server[c].essay
            status == IF server[c].status = "unassigned" THEN "queued" ELSE essay[e].status
            row == [essay[e] EXCEPT !.student = server[c].student, !.status = status]
<1>1. /\ e \in DOMAIN essay /\ server[c].student \in Roster
      /\ server[c].status = "unassigned" \/ essay[e].status = "queued"
  BY DEF IntakeInv, CallFits, Exists, Assign
<1>2. essay[e] \in EssayRow
  BY <1>1 DEF IntakeInv, RowsAndCalls
<1>3. status = "queued"
  BY <1>1
<1>4. essay' = [essay EXCEPT ![e] = row]
  BY <1>1 DEF Assign, IntakeInv, RowsAndCalls
<1>. HIDE DEF status
<1>5. row \in EssayRow /\ row.status = "queued" /\ row.versions = essay[e].versions
  BY <1>1, <1>2, <1>3 DEF EssayRow
<1>. HIDE DEF row
<1>6. /\ DOMAIN essay' = DOMAIN essay
      /\ essay' \in [DOMAIN essay' -> EssayRow]
      /\ essay'[e] = row
      /\ \A f \in DOMAIN essay : f # e => essay'[f] = essay[f]
  BY <1>1, <1>4, <1>5, RowChanged DEF IntakeInv
<1>7. \A f \in DOMAIN essay : essay'[f].versions = essay[f].versions
  BY <1>5, <1>6
<1>8. ASSUME NEW f \in DOMAIN essay
      PROVE  /\ Latest(f)' = Latest(f)
             /\ essay[f].status = "queued" => essay'[f].status = "queued"
             /\ essay'[f].student # NoStudent => essay'[f].status = "queued"
  BY <1>5, <1>6, <1>7 DEF Latest, IntakeInv, RowsAndCalls
<1>9. ASSUME NEW f \in DOMAIN essay, NEW n \in 1 .. Latest(f)
      PROVE  /\ essay'[f].versions[n].file = essay[f].versions[n].file
             /\ StartOf(Snapshots(essay[f].versions[n]), Snapshots(essay'[f].versions[n]))
             /\ FaithfulVersion(essay'[f].versions[n])
  <2>1. Snapshots(essay[f].versions[n]) \in Seq(Snapshot)
    BY VersionType DEF IntakeInv
  <2>2. FaithfulVersion(essay[f].versions[n])
    BY DEF IntakeInv, SignalsFollow
  <2>. QED
    BY <1>7, <2>1, <2>2, StartOfItself
<1>. QED
  BY <1>6, <1>7, <1>8, <1>9 DEF SameVersions

LEMMA AssignKeeps ==
  ASSUME IntakeInv, NEW c \in Servers, Assign(c)
  PROVE  IntakeInv'
<1>1. SameVersions /\ \A f \in DOMAIN essay : essay'[f].versions = essay[f].versions
  BY AssignSame
<1>2. \A d \in Servers \ {c} : Saves(d) =>
        essay'[server[d].essay].versions[server[d].n].snapshots
          = essay[server[d].essay].versions[server[d].n].snapshots
  <2>1. \A d \in Servers : Saves(d) => server[d].essay \in DOMAIN essay
    BY DEF IntakeInv, CallFits, Saves, Exists
  <2>. QED
    BY <1>1, <2>1
<1>. QED
  BY <1>1, <1>2, RewriteKeeps DEF Assign

\* One version of one row is changed.
WithChanged(e, n, version) ==
  [essay EXCEPT ![e] = [essay[e] EXCEPT !.versions = [essay[e].versions EXCEPT ![n] = version]]]

LEMMA VersionChanged ==
  ASSUME IntakeInv, NEW e \in DOMAIN essay, NEW n \in 1 .. Latest(e), NEW version \in VersionRow,
         essay' = WithChanged(e, n, version),
         version.file = essay[e].versions[n].file,
         StartOf(Snapshots(essay[e].versions[n]), Snapshots(version)),
         FaithfulVersion(version)
  PROVE  /\ SameVersions
         /\ essay'[e].versions[n] = version
         /\ \A f \in DOMAIN essay, m \in Nat : f # e \/ m # n =>
              essay'[f].versions[m] = essay[f].versions[m]
<1>. DEFINE versions == [essay[e].versions EXCEPT ![n] = version]
            row == [essay[e] EXCEPT !.versions = versions]
<1>1. /\ essay[e] \in EssayRow /\ essay[e].versions \in Seq(VersionRow)
      /\ Latest(e) = Len(essay[e].versions) /\ Latest(e) \in Nat
  BY VersionType DEF IntakeInv, Latest
<1>2. /\ versions \in Seq(VersionRow) /\ Len(versions) = Latest(e)
      /\ versions[n] = version
      /\ \A m \in Nat : m # n => versions[m] = essay[e].versions[m]
  BY <1>1
<1>. HIDE DEF versions
<1>3. /\ row \in EssayRow /\ row.versions = versions
      /\ row.student = essay[e].student /\ row.status = essay[e].status
  BY <1>1, <1>2 DEF EssayRow
<1>4. essay' = [essay EXCEPT ![e] = row]
  BY DEF versions, WithChanged
<1>. HIDE DEF row
<1>5. /\ DOMAIN essay' = DOMAIN essay
      /\ essay' \in [DOMAIN essay' -> EssayRow]
      /\ essay'[e] = row
      /\ \A f \in DOMAIN essay : f # e => essay'[f] = essay[f]
  BY <1>3, <1>4, RowChanged DEF IntakeInv
<1>6. essay'[e].versions[n] = version
  BY <1>2, <1>3, <1>5
<1>7. \A f \in DOMAIN essay, m \in Nat : f # e \/ m # n =>
        essay'[f].versions[m] = essay[f].versions[m]
  BY <1>2, <1>3, <1>5
<1>8. ASSUME NEW f \in DOMAIN essay
      PROVE  /\ Latest(f)' = Latest(f)
             /\ essay[f].status = "queued" => essay'[f].status = "queued"
             /\ essay'[f].student # NoStudent => essay'[f].status = "queued"
  BY <1>1, <1>2, <1>3, <1>5 DEF Latest, IntakeInv, RowsAndCalls
<1>9. ASSUME NEW f \in DOMAIN essay, NEW m \in 1 .. Latest(f)
      PROVE  /\ essay'[f].versions[m].file = essay[f].versions[m].file
             /\ StartOf(Snapshots(essay[f].versions[m]), Snapshots(essay'[f].versions[m]))
             /\ FaithfulVersion(essay'[f].versions[m])
  <2>1. CASE f = e /\ m = n
    BY <1>6, <2>1
  <2>2. CASE f # e \/ m # n
    <3>1. Snapshots(essay[f].versions[m]) \in Seq(Snapshot) /\ Latest(f) \in Nat
      BY VersionType DEF IntakeInv
    <3>2. FaithfulVersion(essay[f].versions[m])
      BY DEF IntakeInv, SignalsFollow
    <3>3. m \in Nat
      BY <3>1
    <3>4. essay'[f].versions[m] = essay[f].versions[m]
      BY <1>7, <2>2, <3>3
    <3>. QED
      BY <3>1, <3>2, <3>4, StartOfItself
  <2>. QED
    BY <2>1, <2>2
<1>. QED
  BY <1>5, <1>6, <1>7, <1>8, <1>9 DEF SameVersions

LEMMA SaveSame ==
  ASSUME IntakeInv, NEW c \in Servers, NEW words \in WordCounts, NEW delay \in Delays,
         SaveSnapshot(c, words, delay)
  PROVE  /\ SameVersions
         /\ \A f \in DOMAIN essay, m \in Nat : f # server[c].essay \/ m # server[c].n =>
              essay'[f].versions[m] = essay[f].versions[m]
<1>. DEFINE e    == server[c].essay
            n    == server[c].n
            s    == server[c].snapshots
            old  == essay[e].versions[n]
            last == IF s = <<>> THEN 0 ELSE s[Len(s)].at
            next == [at |-> last + delay, words |-> words]
            version == [old EXCEPT !.snapshots = Append(s, next)]
<1>1. /\ e \in DOMAIN essay /\ n \in 1 .. Latest(e)
      /\ s \in Seq(Snapshot) /\ s = old.snapshots
  BY DEF IntakeInv, CallFits, Exists, SaveSnapshot, Saves
<1>2. /\ old \in VersionRow /\ essay[e] \in EssayRow /\ essay[e].versions \in Seq(VersionRow)
      /\ n \in DOMAIN essay[e].versions
  BY <1>1, VersionType DEF IntakeInv, Latest
<1>3. Snapshots(old) = s
  BY <1>1, NullAssumption DEF Snapshots
<1>4. next \in Snapshot
  <2>1. delay \in Int /\ words \in Nat
    BY IntakeAssumption
  <2>2. last \in Int
    <3>1. CASE s = <<>>
      BY <3>1
    <3>2. CASE s # <<>>
      <4>1. s[Len(s)] \in Snapshot
        BY <1>1, <3>2
      <4>. QED
        BY <3>2, <4>1 DEF Snapshot
    <3>. QED
      BY <3>1, <3>2
  <2>. HIDE DEF last
  <2>. QED
    BY <2>1, <2>2 DEF Snapshot
<1>5. essay' = [essay EXCEPT ![e].versions[n].snapshots = Append(s, next)]
  BY DEF SaveSnapshot
<1>. HIDE DEF next
<1>6. Append(s, next) \in Seq(Snapshot) /\ StartOf(s, Append(s, next))
  BY <1>1, <1>4, AppendKeepsStart
<1>7. essay' = WithChanged(e, n, version)
  BY <1>5 DEF WithChanged
<1>8. /\ version \in VersionRow /\ version.file = old.file /\ version.signals = old.signals
      /\ version.snapshots = Append(s, next)
  BY <1>2, <1>6 DEF VersionRow
<1>. HIDE DEF version
<1>9. Snapshots(version) = Append(s, next)
  BY <1>6, <1>8, NullAssumption DEF Snapshots
<1>10. FaithfulVersion(version)
  <2>. SUFFICES ASSUME version.signals # NoSignals
                PROVE  \E t \in Seq(Snapshot) :
                         version.signals = SignalsOf(t) /\ StartOf(t, Snapshots(version))
    BY DEF FaithfulVersion
  <2>1. FaithfulVersion(old)
    BY <1>1 DEF IntakeInv, SignalsFollow
  <2>2. PICK t \in Seq(Snapshot) : old.signals = SignalsOf(t) /\ StartOf(t, s)
    BY <1>3, <1>8, <2>1 DEF FaithfulVersion
  <2>3. StartOf(t, Append(s, next))
    BY <1>1, <1>6, <2>2, StartOfLonger
  <2>. QED
    BY <1>8, <1>9, <2>2, <2>3
<1>11. StartOf(Snapshots(old), Snapshots(version))
  BY <1>3, <1>6, <1>9
<1>. HIDE DEF e, n
<1>. QED
  BY <1>1, <1>7, <1>8, <1>10, <1>11, VersionChanged DEF e, n

LEMMA SaveKeeps ==
  ASSUME IntakeInv, NEW c \in Servers, NEW words \in WordCounts, NEW delay \in Delays,
         SaveSnapshot(c, words, delay)
  PROVE  IntakeInv'
<1>1. /\ SameVersions
      /\ \A f \in DOMAIN essay, m \in Nat : f # server[c].essay \/ m # server[c].n =>
           essay'[f].versions[m] = essay[f].versions[m]
  BY SaveSame
<1>2. Saves(c) /\ server[c].pc = "save" /\ Reply(c) /\ UNCHANGED <<objects, allowed>>
  BY DEF SaveSnapshot, Saves
<1>3. ASSUME NEW d \in Servers \ {c}, Saves(d)
      PROVE  essay'[server[d].essay].versions[server[d].n].snapshots
               = essay[server[d].essay].versions[server[d].n].snapshots
  <2>1. server[d].essay \in DOMAIN essay /\ server[d].n \in Nat
    BY <1>3 DEF IntakeInv, CallFits, Saves, Exists, RowsAndCalls, IntakeCall
  <2>2. server[d].essay # server[c].essay \/ server[d].n # server[c].n
    BY <1>2, <1>3 DEF IntakeInv, CallsExclude
  <2>. QED
    BY <1>1, <2>1, <2>2
<1>. QED
  BY <1>1, <1>2, <1>3, RewriteKeeps

LEMMA StoreSignalsSame ==
  ASSUME IntakeInv, NEW c \in Servers, StoreSignals(c)
  PROVE  /\ SameVersions
         /\ \A f \in DOMAIN essay, m \in Nat : f # server[c].essay \/ m # server[c].n =>
              essay'[f].versions[m] = essay[f].versions[m]
<1>. DEFINE e    == server[c].essay
            n    == server[c].n
            s    == server[c].snapshots
            old  == essay[e].versions[n]
            version == [old EXCEPT !.signals = SignalsOf(s)]
<1>1. /\ e \in DOMAIN essay /\ n \in 1 .. Latest(e)
      /\ s \in Seq(Snapshot) /\ StartOf(s, Snapshots(old))
  BY DEF IntakeInv, CallFits, Exists, StoreSignals
<1>2. /\ old \in VersionRow /\ essay[e] \in EssayRow /\ essay[e].versions \in Seq(VersionRow)
      /\ n \in DOMAIN essay[e].versions /\ Snapshots(old) \in Seq(Snapshot)
  BY <1>1, VersionType DEF IntakeInv, Latest
<1>3. essay' = [essay EXCEPT ![e].versions[n].signals = SignalsOf(s)]
  BY DEF StoreSignals, SignalsOf
<1>4. essay' = WithChanged(e, n, version)
  BY <1>3 DEF WithChanged
<1>5. /\ version \in VersionRow /\ version.file = old.file /\ version.signals = SignalsOf(s)
      /\ version.snapshots = old.snapshots
  BY <1>1, <1>2 DEF VersionRow
<1>. HIDE DEF version
<1>6. Snapshots(version) = Snapshots(old)
  BY <1>5 DEF Snapshots
<1>7. FaithfulVersion(version)
  BY <1>1, <1>5, <1>6 DEF FaithfulVersion
<1>8. StartOf(Snapshots(old), Snapshots(version))
  BY <1>2, <1>6, StartOfItself
<1>. HIDE DEF e, n
<1>. QED
  BY <1>1, <1>4, <1>5, <1>7, <1>8, VersionChanged DEF e, n

LEMMA StoreSignalsKeeps ==
  ASSUME IntakeInv, NEW c \in Servers, StoreSignals(c)
  PROVE  IntakeInv'
<1>1. /\ SameVersions
      /\ \A f \in DOMAIN essay, m \in Nat : f # server[c].essay \/ m # server[c].n =>
           essay'[f].versions[m] = essay[f].versions[m]
  BY StoreSignalsSame
<1>2. server[c].pc = "store" /\ Reply(c) /\ UNCHANGED <<objects, allowed>>
  BY DEF StoreSignals
<1>3. ASSUME NEW d \in Servers \ {c}, Saves(d)
      PROVE  essay'[server[d].essay].versions[server[d].n].snapshots
               = essay[server[d].essay].versions[server[d].n].snapshots
  <2>1. server[d].essay \in DOMAIN essay /\ server[d].n \in Nat
    BY <1>3 DEF IntakeInv, CallFits, Saves, Exists, RowsAndCalls, IntakeCall
  <2>2. server[d].essay # server[c].essay \/ server[d].n # server[c].n
    BY <1>3 DEF StoreSignals, VersionIsFree, Serving, Idle, Saves
  <2>. QED
    BY <1>1, <2>1, <2>2
<1>. QED
  BY <1>1, <1>2, <1>3, RewriteKeeps

LEMMA DieKeeps ==
  ASSUME IntakeInv, NEW c \in Servers, Die(c)
  PROVE  IntakeInv'
BY FailKeeps DEF Die

---------------------------------------------------------------------------
(* The invariant holds *)

LEMMA IntakeInitInv == IntakeInit => IntakeInv
<1>. SUFFICES ASSUME IntakeInit PROVE IntakeInv
  OBVIOUS
<1>1. DOMAIN essay = {} /\ essay \in [DOMAIN essay -> EssayRow]
  BY DEF IntakeInit
<1>2. \A c \in Servers : server[c] = Free
  BY DEF IntakeInit
<1>3. RowsAndCalls
  BY <1>1, FreeIsIdle, IntakeAssumption DEF IntakeInit, RowsAndCalls
<1>4. \A c \in Servers : CallFits(c) /\ ~ MakesVersion(c) /\ ~ Saves(c) /\ ~ HoldsObject(c)
  BY <1>2, FreeIsIdle DEF CallFits, MakesVersion, Saves, HoldsObject
<1>5. CallsExclude
  BY <1>4 DEF CallsExclude
<1>6. ObjectsAreOwned
  BY <1>1, <1>4 DEF IntakeInit, ObjectsAreOwned
<1>7. SignalsFollow
  BY <1>1 DEF SignalsFollow
<1>. QED
  BY <1>3, <1>4, <1>5, <1>6, <1>7 DEF IntakeInv

LEMMA IntakeStutters ==
  ASSUME IntakeInv, UNCHANGED intakeVars
  PROVE  IntakeInv'
<1>1. RowsAndCalls' /\ (\A c \in Servers : CallFits(c)') /\ CallsExclude'
  BY DEF IntakeInv, RowsAndCalls, CallFits, CallsExclude, MakesVersion, Saves, Exists, Latest,
         Snapshots, intakeVars
<1>2. ObjectsAreOwned' /\ SignalsFollow'
  BY DEF IntakeInv, ObjectsAreOwned, SignalsFollow, FaithfulVersion, FileOf, HoldsObject, KeyOf,
         Latest, Snapshots, intakeVars
<1>. QED
  BY <1>1, <1>2 DEF IntakeInv

LEMMA IntakeNextInv == IntakeInv /\ [IntakeNext]_intakeVars => IntakeInv'
<1>. SUFFICES ASSUME IntakeInv, [IntakeNext]_intakeVars PROVE IntakeInv'
  OBVIOUS
<1>1. CASE UNCHANGED intakeVars
  BY <1>1, IntakeStutters
<1>2. CASE IntakeNext
  BY <1>2, StartIngestKeeps, UploadKeeps, ExtractKeeps, CommitIngestKeeps, StartResubmitKeeps,
     CommitResubmitKeeps, StartAssignKeeps, AssignKeeps, ComposeKeeps, LockSnapshotsKeeps,
     SaveKeeps, ReadSignalsKeeps, StoreSignalsKeeps, DieKeeps DEF IntakeNext
<1>. QED
  BY <1>1, <1>2

\* The inductive invariant of intake holds in every behaviour.
THEOREM IntakeIsConsistent == IntakeSpec => []IntakeInv
BY IntakeInitInv, IntakeNextInv, PTL DEF IntakeSpec

LEMMA VersionsAreRows ==
  ASSUME RowsAndCalls
  PROVE  /\ \A v \in Versions : /\ v[1] \in DOMAIN essay /\ v[2] \in 1 .. Latest(v[1])
                                /\ VersionAt(v).file = FileOf(v[1], v[2])
         /\ \A e \in DOMAIN essay : \A n \in 1 .. Latest(e) :
              <<e, n>> \in Versions /\ VersionAt(<<e, n>>).file = FileOf(e, n)
<1>1. \A e \in DOMAIN essay : Latest(e) \in 1 .. Limit + 1 /\ Limit \in Nat
  BY IntakeAssumption DEF RowsAndCalls
<1>. QED
  BY <1>1 DEF Versions, VersionAt, FileOf

\* A stored version has its file in the bucket, under a key of its own, however
\* uploads and resubmissions overlap, fail and clean up; and once no call is
\* running every object belongs to a version (ingest_essay, resubmit_essay).
THEOREM FilesAlwaysMatchVersions == IntakeSpec => []FilesMatchVersions
<1>1. ASSUME IntakeInv PROVE FilesMatchVersions
  <2>1. RowsAndCalls /\ ObjectsAreOwned
    BY <1>1 DEF IntakeInv
  <2>2. Stored \subseteq objects
    BY <2>1, VersionsAreRows DEF ObjectsAreOwned, Stored
  <2>3. ASSUME Serving = {}, allowed.clean, NEW key \in objects
        PROVE  key \in Stored
    <3>1. \A c \in Servers : ~ HoldsObject(c)
      BY <2>3 DEF Serving, Idle, HoldsObject
    <3>2. PICK e \in DOMAIN essay : \E n \in 1 .. Latest(e) : FileOf(e, n) = key
      BY <2>1, <2>3, <3>1 DEF ObjectsAreOwned
    <3>3. PICK n \in 1 .. Latest(e) : FileOf(e, n) = key
      BY <3>2
    <3>4. key # NoFile
      BY <2>1, <2>3, NullAssumption DEF RowsAndCalls
    <3>5. <<e, n>> \in Versions /\ VersionAt(<<e, n>>).file = key
      BY <2>1, <3>3, VersionsAreRows
    <3>. QED
      BY <3>4, <3>5 DEF Stored
  <2>4. \A v \in Versions : VersionAt(v).file # NoFile =>
          VersionAt(v).file[1] = v[1] /\ VersionAt(v).file[2] = v[2]
    BY <2>1, VersionsAreRows DEF ObjectsAreOwned
  <2>. QED
    BY <2>2, <2>3, <2>4 DEF FilesMatchVersions
<1>. QED
  BY <1>1, IntakeIsConsistent, PTL

LEMMA FaithfulIsCurrent ==
  ASSUME NEW version \in VersionRow, FaithfulVersion(version), Cached(version)
  PROVE  version.signals.timeline = Timeline(Snapshots(version))
<1>1. PICK s \in Seq(Snapshot) :
        version.signals = SignalsOf(s) /\ StartOf(s, Snapshots(version))
  BY DEF FaithfulVersion, Cached
<1>2. Len(s) = Len(Snapshots(version)) /\ version.signals.timeline = Timeline(s)
  BY <1>1 DEF SignalsOf, Cached
<1>3. Snapshots(version) \in Seq(Snapshot)
  BY SnapshotsType
<1>4. s = Snapshots(version)
  <2>1. \A i \in 1 .. Len(s) : s[i] = Snapshots(version)[i]
    BY <1>1 DEF StartOf
  <2>. QED
    BY <1>2, <1>3, <2>1, SeqEqual
<1>. QED
  BY <1>2, <1>4

\* Signals served from the cache are those of the snapshots there are now, even
\* though only their number is compared (get_process_signals, save_writing_snapshot).
THEOREM CachedSignalsAreAlwaysCurrent == IntakeSpec => []SignalsAreCurrent
<1>1. ASSUME IntakeInv PROVE SignalsAreCurrent
  <2>. SUFFICES ASSUME NEW v \in Versions, Cached(VersionAt(v))
                PROVE  VersionAt(v).signals.timeline = Timeline(Snapshots(VersionAt(v)))
    BY DEF SignalsAreCurrent
  <2>1. v[1] \in DOMAIN essay /\ v[2] \in 1 .. Latest(v[1])
    BY <1>1, VersionsAreRows DEF IntakeInv
  <2>2. VersionAt(v) \in VersionRow
    BY <1>1, <2>1, VersionType DEF IntakeInv, VersionAt
  <2>3. FaithfulVersion(VersionAt(v))
    BY <1>1, <2>1 DEF IntakeInv, SignalsFollow, VersionAt
  <2>. QED
    BY <2>2, <2>3, FaithfulIsCurrent
<1>. QED
  BY <1>1, IntakeIsConsistent, PTL

---------------------------------------------------------------------------
(* Committed snapshots *)

KeptAt(e, n) ==
  \A i \in DOMAIN Snapshots(essay[e].versions[n]) :
    /\ i \in DOMAIN Snapshots(essay'[e].versions[n])
    /\ Snapshots(essay'[e].versions[n])[i] = Snapshots(essay[e].versions[n])[i]

LEMMA SameVersionIsKept ==
  ASSUME NEW e, NEW n, essay'[e].versions[n] = essay[e].versions[n]
  PROVE  KeptAt(e, n)
BY DEF KeptAt

LEMMA SameVersionsKeep ==
  ASSUME IntakeInv, SameVersions, NEW e \in DOMAIN essay, NEW n \in 1 .. Latest(e)
  PROVE  KeptAt(e, n)
<1>. DEFINE old == Snapshots(essay[e].versions[n])
            new == Snapshots(essay'[e].versions[n])
<1>1. old \in Seq(Snapshot) /\ StartOf(old, new)
  BY VersionType DEF IntakeInv, SameVersions
<1>2. new \in Seq(Snapshot)
  <2>1. essay'[e] \in EssayRow /\ Len(essay'[e].versions) = Latest(e)
    BY DEF SameVersions, Latest
  <2>2. essay'[e].versions[n] \in VersionRow
    BY <2>1 DEF EssayRow
  <2>. QED
    BY <2>2, SnapshotsType
<1>3. \A i \in DOMAIN old : i \in DOMAIN new /\ new[i] = old[i]
  <2>. HIDE DEF old, new
  <2>. QED
    BY <1>1, <1>2 DEF StartOf
<1>. QED
  BY <1>3 DEF KeptAt

LEMMA NewRowKeepsVersions ==
  ASSUME RowsAndCalls, NEW row, NEW e, ~ Exists(e), essay' = WithRow(e, row),
         NEW f \in DOMAIN essay, NEW n \in 1 .. Latest(f)
  PROVE  KeptAt(f, n)
BY SameVersionIsKept DEF WithRow, Exists

LEMMA StepKeepsSnapshots ==
  ASSUME IntakeInv, IntakeNext, NEW e \in DOMAIN essay, NEW n \in 1 .. Latest(e)
  PROVE  KeptAt(e, n)
<1>1. CASE UNCHANGED essay
  BY <1>1, SameVersionIsKept
<1>2. ASSUME NEW c \in Servers, CommitIngest(c), ~ UNCHANGED essay
      PROVE  KeptAt(e, n)
  <2>1. PICK row : essay' = WithRow(server[c].essay, row)
    BY <1>2 DEF CommitIngest
  <2>2. ~ Exists(server[c].essay)
    BY <1>2 DEF CommitIngest, IntakeInv, CallFits, MakesVersion
  <2>. QED
    BY <2>1, <2>2, NewRowKeepsVersions DEF IntakeInv
<1>3. ASSUME NEW c \in Servers, NEW f \in EssayIds, NEW student \in Roster \union {NoStudent},
             Compose(c, f, student)
      PROVE  KeptAt(e, n)
  BY <1>3, NewRowKeepsVersions DEF Compose, Unused, IntakeInv
<1>4. ASSUME NEW c \in Servers, CommitResubmit(c), ~ UNCHANGED essay
      PROVE  KeptAt(e, n)
  <2>. DEFINE f == server[c].essay
  <2>1. essay' = WithVersion(f, NewVersion(KeyOf(c), NoSnapshots))
    BY <1>4 DEF CommitResubmit, WithVersion
  <2>2. f \in DOMAIN essay /\ NewVersion(KeyOf(c), NoSnapshots) \in VersionRow
    <3>1. MakesVersion(c)
      BY <1>4 DEF CommitResubmit, MakesVersion
    <3>2. KeyOf(c) \in Key
      BY <3>1, KeyIsOwn
    <3>. QED
      BY <1>4, <3>1, <3>2 DEF CommitResubmit, IntakeInv, CallFits, Exists, NewVersion, VersionRow
  <2>. HIDE DEF f
  <2>3. /\ \A m \in 1 .. Latest(f) : essay'[f].versions[m] = essay[f].versions[m]
        /\ \A g \in DOMAIN essay : g # f => essay'[g] = essay[g]
    BY <2>1, <2>2, VersionAppended DEF IntakeInv
  <2>4. essay'[e].versions[n] = essay[e].versions[n]
    BY <2>3
  <2>. QED
    BY <2>4, SameVersionIsKept
<1>5. ASSUME NEW c \in Servers, Assign(c) PROVE KeptAt(e, n)
  BY <1>5, AssignSame, SameVersionsKeep
<1>6. ASSUME NEW c \in Servers, NEW words \in WordCounts, NEW delay \in Delays,
             SaveSnapshot(c, words, delay)
      PROVE  KeptAt(e, n)
  BY <1>6, SaveSame, SameVersionsKeep
<1>7. ASSUME NEW c \in Servers, StoreSignals(c) PROVE KeptAt(e, n)
  BY <1>7, StoreSignalsSame, SameVersionsKeep
<1>8. CASE \E c \in Servers :
             \/ \E f \in EssayIds, student \in Roster \union {NoStudent}, file \in Files :
                  StartIngest(c, f, student, file)
             \/ Upload(c) \/ Extract(c) \/ Die(c)
             \/ \E f \in EssayIds, file \in Files : StartResubmit(c, f, file)
             \/ \E f \in EssayIds, student \in Roster : StartAssign(c, f, student)
             \/ \E f \in EssayIds : LockSnapshots(c, f) \/ ReadSignals(c, f)
  <2>1. UNCHANGED essay
    BY <1>8 DEF StartIngest, Upload, Extract, Die, StartResubmit, StartAssign, LockSnapshots,
                ReadSignals
  <2>. QED
    BY <1>1, <2>1
<1>. QED
  BY <1>1, <1>2, <1>3, <1>4, <1>5, <1>6, <1>7, <1>8 DEF IntakeNext

\* What analyze_writing_process makes of any snapshots adds up and has its types,
\* and what get_process_signals has stored is that of the snapshots there are.
THEOREM SignalsAreAlwaysFaithful == IntakeSpec => []SignalsAreFaithful
<1>1. ASSUME IntakeInv PROVE \A v \in Versions : AddsUp(Snapshots(VersionAt(v)))
  <2>. SUFFICES ASSUME NEW v \in Versions PROVE AddsUp(Snapshots(VersionAt(v)))
    OBVIOUS
  <2>1. VersionAt(v) \in VersionRow
    <3>1. v[1] \in DOMAIN essay /\ v[2] \in 1 .. Latest(v[1])
      BY <1>1, VersionsAreRows DEF IntakeInv
    <3>. QED
      BY <1>1, <3>1, VersionType DEF IntakeInv, VersionAt
  <2>2. PICK s \in Seq(Snapshot) : s = Snapshots(VersionAt(v))
    BY <2>1, SnapshotsType
  <2>3. AddsUp(s)
    BY TimelineAddsUp
  <2>. QED
    BY <2>2, <2>3
<1>. QED
  BY <1>1, IntakeIsConsistent, CachedSignalsAreAlwaysCurrent, PTL DEF SignalsAreFaithful

\* Rows of essays and objects have their types, stored signals those that the
\* analysis gives them.
THEOREM IntakeTypesHold == IntakeSpec => []IntakeTypeOK
<1>1. VersionRow \subseteq Version
  <2>. SUFFICES ASSUME NEW row \in VersionRow PROVE row \in Version
    OBVIOUS
  <2>1. row.signals \in Signals \union {NoSignals}
    <3>1. CASE row.signals # NoSignals
      <4>1. PICK s \in Seq(Snapshot) : row.signals = SignalsOf(s)
        BY <3>1 DEF VersionRow
      <4>2. Len(s) \in Nat
        OBVIOUS
      <4>. QED
        BY <4>1, <4>2, TimelineType DEF SignalsOf, Signals
    <3>. QED
      BY <3>1
  <2>. QED
    BY <2>1 DEF VersionRow, Version
<1>2. EssayRow \subseteq Essay
  <2>. SUFFICES ASSUME NEW row \in EssayRow PROVE row \in Essay
    OBVIOUS
  <2>1. row.versions \in Seq(Version)
    <3>1. PICK S : S = VersionRow
      OBVIOUS
    <3>2. PICK T : T = Version
      OBVIOUS
    <3>3. S \subseteq T => Seq(S) \subseteq Seq(T)
      OBVIOUS
    <3>. QED
      BY <1>1, <3>1, <3>2, <3>3 DEF EssayRow
  <2>. QED
    BY <2>1 DEF EssayRow, Essay
<1>3. ASSUME IntakeInv PROVE IntakeTypeOK
  <2>1. RowsAndCalls
    BY <1>3 DEF IntakeInv
  <2>2. \A e \in DOMAIN essay : essay[e] \in Essay
    BY <1>2, <2>1 DEF RowsAndCalls
  <2>. QED
    BY <2>1, <2>2 DEF RowsAndCalls, IntakeTypeOK, IntakeBound
<1>. QED
  BY <1>3, IntakeIsConsistent, PTL

\* A snapshot once committed stays in its place, whatever autosaves and reads of
\* the signals overlap (save_writing_snapshot, get_process_signals).
THEOREM SnapshotsAreAlwaysKept == IntakeSpec => SnapshotsAreKept
<1>. DEFINE Kept == \A v \in Versions : \A i \in DOMAIN Snapshots(VersionAt(v)) :
       LET now == Snapshots(essay'[v[1]].versions[v[2]])
       IN  i \in DOMAIN now /\ now[i] = Snapshots(VersionAt(v))[i]
<1>1. IntakeInv /\ [IntakeNext]_intakeVars => [Kept]_intakeVars
  <2>. SUFFICES ASSUME IntakeInv, IntakeNext PROVE Kept
    OBVIOUS
  <2>1. \A v \in Versions : v[1] \in DOMAIN essay /\ v[2] \in 1 .. Latest(v[1])
    BY VersionsAreRows DEF IntakeInv
  <2>2. \A v \in Versions : KeptAt(v[1], v[2])
    BY <2>1, StepKeepsSnapshots
  <2>. QED
    BY <2>2 DEF KeptAt, VersionAt
<1>2. IntakeSpec => [][Kept]_intakeVars
  BY <1>1, IntakeIsConsistent, PTL DEF IntakeSpec
<1>. QED
  BY <1>2 DEF SnapshotsAreKept

-----------------------------------------------------------------------------
(* The integrity check: the inductive invariant *)

CheckState == [pc      : {"idle", "ask", "record", "embed", "compare", "dedupe", "flag"},
               version : Nat,
               retries : Nat,
               matches : SUBSET Submitted]

Bounds == [faults : Nat, redeliveries : Nat, reviews : Nat]

IntegrityTypes ==
  /\ provider \in {"internal", "originality_ai"}
  /\ embedded \subseteq Submitted
  /\ reports \subseteq Report /\ IsFiniteSet(reports)
  /\ IsABag(tasks) /\ BagToSet(tasks) \subseteq Submitted \X Nat
  /\ checker \in [Checkers -> CheckState]
  /\ \A w \in Checkers : ~ At(w, "idle") => checker[w].version \in Submitted
  /\ may \in Bounds /\ may.faults <= IntegrityFaults

\* One report for each key, inserted one after the other.
ReportsAreNumbered ==
  /\ \A r, q \in reports : r.key = q.key \/ r.created = q.created => r = q
  /\ \A r \in reports : r.created < Cardinality(reports)

Partners(v) == {u \in Submitted : <<u, v>> \in Similar}

\* What a worker has found, or the internal provider has reported, is similar.
MatchesAreSimilar ==
  /\ \A r \in reports : r.key[2] = "internal" =>
       r.matches # {} /\ r.matches \subseteq Partners(r.key[1])
  /\ \A w \in Checkers : At(w, "dedupe") \/ At(w, "flag") =>
       checker[w].matches # {} /\ checker[w].matches \subseteq Partners(checker[w].version)

\* A version that is similar to one other, which is similar to it alone.
Lone(u, v) == Partners(u) = {v} /\ Partners(v) = {u}

Comparing(w, v) ==
  checker[w].pc \in {"compare", "dedupe", "flag"} /\ checker[w].version = v

\* Without a fault no version is forgotten, and the second of a lone pair to be
\* embedded is compared with the first.
NothingIsForgotten ==
  NothingFailed =>
    /\ \A v \in Submitted :
         \/ v \in embedded
         \/ \E task \in BagToSet(tasks) : task[1] = v
         \/ \E w \in Checkers : At(w, "embed") /\ checker[w].version = v
    /\ \A u, v \in embedded : Lone(u, v) =>
         PairIsNamed(u, v) \/ \E w \in Checkers : Comparing(w, u) \/ Comparing(w, v)

IntegrityInv ==
  /\ IntegrityTypes
  /\ ReportsAreNumbered
  /\ MatchesAreSimilar
  /\ NothingIsForgotten
  /\ VerdictsAreKept

---------------------------------------------------------------------------
(* What one step changes *)

LEMMA TaskTaken ==
  ASSUME NEW bag, IsABag(bag), NEW task, BagIn(task, bag)
  PROVE  /\ IsABag(bag (-) SetToBag({task}))
         /\ BagToSet(bag (-) SetToBag({task})) \subseteq BagToSet(bag)
         /\ BagToSet(bag) \ {task} \subseteq BagToSet(bag (-) SetToBag({task}))
BY DEF IsABag, BagToSet, SetToBag, BagIn, (-)

LEMMA TaskAdded ==
  ASSUME NEW bag, IsABag(bag), NEW task
  PROVE  /\ IsABag(bag (+) SetToBag({task}))
         /\ BagToSet(bag (+) SetToBag({task})) = BagToSet(bag) \union {task}
BY DEF IsABag, BagToSet, SetToBag, (+)

LEMMA WorkerMoves ==
  ASSUME IntegrityTypes, NEW w \in Checkers, NEW new \in CheckState,
         checker' = [checker EXCEPT ![w] = new],
         new.pc # "idle" => new.version \in Submitted
  PROVE  /\ checker' \in [Checkers -> CheckState] /\ checker'[w] = new
         /\ \A x \in Checkers \ {w} : checker'[x] = checker[x]
         /\ \A x \in Checkers : checker'[x].pc # "idle" => checker'[x].version \in Submitted
BY DEF IntegrityTypes, At

LEMMA WorkerRests ==
  ASSUME IntegrityTypes, NEW w \in Checkers, Rest(w)
  PROVE  /\ checker' \in [Checkers -> CheckState] /\ checker'[w].pc = "idle"
         /\ \A x \in Checkers \ {w} : checker'[x] = checker[x]
         /\ \A x \in Checkers : checker'[x].pc # "idle" => checker'[x].version \in Submitted
<1>1. Resting \in CheckState /\ Resting.pc = "idle"
  BY DEF Resting, CheckState
<1>. QED
  BY <1>1, WorkerMoves DEF Rest

LEMMA WorkerGoes ==
  ASSUME IntegrityTypes, NEW w \in Checkers, ~ At(w, "idle"),
         NEW pc \in {"ask", "record", "embed", "compare", "dedupe", "flag"}, Go(w, pc)
  PROVE  /\ checker' \in [Checkers -> CheckState] /\ checker'[w].pc = pc
         /\ checker'[w].version = checker[w].version /\ checker'[w].matches = checker[w].matches
         /\ \A x \in Checkers \ {w} : checker'[x] = checker[x]
         /\ \A x \in Checkers : checker'[x].pc # "idle" => checker'[x].version \in Submitted
<1>. DEFINE new == [checker[w] EXCEPT !.pc = pc]
<1>1. checker[w] \in CheckState /\ checker[w].version \in Submitted
  BY DEF IntegrityTypes
<1>2. /\ new \in CheckState /\ new.pc = pc /\ new.version = checker[w].version
      /\ new.matches = checker[w].matches
  BY <1>1 DEF CheckState
<1>3. checker' = [checker EXCEPT ![w] = new]
  BY DEF Go, IntegrityTypes
<1>. HIDE DEF new
<1>. QED
  BY <1>1, <1>2, <1>3, WorkerMoves

LEMMA NoFaultBefore ==
  ASSUME IntegrityTypes, UNCHANGED provider, UNCHANGED may \/ Fault
  PROVE  /\ may' \in Bounds /\ may'.faults <= IntegrityFaults
         /\ NothingFailed' => NothingFailed /\ UNCHANGED may
BY IntegrityAssumption DEF IntegrityTypes, Bounds, Fault, NothingFailed

\* A bound other than that of the faults.
LEMMA NothingFailedStays ==
  ASSUME IntegrityTypes, UNCHANGED provider,
         \/ may' = [may EXCEPT !.redeliveries = @ - 1] /\ may.redeliveries > 0
         \/ may' = [may EXCEPT !.reviews = @ - 1] /\ may.reviews > 0
  PROVE  /\ may' \in Bounds /\ may'.faults <= IntegrityFaults
         /\ NothingFailed' = NothingFailed
BY DEF IntegrityTypes, Bounds, NothingFailed

LEMMA SameReports ==
  ASSUME IntegrityInv, UNCHANGED <<reports, reviewed>>,
         \A x \in Checkers : At(x, "dedupe")' \/ At(x, "flag")' =>
           checker'[x].matches # {} /\ checker'[x].matches \subseteq Partners(checker'[x].version)
  PROVE  ReportsAreNumbered' /\ MatchesAreSimilar' /\ VerdictsAreKept'
BY DEF IntegrityInv, ReportsAreNumbered, MatchesAreSimilar, VerdictsAreKept, Partners, At

LEMMA NamedStays ==
  ASSUME reports \subseteq reports', NEW u, NEW v, PairIsNamed(u, v)
  PROVE  PairIsNamed(u, v)'
BY DEF PairIsNamed

LEMMA EitherWay ==
  ASSUME NEW u, NEW v
  PROVE  PairIsNamed(u, v) = PairIsNamed(v, u) /\ Lone(u, v) = Lone(v, u)
BY DEF PairIsNamed, Lone

\* A worker that does not embed goes on.
LEMMA StillRemembered ==
  ASSUME IntegrityInv, NothingFailed' => NothingFailed, UNCHANGED embedded, UNCHANGED tasks,
         NEW w \in Checkers, \A x \in Checkers \ {w} : checker'[x] = checker[x],
         ~ At(w, "embed"), reports \subseteq reports',
         \A u, v \in embedded : NothingFailed /\ Comparing(w, v) /\ Lone(u, v) =>
           Comparing(w, v)' \/ PairIsNamed(u, v)'
  PROVE  NothingIsForgotten'
<1>. SUFFICES ASSUME NothingFailed'
              PROVE  /\ \A v \in Submitted :
                          \/ v \in embedded'
                          \/ \E task \in BagToSet(tasks') : task[1] = v
                          \/ \E x \in Checkers : At(x, "embed")' /\ checker'[x].version = v
                     /\ \A u, v \in embedded' : Lone(u, v) =>
                          PairIsNamed(u, v)' \/ \E x \in Checkers : Comparing(x, u)' \/ Comparing(x, v)'
  BY DEF NothingIsForgotten, Lone, Partners
<1>1. NothingFailed
  OBVIOUS
<1>2. \A v \in Submitted :
        \/ v \in embedded
        \/ \E task \in BagToSet(tasks) : task[1] = v
        \/ \E x \in Checkers \ {w} : At(x, "embed") /\ checker[x].version = v
  BY <1>1 DEF IntegrityInv, NothingIsForgotten
<1>3. \A x \in Checkers \ {w} : At(x, "embed")' = At(x, "embed")
  BY DEF At
<1>4. ASSUME NEW u \in embedded, NEW v \in embedded, Lone(u, v)
      PROVE  PairIsNamed(u, v)' \/ \E x \in Checkers : Comparing(x, u)' \/ Comparing(x, v)'
  <2>1. CASE PairIsNamed(u, v)
    BY <2>1, NamedStays
  <2>2. ASSUME NEW x \in Checkers, x # w, Comparing(x, u) \/ Comparing(x, v)
        PROVE  Comparing(x, u)' \/ Comparing(x, v)'
    BY <2>2 DEF Comparing
  <2>3. CASE Comparing(w, v)
    BY <1>1, <1>4, <2>3
  <2>4. CASE Comparing(w, u)
    <3>1. Lone(v, u)
      BY <1>4, EitherWay
    <3>2. Comparing(w, u)' \/ PairIsNamed(v, u)'
      BY <1>1, <2>4, <3>1
    <3>. QED
      BY <3>2 DEF PairIsNamed
  <2>. QED
    BY <1>1, <1>4, <2>1, <2>2, <2>3, <2>4 DEF IntegrityInv, NothingIsForgotten
<1>. QED
  BY <1>2, <1>3, <1>4

---------------------------------------------------------------------------
(* The task *)

LEMMA TakeStep ==
  ASSUME IntegrityInv, NEW w \in Checkers, NEW task \in BagToSet(tasks), TakeTask(w, task)
  PROVE  IntegrityInv'
<1>. DEFINE new == [Resting EXCEPT !.pc = IF provider = "internal" THEN "embed" ELSE "ask",
                                   !.version = task[1], !.retries = task[2]]
<1>1. task \in Submitted \X Nat /\ task[1] \in Submitted /\ task[1] \in Nat /\ task[2] \in Nat
  BY IntegrityAssumption DEF IntegrityInv, IntegrityTypes
<1>2. /\ new \in CheckState /\ new.pc = (IF provider = "internal" THEN "embed" ELSE "ask")
      /\ new.version = task[1]
  BY <1>1 DEF Resting, CheckState
<1>3. checker' = [checker EXCEPT ![w] = new] /\ checker[w].pc = "idle"
  BY DEF TakeTask, At
<1>. HIDE DEF new
<1>4. /\ checker' \in [Checkers -> CheckState] /\ checker'[w] = new
      /\ \A x \in Checkers \ {w} : checker'[x] = checker[x]
      /\ \A x \in Checkers : checker'[x].pc # "idle" => checker'[x].version \in Submitted
  BY <1>1, <1>2, <1>3, WorkerMoves DEF IntegrityInv
<1>5. UNCHANGED <<provider, embedded, reports, reviewed, may>>
  BY DEF TakeTask
<1>6. /\ IsABag(tasks') /\ BagToSet(tasks') \subseteq BagToSet(tasks)
      /\ BagToSet(tasks) \ {task} \subseteq BagToSet(tasks')
  BY TaskTaken DEF TakeTask, IntegrityInv, IntegrityTypes
<1>7. may' \in Bounds /\ may'.faults <= IntegrityFaults /\ (NothingFailed' => NothingFailed)
  BY <1>5, NoFaultBefore DEF IntegrityInv
<1>8. IntegrityTypes'
  BY <1>4, <1>5, <1>6, <1>7 DEF IntegrityInv, IntegrityTypes, At
<1>9. ReportsAreNumbered' /\ MatchesAreSimilar' /\ VerdictsAreKept'
  <2>1. \A x \in Checkers : At(x, "dedupe")' \/ At(x, "flag")' =>
          checker'[x].matches # {} /\ checker'[x].matches \subseteq Partners(checker'[x].version)
    BY <1>2, <1>4 DEF IntegrityInv, MatchesAreSimilar, At
  <2>. QED
    BY <1>5, <2>1, SameReports
<1>10. NothingIsForgotten'
  <2>. SUFFICES ASSUME NothingFailed'
                PROVE  /\ \A v \in Submitted :
                            \/ v \in embedded
                            \/ \E t \in BagToSet(tasks') : t[1] = v
                            \/ \E x \in Checkers : At(x, "embed")' /\ checker'[x].version = v
                       /\ \A u, v \in embedded : Lone(u, v) =>
                            PairIsNamed(u, v)' \/ \E x \in Checkers : Comparing(x, u)' \/ Comparing(x, v)'
    BY <1>5 DEF NothingIsForgotten, Lone, Partners
  <2>1. NothingFailed /\ At(w, "embed")' /\ checker'[w].version = task[1]
    BY <1>2, <1>4, <1>7 DEF NothingFailed, At
  <2>2. \A x \in Checkers \ {w} : At(x, "embed")' = At(x, "embed") /\ checker'[x] = checker[x]
    BY <1>4 DEF At
  <2>3. ~ At(w, "embed")
    BY <1>3 DEF At
  <2>4. ASSUME NEW v \in Submitted
        PROVE  \/ v \in embedded
               \/ \E t \in BagToSet(tasks') : t[1] = v
               \/ \E x \in Checkers : At(x, "embed")' /\ checker'[x].version = v
    <3>1. CASE v = task[1]
      BY <2>1, <3>1
    <3>2. CASE v # task[1]
      BY <1>6, <2>1, <2>2, <2>3, <3>2 DEF IntegrityInv, NothingIsForgotten
    <3>. QED
      BY <3>1, <3>2
  <2>5. ASSUME NEW u \in embedded, NEW v \in embedded, Lone(u, v)
        PROVE  PairIsNamed(u, v)' \/ \E x \in Checkers : Comparing(x, u)' \/ Comparing(x, v)'
    <3>1. PairIsNamed(u, v) => PairIsNamed(u, v)'
      BY <1>5, NamedStays
    <3>2. \A x \in Checkers : Comparing(x, u) \/ Comparing(x, v) =>
            Comparing(x, u)' \/ Comparing(x, v)'
      BY <1>3, <1>4 DEF Comparing
    <3>. QED
      BY <2>1, <2>5, <3>1, <3>2 DEF IntegrityInv, NothingIsForgotten
  <2>. QED
    BY <2>4, <2>5
<1>. QED
  BY <1>8, <1>9, <1>10 DEF IntegrityInv

\* A step of a worker that neither embeds nor writes.
LEMMA QuietStep ==
  ASSUME IntegrityInv, NEW w \in Checkers, ~ At(w, "embed"),
         UNCHANGED <<provider, embedded, reports, tasks, reviewed>>,
         UNCHANGED may \/ Fault,
         checker' \in [Checkers -> CheckState],
         \A x \in Checkers \ {w} : checker'[x] = checker[x],
         \A x \in Checkers : checker'[x].pc # "idle" => checker'[x].version \in Submitted,
         checker'[w].pc \in {"dedupe", "flag"} =>
           checker'[w].matches # {} /\ checker'[w].matches \subseteq Partners(checker'[w].version),
         \A u, v \in embedded : NothingFailed' /\ Comparing(w, v) /\ Lone(u, v) =>
           Comparing(w, v)' \/ PairIsNamed(u, v)
  PROVE  IntegrityInv'
<1>1. may' \in Bounds /\ may'.faults <= IntegrityFaults /\ (NothingFailed' => NothingFailed)
  BY NoFaultBefore DEF IntegrityInv
<1>2. IntegrityTypes'
  BY <1>1 DEF IntegrityInv, IntegrityTypes, At
<1>3. ReportsAreNumbered' /\ MatchesAreSimilar' /\ VerdictsAreKept'
  <2>1. \A x \in Checkers : At(x, "dedupe")' \/ At(x, "flag")' =>
          checker'[x].matches # {} /\ checker'[x].matches \subseteq Partners(checker'[x].version)
    BY DEF IntegrityInv, MatchesAreSimilar, At
  <2>. QED
    BY <2>1, SameReports
<1>4. NothingIsForgotten'
  <2>1. CASE NothingFailed'
    <3>1. \A u, v \in embedded : NothingFailed /\ Comparing(w, v) /\ Lone(u, v) =>
            Comparing(w, v)' \/ PairIsNamed(u, v)'
      BY <2>1, NamedStays
    <3>. QED
      BY <1>1, <3>1, StillRemembered
  <2>2. CASE ~ NothingFailed'
    BY <2>2 DEF NothingIsForgotten
  <2>. QED
    BY <2>1, <2>2
<1>. QED
  BY <1>2, <1>3, <1>4 DEF IntegrityInv

LEMMA AskVectorStep ==
  ASSUME IntegrityInv, NEW w \in Checkers, AskProvider(w)
  PROVE  IntegrityInv'
<1>1. /\ At(w, "ask") /\ UNCHANGED <<provider, embedded, reports, tasks, reviewed>>
      /\ UNCHANGED may \/ Fault
      /\ Rest(w) \/ Go(w, "record") \/ Go(w, "embed")
  BY DEF AskProvider
<1>2. ~ At(w, "embed") /\ ~ At(w, "idle") /\ \A v : ~ Comparing(w, v)
  BY <1>1 DEF At, Comparing
<1>3. CASE Rest(w)
  BY <1>1, <1>2, <1>3, WorkerRests, QuietStep DEF IntegrityInv
<1>4. CASE Go(w, "record") \/ Go(w, "embed")
  <2>1. PICK pc \in {"record", "embed"} : Go(w, pc)
    BY <1>4
  <2>. QED
    BY <1>1, <1>2, <2>1, WorkerGoes, QuietStep DEF IntegrityInv
<1>. QED
  BY <1>1, <1>3, <1>4

LEMMA DieStep ==
  ASSUME IntegrityInv, NEW w \in Checkers, CheckerDies(w)
  PROVE  IntegrityInv'
<1>1. Rest(w) /\ Fault /\ UNCHANGED <<provider, embedded, reports, tasks, reviewed>>
  BY DEF CheckerDies
<1>2. /\ checker' \in [Checkers -> CheckState] /\ checker'[w].pc = "idle"
      /\ \A x \in Checkers \ {w} : checker'[x] = checker[x]
      /\ \A x \in Checkers : checker'[x].pc # "idle" => checker'[x].version \in Submitted
  BY <1>1, WorkerRests DEF IntegrityInv
<1>3. may' \in Bounds /\ may'.faults <= IntegrityFaults /\ ~ NothingFailed'
  BY <1>1, IntegrityAssumption DEF Fault, IntegrityInv, IntegrityTypes, Bounds, NothingFailed
<1>4. IntegrityTypes'
  BY <1>1, <1>2, <1>3 DEF IntegrityInv, IntegrityTypes, At
<1>5. ReportsAreNumbered' /\ MatchesAreSimilar' /\ VerdictsAreKept'
  <2>1. \A x \in Checkers : At(x, "dedupe")' \/ At(x, "flag")' =>
          checker'[x].matches # {} /\ checker'[x].matches \subseteq Partners(checker'[x].version)
    BY <1>2 DEF IntegrityInv, MatchesAreSimilar, At
  <2>. QED
    BY <1>1, <2>1, SameReports
<1>. QED
  BY <1>3, <1>4, <1>5 DEF IntegrityInv, NothingIsForgotten

LEMMA EmbedStep ==
  ASSUME IntegrityInv, NEW w \in Checkers, StoreEmbedding(w)
  PROVE  IntegrityInv'
<1>1. /\ At(w, "embed") /\ ~ At(w, "idle") /\ UNCHANGED <<provider, reports, reviewed>>
      /\ checker[w].version \in Submitted /\ checker[w].retries \in Nat
  BY DEF StoreEmbedding, At, IntegrityInv, IntegrityTypes, CheckState
<1>2. CASE /\ embedded' = embedded \union {checker[w].version}
           /\ Go(w, "compare")
           /\ UNCHANGED <<tasks, may>>
  <2>1. /\ checker' \in [Checkers -> CheckState] /\ checker'[w].pc = "compare"
        /\ checker'[w].version = checker[w].version
        /\ \A x \in Checkers \ {w} : checker'[x] = checker[x]
        /\ \A x \in Checkers : checker'[x].pc # "idle" => checker'[x].version \in Submitted
    BY <1>1, <1>2, WorkerGoes DEF IntegrityInv
  <2>2. IntegrityTypes'
    BY <1>1, <1>2, <2>1 DEF IntegrityInv, IntegrityTypes, At
  <2>3. ReportsAreNumbered' /\ MatchesAreSimilar' /\ VerdictsAreKept'
    <3>1. \A x \in Checkers : At(x, "dedupe")' \/ At(x, "flag")' =>
            checker'[x].matches # {} /\ checker'[x].matches \subseteq Partners(checker'[x].version)
      BY <2>1 DEF IntegrityInv, MatchesAreSimilar, At
    <3>. QED
      BY <1>1, <3>1, SameReports
  <2>4. NothingIsForgotten'
    <3>. SUFFICES ASSUME NothingFailed'
                  PROVE  /\ \A v \in Submitted :
                              \/ v \in embedded'
                              \/ \E t \in BagToSet(tasks') : t[1] = v
                              \/ \E x \in Checkers : At(x, "embed")' /\ checker'[x].version = v
                         /\ \A u, v \in embedded' : Lone(u, v) =>
                              PairIsNamed(u, v)' \/ \E x \in Checkers : Comparing(x, u)' \/ Comparing(x, v)'
      BY DEF NothingIsForgotten, Lone, Partners
    <3>1. NothingFailed
      BY <1>1, <1>2 DEF NothingFailed
    <3>2. \A x \in Checkers \ {w} : At(x, "embed")' = At(x, "embed") /\ checker'[x] = checker[x]
      BY <2>1 DEF At
    <3>3. \A v \in Submitted :
            \/ v \in embedded'
            \/ \E t \in BagToSet(tasks') : t[1] = v
            \/ \E x \in Checkers : At(x, "embed")' /\ checker'[x].version = v
      BY <1>2, <3>1, <3>2 DEF IntegrityInv, NothingIsForgotten
    <3>4. ASSUME NEW u \in embedded', NEW v \in embedded', Lone(u, v)
          PROVE  PairIsNamed(u, v)' \/ \E x \in Checkers : Comparing(x, u)' \/ Comparing(x, v)'
      <4>1. CASE u = checker[w].version \/ v = checker[w].version
        BY <2>1, <4>1 DEF Comparing
      <4>2. CASE u \in embedded /\ v \in embedded
        <5>1. PairIsNamed(u, v) => PairIsNamed(u, v)'
          BY <1>1, NamedStays
        <5>2. \A x \in Checkers : Comparing(x, u) \/ Comparing(x, v) =>
                Comparing(x, u)' \/ Comparing(x, v)'
          BY <1>1, <3>2 DEF Comparing, At
        <5>. QED
          BY <3>1, <3>4, <4>2, <5>1, <5>2 DEF IntegrityInv, NothingIsForgotten
      <4>. QED
        BY <1>2, <4>1, <4>2
    <3>. QED
      BY <3>3, <3>4
  <2>. QED
    BY <2>2, <2>3, <2>4 DEF IntegrityInv
<1>3. CASE /\ Fault
           /\ tasks' = IF checker[w].retries < MaxRetries
                       THEN tasks (+) SetToBag({<<checker[w].version, checker[w].retries + 1>>})
                       ELSE tasks
           /\ Rest(w)
           /\ UNCHANGED embedded
  <2>1. /\ checker' \in [Checkers -> CheckState] /\ checker'[w].pc = "idle"
        /\ \A x \in Checkers \ {w} : checker'[x] = checker[x]
        /\ \A x \in Checkers : checker'[x].pc # "idle" => checker'[x].version \in Submitted
    BY <1>3, WorkerRests DEF IntegrityInv
  <2>2. may' \in Bounds /\ may'.faults <= IntegrityFaults /\ ~ NothingFailed'
    BY <1>3, IntegrityAssumption DEF Fault, IntegrityInv, IntegrityTypes, Bounds, NothingFailed
  <2>3. IsABag(tasks') /\ BagToSet(tasks') \subseteq Submitted \X Nat
    <3>. DEFINE again == <<checker[w].version, checker[w].retries + 1>>
    <3>1. again \in Submitted \X Nat
      BY <1>1
    <3>2. tasks' = tasks (+) SetToBag({again}) \/ tasks' = tasks
      BY <1>3
    <3>. HIDE DEF again
    <3>3. IsABag(tasks) /\ BagToSet(tasks) \subseteq Submitted \X Nat
      BY DEF IntegrityInv, IntegrityTypes
    <3>4. /\ IsABag(tasks (+) SetToBag({again}))
          /\ BagToSet(tasks (+) SetToBag({again})) = BagToSet(tasks) \union {again}
      BY <3>3, TaskAdded
    <3>. QED
      BY <3>1, <3>2, <3>3, <3>4
  <2>4. IntegrityTypes'
    BY <1>1, <1>3, <2>1, <2>2, <2>3 DEF IntegrityInv, IntegrityTypes, At
  <2>5. ReportsAreNumbered' /\ MatchesAreSimilar' /\ VerdictsAreKept'
    <3>1. \A x \in Checkers : At(x, "dedupe")' \/ At(x, "flag")' =>
            checker'[x].matches # {} /\ checker'[x].matches \subseteq Partners(checker'[x].version)
      BY <2>1 DEF IntegrityInv, MatchesAreSimilar, At
    <3>. QED
      BY <1>1, <3>1, SameReports
  <2>. QED
    BY <2>2, <2>4, <2>5 DEF IntegrityInv, NothingIsForgotten
<1>. QED
  BY <1>2, <1>3 DEF StoreEmbedding

LEMMA CompareStep ==
  ASSUME IntegrityInv, NEW w \in Checkers, Compare(w)
  PROVE  IntegrityInv'
<1>. DEFINE found == Candidates(checker[w].version)
            new   == [checker[w] EXCEPT !.pc = "dedupe", !.matches = found]
<1>1. /\ At(w, "compare") /\ UNCHANGED <<provider, embedded, reports, tasks, reviewed, may>>
      /\ IF found = {} THEN Rest(w) ELSE checker' = [checker EXCEPT ![w] = new]
  BY DEF Compare, Rest, IntegrityInv, IntegrityTypes
<1>2. ~ At(w, "embed") /\ checker[w] \in CheckState /\ checker[w].version \in Submitted
  BY <1>1 DEF At, IntegrityInv, IntegrityTypes
<1>3. found \subseteq Partners(checker[w].version) /\ found \subseteq Submitted
  BY DEF Candidates, Partners, IntegrityInv, IntegrityTypes
<1>4. /\ new \in CheckState /\ new.pc = "dedupe" /\ new.matches = found
      /\ new.version = checker[w].version
  BY <1>2, <1>3 DEF CheckState
<1>5. \A u, v \in embedded : Comparing(w, v) /\ Lone(u, v) => u \in found /\ v = checker[w].version
  BY DEF Comparing, Lone, Partners, Candidates
<1>. HIDE DEF found, new
<1>6. CASE found = {}
  <2>1. /\ checker' \in [Checkers -> CheckState] /\ checker'[w].pc = "idle"
        /\ \A x \in Checkers \ {w} : checker'[x] = checker[x]
        /\ \A x \in Checkers : checker'[x].pc # "idle" => checker'[x].version \in Submitted
    BY <1>1, <1>6, WorkerRests DEF IntegrityInv
  <2>2. \A u, v \in embedded : ~ (Comparing(w, v) /\ Lone(u, v))
    BY <1>5, <1>6
  <2>. QED
    BY <1>1, <1>2, <2>1, <2>2, QuietStep
<1>7. CASE found # {}
  <2>1. /\ checker' \in [Checkers -> CheckState] /\ checker'[w] = new
        /\ \A x \in Checkers \ {w} : checker'[x] = checker[x]
        /\ \A x \in Checkers : checker'[x].pc # "idle" => checker'[x].version \in Submitted
    BY <1>1, <1>2, <1>4, <1>7, WorkerMoves DEF IntegrityInv
  <2>2. \A v : Comparing(w, v) => Comparing(w, v)'
    BY <1>4, <2>1 DEF Comparing
  <2>. QED
    BY <1>1, <1>2, <1>3, <1>4, <1>7, <2>1, <2>2, QuietStep
<1>. QED
  BY <1>6, <1>7

\* The report of a version of a lone pair names the other.
LEMMA LoneReport ==
  ASSUME IntegrityInv, NEW u, NEW v, Lone(u, v), <<v, "internal">> \in Keys
  PROVE  PairIsNamed(u, v)
<1>1. PICK r \in reports : r.key = <<v, "internal">>
  BY DEF Keys
<1>2. r.matches = {u}
  BY <1>1 DEF IntegrityInv, MatchesAreSimilar, Lone
<1>. QED
  BY <1>1, <1>2 DEF PairIsNamed

LEMMA DeduplicateStep ==
  ASSUME IntegrityInv, NEW w \in Checkers, Deduplicate(w)
  PROVE  IntegrityInv'
<1>1. /\ At(w, "dedupe") /\ ~ At(w, "embed") /\ ~ At(w, "idle")
      /\ UNCHANGED <<provider, embedded, reports, tasks, reviewed, may>>
  BY DEF Deduplicate, At
<1>2. CASE <<checker[w].version, "internal">> \in Keys
  <2>1. /\ checker' \in [Checkers -> CheckState] /\ checker'[w].pc = "idle"
        /\ \A x \in Checkers \ {w} : checker'[x] = checker[x]
        /\ \A x \in Checkers : checker'[x].pc # "idle" => checker'[x].version \in Submitted
    BY <1>2, WorkerRests DEF IntegrityInv, Deduplicate
  <2>2. \A u, v \in embedded : Comparing(w, v) /\ Lone(u, v) => PairIsNamed(u, v)
    BY <1>2, LoneReport DEF Comparing
  <2>. QED
    BY <1>1, <2>1, <2>2, QuietStep
<1>3. CASE <<checker[w].version, "internal">> \notin Keys
  <2>1. /\ checker' \in [Checkers -> CheckState] /\ checker'[w].pc = "flag"
        /\ checker'[w].version = checker[w].version /\ checker'[w].matches = checker[w].matches
        /\ \A x \in Checkers \ {w} : checker'[x] = checker[x]
        /\ \A x \in Checkers : checker'[x].pc # "idle" => checker'[x].version \in Submitted
    BY <1>1, <1>3, WorkerGoes DEF IntegrityInv, Deduplicate
  <2>2. \A v : Comparing(w, v) => Comparing(w, v)'
    BY <2>1 DEF Comparing
  <2>3. checker'[w].matches # {} /\ checker'[w].matches \subseteq Partners(checker'[w].version)
    BY <1>1, <2>1 DEF IntegrityInv, MatchesAreSimilar
  <2>. QED
    BY <1>1, <2>1, <2>2, <2>3, QuietStep
<1>. QED
  BY <1>2, <1>3

---------------------------------------------------------------------------
(* New reports *)

\* A worker rests after it has inserted one report of a new key, or none.
LEMMA WriteStep ==
  ASSUME IntegrityInv, NEW w \in Checkers, ~ At(w, "embed"), Rest(w),
         UNCHANGED <<provider, embedded, tasks, reviewed, may>>,
         NEW new \in Report, new.key \notin Keys, new.created = Cardinality(reports),
         new.key[2] = "internal" => new.matches # {} /\ new.matches \subseteq Partners(new.key[1]),
         reports' = reports \/ reports' = reports \union {new},
         \A u, v \in embedded : NothingFailed /\ Comparing(w, v) /\ Lone(u, v) => PairIsNamed(u, v)'
  PROVE  IntegrityInv'
<1>1. /\ checker' \in [Checkers -> CheckState] /\ checker'[w].pc = "idle"
      /\ \A x \in Checkers \ {w} : checker'[x] = checker[x]
      /\ \A x \in Checkers : checker'[x].pc # "idle" => checker'[x].version \in Submitted
  BY WorkerRests DEF IntegrityInv
<1>2. \A x \in Checkers : At(x, "dedupe")' \/ At(x, "flag")' =>
        checker'[x].matches # {} /\ checker'[x].matches \subseteq Partners(checker'[x].version)
  BY <1>1 DEF IntegrityInv, MatchesAreSimilar, At
<1>3. NothingIsForgotten'
  <2>1. NothingFailed' => NothingFailed
    BY DEF NothingFailed
  <2>. QED
    BY <1>1, <2>1, StillRemembered
<1>4. CASE reports' = reports
  <2>1. IntegrityTypes'
    BY <1>1, <1>4 DEF IntegrityInv, IntegrityTypes, At
  <2>. QED
    BY <1>2, <1>3, <1>4, <2>1, SameReports DEF IntegrityInv
<1>5. CASE reports' = reports \union {new}
  <2>1. new \notin reports
    BY DEF Keys
  <2>2. IsFiniteSet(reports') /\ Cardinality(reports') = Cardinality(reports) + 1
    BY <1>5, <2>1, FS_AddElement DEF IntegrityInv, IntegrityTypes
  <2>3. Cardinality(reports) \in Nat
    BY FS_CardinalityType DEF IntegrityInv, IntegrityTypes
  <2>4. IntegrityTypes'
    BY <1>1, <1>5, <2>2 DEF IntegrityInv, IntegrityTypes, At
  <2>5. \A r \in reports : r.key # new.key /\ r.created # new.created /\ r.created \in Nat
                           /\ r.created < Cardinality(reports)
    BY <2>3 DEF Keys, IntegrityInv, IntegrityTypes, ReportsAreNumbered, Report
  <2>6. ReportsAreNumbered'
    <3>1. \A r, q \in reports' : r.key = q.key \/ r.created = q.created => r = q
      BY <1>5, <2>5 DEF IntegrityInv, ReportsAreNumbered
    <3>2. \A r \in reports' : r.created < Cardinality(reports')
      BY <1>5, <2>2, <2>3, <2>5
    <3>. QED
      BY <3>1, <3>2 DEF ReportsAreNumbered
  <2>7. MatchesAreSimilar'
    BY <1>2, <1>5 DEF IntegrityInv, MatchesAreSimilar, Partners
  <2>8. VerdictsAreKept'
    BY <1>5 DEF IntegrityInv, VerdictsAreKept
  <2>. QED
    BY <1>3, <2>4, <2>6, <2>7, <2>8 DEF IntegrityInv
<1>. QED
  BY <1>4, <1>5

LEMMA NewReportFacts ==
  ASSUME IntegrityInv, NEW v \in Submitted, NEW by \in {"internal", "originality_ai"},
         NEW matches \in SUBSET Submitted
  PROVE  LET new == NewReport(v, by, matches)
         IN /\ new \in Report /\ new.created = Cardinality(reports)
            /\ new.key = <<v, by>> /\ new.key[1] = v /\ new.key[2] = by /\ new.matches = matches
<1>1. Cardinality(reports) \in Nat
  BY FS_CardinalityType DEF IntegrityInv, IntegrityTypes
<1>. QED
  BY <1>1 DEF NewReport, Report, ReportKey

LEMMA RecordStep ==
  ASSUME IntegrityInv, NEW w \in Checkers, RecordReport(w)
  PROVE  IntegrityInv'
<1>. DEFINE new == NewReport(checker[w].version, "originality_ai", {})
<1>1. /\ At(w, "record") /\ Rest(w) /\ UNCHANGED <<provider, embedded, tasks, reviewed, may>>
      /\ reports' = IF new.key \in Keys THEN reports ELSE reports \union {new}
  BY DEF RecordReport
<1>2. ~ At(w, "embed") /\ checker[w].version \in Submitted /\ \A v : ~ Comparing(w, v)
  BY <1>1 DEF At, Comparing, IntegrityInv, IntegrityTypes
<1>3. new \in Report /\ new.created = Cardinality(reports) /\ new.key[2] = "originality_ai"
  BY <1>2, NewReportFacts
<1>. HIDE DEF new
<1>4. CASE new.key \notin Keys
  BY <1>1, <1>2, <1>3, <1>4, WriteStep
<1>5. CASE new.key \in Keys
  <2>1. /\ checker' \in [Checkers -> CheckState] /\ checker'[w].pc = "idle"
        /\ \A x \in Checkers \ {w} : checker'[x] = checker[x]
        /\ \A x \in Checkers : checker'[x].pc # "idle" => checker'[x].version \in Submitted
    BY <1>1, WorkerRests DEF IntegrityInv
  <2>. QED
    BY <1>1, <1>2, <1>5, <2>1, QuietStep
<1>. QED
  BY <1>4, <1>5

LEMMA FlagStep ==
  ASSUME IntegrityInv, NEW w \in Checkers, Flag(w)
  PROVE  IntegrityInv'
<1>0. PICK v \in Submitted : v = checker[w].version
  BY DEF IntegrityInv, IntegrityTypes, Flag, At
<1>. DEFINE all == {NewReport(v, "internal", {u}) : u \in checker[w].matches}
<1>1. /\ At(w, "flag") /\ Rest(w) /\ UNCHANGED <<provider, embedded, tasks, reviewed, may>>
      /\ reports' = IF Cardinality(all) = 1 /\ <<v, "internal">> \notin Keys
                    THEN reports \union all ELSE reports
  BY <1>0 DEF Flag
<1>2. /\ ~ At(w, "embed") /\ checker[w].matches # {}
      /\ checker[w].matches \subseteq Partners(v) /\ checker[w].matches \subseteq Submitted
  BY <1>0, <1>1 DEF At, IntegrityInv, IntegrityTypes, MatchesAreSimilar, Partners
<1>3. \A x : Comparing(w, x) => x = v
  BY <1>0 DEF Comparing
<1>4. \A u : Lone(u, v) => checker[w].matches = {u}
  BY <1>2 DEF Lone
<1>5. IsFiniteSet(all)
  <2>1. IsFiniteSet(checker[w].matches)
    BY <1>2, IntegrityAssumption, FS_Subset
  <2>2. DEFINE f == [u \in checker[w].matches |-> NewReport(v, "internal", {u})]
  <2>3. f \in [checker[w].matches -> all] /\ \A r \in all : \E u \in checker[w].matches : f[u] = r
    OBVIOUS
  <2>4. f \in Surjection(checker[w].matches, all)
    BY <2>3, Fun_IsSurj
  <2>. QED
    BY <2>1, <2>4, FS_Surjection
<1>6. CASE Cardinality(all) = 1 /\ <<v, "internal">> \notin Keys
  <2>1. PICK u \in checker[w].matches : all = {NewReport(v, "internal", {u})}
    <3>1. \E x : all = {x}
      BY <1>5, <1>6, FS_Singleton
    <3>. QED
      BY <1>2, <3>1
  <2>. DEFINE new == NewReport(v, "internal", {u})
  <2>2. {u} \in SUBSET Submitted /\ u \in Partners(v)
    BY <1>2
  <2>3. /\ new \in Report /\ new.created = Cardinality(reports) /\ new.key = <<v, "internal">>
        /\ new.key[1] = v /\ new.matches = {u}
    BY <1>2, <2>2, NewReportFacts
  <2>4. reports' = reports \union {new}
    BY <1>1, <1>6, <2>1
  <2>. HIDE DEF new
  <2>5. \A x, y \in embedded : Comparing(w, y) /\ Lone(x, y) => PairIsNamed(x, y)'
    <3>. SUFFICES ASSUME NEW x \in embedded, Lone(x, v) PROVE PairIsNamed(x, v)'
      BY <1>3
    <3>1. new.matches = {x} /\ new \in reports'
      BY <1>4, <2>3, <2>4
    <3>. QED
      BY <2>3, <3>1 DEF PairIsNamed
  <2>6. new.matches # {} /\ new.matches \subseteq Partners(new.key[1]) /\ new.key \notin Keys
    BY <1>6, <2>2, <2>3
  <2>. QED
    BY <1>1, <1>2, <2>3, <2>4, <2>5, <2>6, WriteStep
<1>7. CASE <<v, "internal">> \in Keys \/ Cardinality(all) # 1
  <2>1. /\ checker' \in [Checkers -> CheckState] /\ checker'[w].pc = "idle"
        /\ \A x \in Checkers \ {w} : checker'[x] = checker[x]
        /\ \A x \in Checkers : checker'[x].pc # "idle" => checker'[x].version \in Submitted
    BY <1>1, WorkerRests DEF IntegrityInv
  <2>2. \A x, y \in embedded : Comparing(w, y) /\ Lone(x, y) => PairIsNamed(x, y)
    <3>. SUFFICES ASSUME NEW x \in embedded, Lone(x, v) PROVE PairIsNamed(x, v)
      BY <1>3
    <3>1. CASE <<v, "internal">> \in Keys
      BY <3>1, LoneReport
    <3>2. CASE Cardinality(all) # 1
      <4>1. all = {NewReport(v, "internal", {x})}
        BY <1>4
      <4>. QED
        BY <3>2, <4>1, FS_Singleton
    <3>. QED
      BY <1>7, <3>1, <3>2
  <2>3. UNCHANGED reports
    BY <1>1, <1>7
  <2>. HIDE DEF all
  <2>. QED
    BY <1>1, <1>2, <2>1, <2>2, <2>3, QuietStep
<1>. QED
  BY <1>6, <1>7

---------------------------------------------------------------------------
(* Messages and reviews *)

\* Nothing is forgotten when no worker moves.
LEMMA NothingMoves ==
  ASSUME IntegrityInv, NothingFailed' => NothingFailed, UNCHANGED <<embedded, reports, checker>>,
         BagToSet(tasks) \subseteq BagToSet(tasks')
  PROVE  NothingIsForgotten'
<1>1. \A u, v : PairIsNamed(u, v)' = PairIsNamed(u, v) /\ Lone(u, v)' = Lone(u, v)
  BY DEF PairIsNamed, Lone, Partners
<1>2. \A w \in Checkers : At(w, "embed")' = At(w, "embed") /\ \A v : Comparing(w, v)' = Comparing(w, v)
  BY DEF At, Comparing
<1>. QED
  BY <1>1, <1>2 DEF IntegrityInv, NothingIsForgotten

LEMMA RedeliverStep ==
  ASSUME IntegrityInv, NEW v \in Submitted, Redeliver(v)
  PROVE  IntegrityInv'
<1>1. /\ UNCHANGED <<provider, embedded, reports, checker, reviewed>>
      /\ tasks' = tasks (+) SetToBag({<<v, 0>>})
      /\ may' = [may EXCEPT !.redeliveries = @ - 1] /\ may.redeliveries > 0
  BY DEF Redeliver
<1>2. may' \in Bounds /\ may'.faults <= IntegrityFaults /\ NothingFailed' = NothingFailed
  BY <1>1, NothingFailedStays DEF IntegrityInv
<1>3. IsABag(tasks') /\ BagToSet(tasks') = BagToSet(tasks) \union {<<v, 0>>}
  <2>1. IsABag(tasks)
    BY DEF IntegrityInv, IntegrityTypes
  <2>. QED
    BY <1>1, <2>1, TaskAdded
<1>4. IntegrityTypes'
  <2>1. BagToSet(tasks') \subseteq Submitted \X Nat
    BY <1>3 DEF IntegrityInv, IntegrityTypes
  <2>2. \A w \in Checkers : ~ At(w, "idle")' => checker'[w].version \in Submitted
    BY <1>1 DEF IntegrityInv, IntegrityTypes, At
  <2>3. IsABag(tasks)' /\ BagToSet(tasks)' \subseteq Submitted \X Nat
    BY <1>3, <2>1
  <2>. QED
    BY <1>1, <1>2, <2>2, <2>3 DEF IntegrityInv, IntegrityTypes
<1>5. ReportsAreNumbered' /\ MatchesAreSimilar' /\ VerdictsAreKept'
  <2>1. \A x \in Checkers : At(x, "dedupe")' \/ At(x, "flag")' =>
          checker'[x].matches # {} /\ checker'[x].matches \subseteq Partners(checker'[x].version)
    BY <1>1 DEF IntegrityInv, MatchesAreSimilar, At
  <2>. QED
    BY <1>1, <2>1, SameReports
<1>6. NothingIsForgotten'
  BY <1>1, <1>2, <1>3, NothingMoves
<1>. QED
  BY <1>4, <1>5, <1>6 DEF IntegrityInv

LEMMA ReviewStep ==
  ASSUME IntegrityInv, NEW r \in reports, NEW status \in {"reviewed_clear", "flagged"},
         Review(r, status)
  PROVE  IntegrityInv'
<1>. DEFINE new == [r EXCEPT !.status = status]
<1>1. /\ UNCHANGED <<provider, embedded, tasks, checker>>
      /\ reports' = (reports \ {r}) \union {new}
      /\ reviewed' = [k \in DOMAIN reviewed \union {r.key} |->
                        IF k = r.key THEN status ELSE reviewed[k]]
      /\ may' = [may EXCEPT !.reviews = @ - 1] /\ may.reviews > 0
  BY DEF Review
<1>2. may' \in Bounds /\ may'.faults <= IntegrityFaults /\ NothingFailed' = NothingFailed
  BY <1>1, NothingFailedStays DEF IntegrityInv
<1>3. /\ new \in Report /\ new.key = r.key /\ new.created = r.created /\ new.matches = r.matches
      /\ new.status = status
  BY DEF IntegrityInv, IntegrityTypes, Report
<1>. HIDE DEF new
<1>4. new \notin reports \ {r}
  BY <1>3 DEF IntegrityInv, ReportsAreNumbered
<1>5. IsFiniteSet(reports') /\ Cardinality(reports') = Cardinality(reports)
  <2>1. IsFiniteSet(reports) /\ Cardinality(reports) \in Nat
    BY FS_CardinalityType DEF IntegrityInv, IntegrityTypes
  <2>2. IsFiniteSet(reports \ {r}) /\ Cardinality(reports \ {r}) = Cardinality(reports) - 1
    BY <2>1, FS_RemoveElement
  <2>3. /\ IsFiniteSet((reports \ {r}) \union {new})
        /\ Cardinality((reports \ {r}) \union {new}) = Cardinality(reports \ {r}) + 1
    BY <1>4, <2>2, FS_AddElement
  <2>. QED
    BY <1>1, <2>1, <2>2, <2>3
<1>6. IntegrityTypes'
  BY <1>1, <1>2, <1>3, <1>5 DEF IntegrityInv, IntegrityTypes, At
<1>7. ReportsAreNumbered'
  BY <1>1, <1>3, <1>5 DEF IntegrityInv, ReportsAreNumbered
<1>8. MatchesAreSimilar'
  BY <1>1, <1>3 DEF IntegrityInv, MatchesAreSimilar, Partners, At
<1>9. \A u, v : PairIsNamed(u, v) => PairIsNamed(u, v)'
  BY <1>1, <1>3 DEF PairIsNamed
<1>10. NothingIsForgotten'
  <2>1. \A w \in Checkers : At(w, "embed")' = At(w, "embed") /\ \A v : Comparing(w, v)' = Comparing(w, v)
    BY <1>1 DEF At, Comparing
  <2>. QED
    BY <1>1, <1>2, <1>9, <2>1 DEF IntegrityInv, NothingIsForgotten, Lone, Partners
<1>11. VerdictsAreKept'
  <2>. SUFFICES ASSUME NEW k \in DOMAIN reviewed'
                PROVE  \E q \in reports' : q.key = k /\ q.status = reviewed'[k]
    BY DEF VerdictsAreKept
  <2>1. CASE k = r.key
    BY <1>1, <1>3, <2>1
  <2>2. CASE k # r.key
    <3>1. k \in DOMAIN reviewed /\ reviewed'[k] = reviewed[k]
      BY <1>1, <2>2
    <3>2. PICK q \in reports : q.key = k /\ q.status = reviewed[k]
      BY <3>1 DEF IntegrityInv, VerdictsAreKept
    <3>. QED
      BY <1>1, <2>2, <3>1, <3>2
  <2>. QED
    BY <2>1, <2>2
<1>. QED
  BY <1>6, <1>7, <1>8, <1>10, <1>11 DEF IntegrityInv

---------------------------------------------------------------------------
(* The invariant *)

LEMMA IntegrityStarts == IntegrityInit => IntegrityInv
<1>. SUFFICES ASSUME IntegrityInit PROVE IntegrityInv
  OBVIOUS
<1>1. \A w \in Checkers : checker[w] = Resting
  BY DEF IntegrityInit
<1>2. Resting \in CheckState /\ Resting.pc = "idle"
  BY DEF Resting, CheckState
<1>3. /\ IsABag(tasks) /\ BagToSet(tasks) = {<<v, 0>> : v \in Submitted}
  BY DEF IntegrityInit, SetToBag, BagToSet, IsABag
<1>4. IntegrityTypes
  <2>1. IsFiniteSet(reports) /\ Cardinality(reports) = 0
    BY FS_EmptySet DEF IntegrityInit
  <2>2. checker \in [Checkers -> CheckState]
    BY <1>2 DEF IntegrityInit
  <2>3. may \in Bounds /\ may.faults <= IntegrityFaults
    BY IntegrityAssumption DEF IntegrityInit, Bounds
  <2>4. BagToSet(tasks) \subseteq Submitted \X Nat
    BY <1>3
  <2>. QED
    BY <1>1, <1>2, <1>3, <2>1, <2>2, <2>3, <2>4, IntegrityAssumption
       DEF IntegrityInit, IntegrityTypes, At
<1>5. ReportsAreNumbered /\ VerdictsAreKept
  BY DEF IntegrityInit, ReportsAreNumbered, VerdictsAreKept
<1>6. MatchesAreSimilar
  BY <1>1, <1>2 DEF IntegrityInit, MatchesAreSimilar, At
<1>7. NothingIsForgotten
  <2>1. \A v \in Submitted : <<v, 0>> \in BagToSet(tasks) /\ <<v, 0>>[1] = v
    BY <1>3
  <2>. QED
    BY <2>1 DEF IntegrityInit, NothingIsForgotten
<1>. QED
  BY <1>4, <1>5, <1>6, <1>7 DEF IntegrityInv

LEMMA IntegrityInvKept == IntegrityInv /\ [IntegrityNext]_integrityVars => IntegrityInv'
<1>. SUFFICES ASSUME IntegrityInv, [IntegrityNext]_integrityVars PROVE IntegrityInv'
  OBVIOUS
<1>1. ASSUME NEW w \in Checkers, CheckStep(w) PROVE IntegrityInv'
  BY <1>1, TakeStep, AskVectorStep, RecordStep, EmbedStep, CompareStep, DeduplicateStep, FlagStep
     DEF CheckStep
<1>2. ASSUME NEW w \in Checkers, CheckerDies(w) PROVE IntegrityInv'
  BY <1>2, DieStep
<1>3. ASSUME NEW v \in Submitted, Redeliver(v) PROVE IntegrityInv'
  BY <1>3, RedeliverStep
<1>4. ASSUME NEW r \in reports, NEW status \in {"reviewed_clear", "flagged"}, Review(r, status)
      PROVE  IntegrityInv'
  BY <1>4, ReviewStep
<1>5. CASE UNCHANGED integrityVars
  <2>1. /\ UNCHANGED <<provider, embedded, reports>> /\ UNCHANGED <<tasks, checker, reviewed, may>>
    BY <1>5 DEF integrityVars
  <2>2. IntegrityTypes' /\ ReportsAreNumbered' /\ MatchesAreSimilar' /\ VerdictsAreKept'
    BY <2>1 DEF IntegrityInv, IntegrityTypes, ReportsAreNumbered, MatchesAreSimilar,
                VerdictsAreKept, Partners, At
  <2>3. NothingIsForgotten'
    <3>1. NothingFailed' => NothingFailed
      BY <2>1 DEF NothingFailed
    <3>. QED
      BY <2>1, <3>1, NothingMoves
  <2>. QED
    BY <2>2, <2>3 DEF IntegrityInv
<1>. QED
  BY <1>1, <1>2, <1>3, <1>4, <1>5 DEF IntegrityNext

\* Reports, messages and workers have their types, and the relations above hold in
\* every state.
THEOREM IntegrityIsConsistent == IntegritySpec => []IntegrityInv
BY IntegrityStarts, IntegrityInvKept, PTL DEF IntegritySpec

---------------------------------------------------------------------------
(* The summary *)

\* Each report that counts is the one report shown of its essay.
LEMMA ShownIsCounted ==
  ASSUME IntegrityInv, NEW v \in Submitted
  PROVE  LET e == EssayOfVersion[v]
         IN \A r \in reports :
              r \in ReportsShown(e) <=> r \in LatestReports /\ EssayOfVersion[r.key[1]] = e
<1>. DEFINE e == EssayOfVersion[v]
            latest == CHOOSE u \in VersionsOf(e) : \A x \in VersionsOf(e) : x <= u
<1>1. /\ latest \in VersionsOf(e) /\ \A x \in VersionsOf(e) : x <= latest
      /\ VersionsOf(e) \subseteq Nat
  <2>1. VersionsOf(e) \in SUBSET Nat /\ IsFiniteSet(VersionsOf(e)) /\ v \in VersionsOf(e)
    BY IntegrityAssumption, FS_Subset DEF VersionsOf
  <2>2. \E u \in VersionsOf(e) : \A x \in VersionsOf(e) : x <= u
    BY <2>1, LargestExists
  <2>. QED
    BY <2>1, <2>2
<1>2. \A r \in reports : r \in ReportsShown(e) <=>
        r.key[1] = latest /\ \A q \in reports : q.key[1] = latest => q.created <= r.created
  BY DEF ReportsShown
<1>. HIDE DEF latest
<1>3. \A u \in Submitted : u \in LatestVersions /\ EssayOfVersion[u] = e <=> u = latest
  <2>1. ASSUME NEW u \in Submitted, u \in LatestVersions, EssayOfVersion[u] = e PROVE u = latest
    <3>1. u \in VersionsOf(e) /\ latest <= u /\ u <= latest
      BY <1>1, <2>1 DEF LatestVersions, VersionsOf
    <3>. QED
      BY <1>1, <3>1
  <2>2. latest \in Submitted /\ latest \in LatestVersions /\ EssayOfVersion[latest] = e
    BY <1>1 DEF LatestVersions, VersionsOf
  <2>. QED
    BY <2>1, <2>2
<1>4. \A r \in reports : r.key[1] \in Submitted
  BY DEF IntegrityInv, IntegrityTypes, Report, ReportKey
<1>. QED
  BY <1>2, <1>3, <1>4 DEF LatestReports

LEMMA SummaryIsTrue == IntegrityInv => SummaryCountsEssays
<1>. SUFFICES ASSUME IntegrityInv PROVE SummaryCountsEssays
  OBVIOUS
<1>. DEFINE essays == {EssayOfVersion[v] : v \in Submitted}
<1>. SUFFICES ASSUME NEW status \in {"flagged", "reviewed_clear", "pending"}
              PROVE  Cardinality({r \in LatestReports : r.status = status}) =
                       Cardinality({e \in essays : \E r \in ReportsShown(e) : r.status = status})
  BY DEF SummaryCountsEssays, Summary
<1>. DEFINE counted == {r \in LatestReports : r.status = status}
            shown   == {e \in essays : \E r \in ReportsShown(e) : r.status = status}
            f       == [r \in counted |-> EssayOfVersion[r.key[1]]]
<1>1. \A r \in LatestReports : r \in reports /\ r.key[1] \in Submitted /\ r.created \in Nat
  BY DEF LatestReports, IntegrityInv, IntegrityTypes, Report, ReportKey
<1>2. \A e \in essays : \A r : r \in ReportsShown(e) => r \in reports
  BY DEF ReportsShown
<1>3. \A r \in LatestReports : r \in ReportsShown(EssayOfVersion[r.key[1]])
  BY <1>1, ShownIsCounted
<1>4. f \in [counted -> shown]
  BY <1>1, <1>3
<1>5. ASSUME NEW e \in shown PROVE \E r \in counted : f[r] = e
  <2>1. PICK v \in Submitted : e = EssayOfVersion[v]
    OBVIOUS
  <2>2. PICK r \in ReportsShown(e) : r.status = status
    OBVIOUS
  <2>3. r \in LatestReports /\ EssayOfVersion[r.key[1]] = e
    BY <1>2, <2>1, <2>2, ShownIsCounted
  <2>. QED
    BY <2>2, <2>3
<1>6. ASSUME NEW r \in counted, NEW q \in counted, f[r] = f[q] PROVE r = q
  <2>1. PICK v \in Submitted : v = r.key[1]
    BY <1>1
  <2>2. q \in ReportsShown(EssayOfVersion[v]) /\ r \in ReportsShown(EssayOfVersion[v])
    BY <1>3, <1>6, <2>1
  <2>3. r.created <= q.created /\ q.created <= r.created
    BY <2>2 DEF ReportsShown
  <2>. QED
    BY <1>1, <2>3 DEF IntegrityInv, ReportsAreNumbered
<1>7. ExistsBijection(counted, shown)
  <2>1. f \in Bijection(counted, shown)
    BY <1>4, <1>5, <1>6, Fun_IsBij
  <2>. QED
    BY <2>1 DEF ExistsBijection
<1>8. IsFiniteSet(counted)
  BY <1>1, FS_Subset DEF IntegrityInv, IntegrityTypes
<1>. HIDE DEF counted, shown
<1>9. Cardinality(counted) = Cardinality(shown)
  BY <1>7, <1>8, FS_Bijection
<1>. QED
  BY <1>9 DEF counted, shown

LEMMA PairsAreFound == IntegrityInv => LonePairsAreFlagged
<1>. SUFFICES ASSUME IntegrityInv, AllChecked, NothingFailed, NEW pair \in Similar,
                     \A other \in Similar : other[1] \in {pair[1], pair[2]} =>
                       other \in {pair, <<pair[2], pair[1]>>}
              PROVE  PairIsNamed(pair[1], pair[2])
  BY DEF LonePairsAreFlagged
<1>1. PICK u \in Submitted, v \in Submitted : pair = <<u, v>>
  BY IntegrityAssumption
<1>2. <<u, v>> \in Similar /\ <<v, u>> \in Similar /\ u # v
  BY <1>1, IntegrityAssumption
<1>3. \A x \in Submitted : <<x, u>> \in Similar => x = v
  <2>. SUFFICES ASSUME NEW x \in Submitted, <<x, u>> \in Similar PROVE x = v
    OBVIOUS
  <2>1. <<u, x>> \in Similar
    BY IntegrityAssumption
  <2>. QED
    BY <1>1, <1>2, <2>1
<1>4. \A x \in Submitted : <<x, v>> \in Similar => x = u
  <2>. SUFFICES ASSUME NEW x \in Submitted, <<x, v>> \in Similar PROVE x = u
    OBVIOUS
  <2>1. <<v, x>> \in Similar
    BY IntegrityAssumption
  <2>. QED
    BY <1>1, <1>2, <2>1
<1>5. Lone(u, v)
  BY <1>2, <1>3, <1>4 DEF Lone, Partners
<1>6. BagToSet(tasks) = {} /\ \A w \in Checkers : checker[w].pc = "idle"
  BY DEF AllChecked, At, EmptyBag, SetToBag, BagToSet
<1>7. u \in embedded /\ v \in embedded
  BY <1>6 DEF IntegrityInv, NothingIsForgotten, At
<1>8. PairIsNamed(u, v)
  BY <1>5, <1>6, <1>7 DEF IntegrityInv, NothingIsForgotten, Comparing
<1>. QED
  BY <1>1, <1>8

\* Reports appear when two versions are similar to each other only, stay as the
\* teacher left them, and are summed up truly: for any number of versions, workers
\* and faults.
THEOREM ReportsAreAlwaysKept == IntegritySpec => []ReportsAreKept
<1>1. IntegrityInv => ReportsAreKept
  BY SummaryIsTrue, PairsAreFound DEF ReportsAreKept, IntegrityInv
<1>. QED
  BY <1>1, IntegrityIsConsistent, PTL

\* One row for each version and provider, although workers race to insert them.
THEOREM IntegrityTypesHold == IntegritySpec => []IntegrityTypeOK
<1>1. ASSUME IntegrityInv PROVE IntegrityTypeOK
  <2>. DEFINE key == [r \in reports |-> r.key]
  <2>1. IntegrityTypes /\ ReportsAreNumbered /\ IsFiniteSet(reports)
    BY <1>1 DEF IntegrityInv, IntegrityTypes
  <2>2. key \in Bijection(reports, Keys)
    BY <2>1, Fun_IsBij DEF ReportsAreNumbered, Keys, Bijection, Injection, Surjection, IsInjective
  <2>3. Cardinality(Keys) = Cardinality(reports)
    BY <2>1, <2>2, FS_Bijection DEF ExistsBijection
  <2>. QED
    BY <2>1, <2>3 DEF IntegrityTypes, IntegrityTypeOK
<1>. QED
  BY <1>1, IntegrityIsConsistent, PTL
=============================================================================
