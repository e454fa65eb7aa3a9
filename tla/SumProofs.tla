------------------------------ MODULE SumProofs ------------------------------
(* Lemmas about SumFunctionOnSet, the sum of a function's values over a    *)
(* finite set: it does not depend on the order in which they are added.    *)
EXTENDS Integers, FiniteSets, Functions, FiniteSetTheorems, WellFoundedInduction, TLAPS

---------------------------------------------------------------------------
(* The fold *)

\* What is taken next from a set.
First(s) == CHOOSE x \in s : TRUE

LEMMA FirstIsIn == ASSUME NEW s, s # {} PROVE First(s) \in s
BY DEF First

\* The sums of the subsets of T, as the fold computes them.
Adds(f, T, sums) ==
  sums = [s \in SUBSET T |-> IF s = {} THEN 0 ELSE f[First(s)] + sums[s \ {First(s)}]]

\* A property of finite sets that is missing somewhere is missing from a least set.
LEMMA LeastSet ==
  ASSUME NEW S, IsFiniteSet(S), NEW T, T \subseteq SUBSET S, T # {}
  PROVE  \E s \in T : \A t \in T : ~ (t \subseteq s /\ t # s)
<1>1. IsWellFoundedOn(StrictSubsetOrdering(S), SUBSET S)
  BY FS_StrictSubsetOrderingWellFounded, FS_FiniteSubsetsOfFinite
<1>2. PICK s \in T : \A t \in T : ~ (<<t, s>> \in StrictSubsetOrdering(S))
  BY <1>1, WFMin
<1>3. \A t \in T : t \subseteq s /\ t # s => <<t, s>> \in StrictSubsetOrdering(S)
  BY DEF StrictSubsetOrdering
<1>4. \A t \in T : ~ (t \subseteq s /\ t # s)
  BY <1>2, <1>3
<1>. QED
  BY <1>4, Zenon

LEMMA LeastNumber ==
  ASSUME NEW T, T \subseteq Nat, T # {}
  PROVE  \E n \in T : \A m \in T : n <= m
<1>. DEFINE Less == {p \in Nat \X Nat : p[1] < p[2]}
<1>1. IsWellFoundedOn(Less, Nat)
  BY NatLessThanWellFounded, Zenon DEF OpToRel
<1>. HIDE DEF Less
<1>2. PICK n \in T : \A m \in T : ~ (<<m, n>> \in Less)
  BY <1>1, WFMin
<1>3. ASSUME NEW m \in T PROVE n <= m
  <2>1. m \in Nat /\ n \in Nat /\ ~ (m < n)
    BY <1>2 DEF Less
  <2>. QED
    BY <2>1
<1>. QED
  BY <1>3, Zenon

\* A set of numbers that is finite has a largest one: take a smallest set without.
LEMMA LargestExists ==
  ASSUME NEW S \in SUBSET Nat, IsFiniteSet(S), S # {}
  PROVE  \E n \in S : \A m \in S : m <= n
<1>. DEFINE HasLargest(set) == \E n \in set : \A m \in set : m <= n
            Without == {set \in FiniteSubsetsOf(Nat) : set # {} /\ ~ HasLargest(set)}
<1>1. ASSUME Without # {} PROVE FALSE
  <2>1. PICK U \in Without : \A T \in Without : ~ (<<T, U>> \in StrictSubsetOrdering(Nat))
    BY <1>1, FS_StrictSubsetOrderingWellFounded, WFMin
  <2>2. U \subseteq Nat /\ IsFiniteSet(U) /\ U # {} /\ ~ HasLargest(U)
    BY <2>1 DEF FiniteSubsetsOf
  <2>3. PICK x \in U : TRUE
    BY <2>2
  <2>. DEFINE V == U \ {x}
  <2>4. V \in FiniteSubsetsOf(Nat) /\ <<V, U>> \in StrictSubsetOrdering(Nat) /\ x \in Nat
    BY <2>2, <2>3, FS_RemoveElement DEF FiniteSubsetsOf, StrictSubsetOrdering
  <2>5. CASE V = {}
    <3>1. \A m \in U : m <= x
      BY <2>4, <2>5
    <3>. QED
      BY <2>2, <2>3, <3>1
  <2>6. CASE V # {}
    <3>1. HasLargest(V)
      BY <2>1, <2>4, <2>6
    <3>2. PICK n \in V : \A m \in V : m <= n
      BY <3>1
    <3>3. n \in Nat
      BY <2>2
    <3>4. \A m \in U : m \in Nat /\ (m = x \/ m <= n)
      BY <2>2, <3>2
    <3>5. CASE n <= x
      <4>1. \A m \in U : m <= x
        BY <2>4, <3>3, <3>4, <3>5
      <4>. QED
        BY <2>2, <2>3, <4>1
    <3>6. CASE x <= n
      <4>1. \A m \in U : m <= n
        BY <2>4, <3>3, <3>4, <3>6
      <4>. QED
        BY <2>2, <4>1
    <3>. QED
      BY <2>4, <3>3, <3>5, <3>6
  <2>. QED
    BY <2>5, <2>6
<1>. QED
  BY <1>1 DEF FiniteSubsetsOf

\* Two tables of sums agree where both have an entry.
LEMMA AddsAgree ==
  ASSUME NEW f, NEW T, IsFiniteSet(T), NEW U \in SUBSET T, NEW a, NEW b,
         Adds(f, T, a), Adds(f, U, b)
  PROVE  \A s \in SUBSET U : a[s] = b[s]
<1>. DEFINE bad == {s \in SUBSET U : a[s] # b[s]}
<1>. SUFFICES ASSUME bad # {} PROVE FALSE
  OBVIOUS
<1>1. IsFiniteSet(U)
  BY FS_Subset
<1>2. PICK s \in bad : \A t \in bad : ~ (t \subseteq s /\ t # s)
  <2>1. bad \subseteq SUBSET U
    OBVIOUS
  <2>. HIDE DEF bad
  <2>. QED
    BY <1>1, <2>1, LeastSet
<1>3. s # {}
  BY DEF Adds
<1>4. First(s) \in s
  BY <1>3, FirstIsIn
<1>5. a[s \ {First(s)}] = b[s \ {First(s)}]
  BY <1>2, <1>4
<1>6. a[s] = f[First(s)] + a[s \ {First(s)}]
  BY <1>3 DEF Adds
<1>7. b[s] = f[First(s)] + b[s \ {First(s)}]
  BY <1>3 DEF Adds
<1>. QED
  BY <1>5, <1>6, <1>7

\* There is such a table.
LEMMA AddsExist ==
  ASSUME NEW f, NEW T, IsFiniteSet(T)
  PROVE  \E sums : Adds(f, T, sums)
<1>. DEFINE bad == {s \in SUBSET T : ~ \E sums : Adds(f, s, sums)}
<1>. SUFFICES ASSUME bad # {} PROVE FALSE
  OBVIOUS
<1>1. PICK s \in bad : \A t \in bad : ~ (t \subseteq s /\ t # s)
  <2>1. bad \subseteq SUBSET T
    OBVIOUS
  <2>. HIDE DEF bad
  <2>. QED
    BY <2>1, LeastSet
<1>2. CASE s = {}
  <2>. DEFINE g == [t \in SUBSET s |-> 0]
  <2>1. g = [t \in SUBSET s |-> IF t = {} THEN 0 ELSE f[First(t)] + g[t \ {First(t)}]]
    BY <1>2
  <2>. QED
    BY <2>1 DEF Adds
<1>3. CASE s # {}
  <2>. DEFINE table(t) == CHOOSE sums : Adds(f, t, sums)
              rest == s \ {First(s)}
              g == [t \in SUBSET s |->
                      IF t = s THEN f[First(s)] + table(rest)[rest] ELSE table(t)[t]]
  <2>1. First(s) \in s
    BY <1>3, FirstIsIn
  <2>2. \A t \in SUBSET s : t # s => Adds(f, t, table(t))
    BY <1>1
  <2>3. \A t \in SUBSET s : IsFiniteSet(t)
    BY FS_Subset
  <2>. HIDE DEF table
  <2>4. ASSUME NEW t \in SUBSET s, t # s, t # {}
        PROVE  table(t)[t] = f[First(t)] + table(t \ {First(t)})[t \ {First(t)}]
    <3>1. First(t) \in t
      BY <2>4, FirstIsIn
    <3>2. table(t)[t] = f[First(t)] + table(t)[t \ {First(t)}]
      BY <2>2, <2>4 DEF Adds
    <3>3. Adds(f, t, table(t)) /\ Adds(f, t \ {First(t)}, table(t \ {First(t)}))
      BY <2>2, <2>4, <3>1
    <3>4. table(t)[t \ {First(t)}] = table(t \ {First(t)})[t \ {First(t)}]
      BY <2>3, <3>3, AddsAgree
    <3>. QED
      BY <3>2, <3>4
  <2>5. ASSUME {} # s
        PROVE table({})[{}] = 0
    BY <2>2, <2>5 DEF Adds
  <2>6. \A t \in SUBSET s : g[t] = IF t = {} THEN 0 ELSE f[First(t)] + g[t \ {First(t)}]
    <3>. SUFFICES ASSUME NEW t \in SUBSET s
                  PROVE g[t] = IF t = {} THEN 0 ELSE f[First(t)] + g[t \ {First(t)}]
      OBVIOUS
    <3>1. CASE t = {}
      BY <1>3, <2>5, <3>1
    <3>2. CASE t # {} /\ t # s
      <4>1. First(t) \in t
        BY <3>2, FirstIsIn
      <4>2. g[t] = table(t)[t]
        BY <3>2
      <4>3. t \ {First(t)} \in SUBSET s /\ t \ {First(t)} # s
        BY <3>2, <4>1
      <4>4. g[t \ {First(t)}] = table(t \ {First(t)})[t \ {First(t)}]
        BY <4>3
      <4>. QED
        BY <2>4, <3>2, <4>2, <4>4
    <3>3. CASE t = s
      <4>1. g[t] = f[First(s)] + table(rest)[rest]
        BY <3>3
      <4>2. rest \in SUBSET s /\ rest # s
        BY <2>1
      <4>3. g[rest] = table(rest)[rest]
        BY <4>2
      <4>. QED
        BY <1>3, <3>3, <4>1, <4>3
    <3>. QED
      BY <3>1, <3>2, <3>3
  <2>7. g = [t \in SUBSET s |-> IF t = {} THEN 0 ELSE f[First(t)] + g[t \ {First(t)}]]
    <3>. DEFINE h == [t \in SUBSET s |-> IF t = {} THEN 0 ELSE f[First(t)] + g[t \ {First(t)}]]
    <3>1. DOMAIN g = SUBSET s /\ DOMAIN h = SUBSET s
      OBVIOUS
    <3>2. \A t \in SUBSET s : h[t] = IF t = {} THEN 0 ELSE f[First(t)] + g[t \ {First(t)}]
      OBVIOUS
    <3>3. \A t \in SUBSET s : g[t] = h[t]
      BY <2>6, <3>2
    <3>. QED
      BY <3>1, <3>3
  <2>8. Adds(f, s, g)
    BY <2>7 DEF Adds
  <2>. QED
    BY <2>8
<1>. QED
  BY <1>2, <1>3

\* The library's sum is the last entry of the table.
LEMMA SumIsInTable ==
  ASSUME NEW f, NEW T, IsFiniteSet(T)
  PROVE  \E sums : Adds(f, T, sums) /\ SumFunctionOnSet(f, T) = sums[T]
<1>. DEFINE Iter == CHOOSE iter : iter = [s \in SUBSET T |->
                      IF s = {} THEN 0
                      ELSE f[CHOOSE x \in s : TRUE] + iter[s \ {CHOOSE x \in s : TRUE}]]
<1>1. SumFunctionOnSet(f, T) = Iter[T]
  BY DEF SumFunctionOnSet, FoldFunctionOnSet, MapThenFoldSet
<1>2. \E iter : iter = [s \in SUBSET T |->
                    IF s = {} THEN 0
                    ELSE f[CHOOSE x \in s : TRUE] + iter[s \ {CHOOSE x \in s : TRUE}]]
  <2>1. PICK sums : Adds(f, T, sums)
    BY AddsExist
  <2>2. sums = [s \in SUBSET T |->
                  IF s = {} THEN 0
                  ELSE f[CHOOSE x \in s : TRUE] + sums[s \ {CHOOSE x \in s : TRUE}]]
    BY <2>1, Zenon DEF Adds, First
  <2>. QED
    BY <2>2, Zenon
<1>3. Iter = [s \in SUBSET T |->
                IF s = {} THEN 0
                ELSE f[CHOOSE x \in s : TRUE] + Iter[s \ {CHOOSE x \in s : TRUE}]]
  BY <1>2, Zenon
<1>. HIDE DEF Iter
<1>4. Adds(f, T, Iter)
  BY <1>3, Zenon DEF Adds, First
<1>. QED
  BY <1>1, <1>4, Zenon

---------------------------------------------------------------------------
(* Adding one value at a time *)

LEMMA SumOfNone == ASSUME NEW f PROVE SumFunctionOnSet(f, {}) = 0
<1>1. PICK sums : Adds(f, {}, sums) /\ SumFunctionOnSet(f, {}) = sums[{}]
  BY SumIsInTable, FS_EmptySet
<1>. QED
  BY <1>1 DEF Adds

LEMMA SumOfFirst ==
  ASSUME NEW f, NEW T, IsFiniteSet(T), T # {}
  PROVE  SumFunctionOnSet(f, T) = f[First(T)] + SumFunctionOnSet(f, T \ {First(T)})
<1>. DEFINE U == T \ {First(T)}
<1>1. First(T) \in T /\ U \in SUBSET T /\ IsFiniteSet(U)
  BY FirstIsIn, FS_Subset
<1>2. PICK a : Adds(f, T, a) /\ SumFunctionOnSet(f, T) = a[T]
  BY SumIsInTable
<1>3. PICK b : Adds(f, U, b) /\ SumFunctionOnSet(f, U) = b[U]
  BY <1>1, SumIsInTable
<1>4. a[T] = f[First(T)] + a[U]
  BY <1>2 DEF Adds
<1>5. a[U] = b[U]
  BY <1>1, <1>2, <1>3, AddsAgree
<1>. QED
  BY <1>2, <1>3, <1>4, <1>5

LEMMA SumIsInt ==
  ASSUME NEW f, NEW T, IsFiniteSet(T), \A x \in T : f[x] \in Int
  PROVE  SumFunctionOnSet(f, T) \in Int
<1>. DEFINE bad == {s \in SUBSET T : SumFunctionOnSet(f, s) \notin Int}
<1>. SUFFICES ASSUME bad # {} PROVE FALSE
  OBVIOUS
<1>1. PICK s \in bad : \A t \in bad : ~ (t \subseteq s /\ t # s)
  <2>1. bad \subseteq SUBSET T
    OBVIOUS
  <2>. HIDE DEF bad
  <2>. QED
    BY <2>1, LeastSet
<1>2. s # {}
  BY SumOfNone
<1>3. First(s) \in s /\ IsFiniteSet(s)
  BY <1>2, FirstIsIn, FS_Subset
<1>4. SumFunctionOnSet(f, s \ {First(s)}) \in Int
  BY <1>1, <1>3
<1>. QED
  BY <1>2, <1>3, <1>4, SumOfFirst

\* Any value may be taken first.
LEMMA SumOfOther ==
  ASSUME NEW f, NEW T, IsFiniteSet(T), \A x \in T : f[x] \in Int, NEW x \in T
  PROVE  SumFunctionOnSet(f, T) = f[x] + SumFunctionOnSet(f, T \ {x})
<1>. DEFINE Fits(s) == \A y \in s : SumFunctionOnSet(f, s) = f[y] + SumFunctionOnSet(f, s \ {y})
            bad == {s \in SUBSET T : ~ Fits(s)}
<1>. SUFFICES ASSUME bad # {} PROVE FALSE
  OBVIOUS
<1>1. PICK s \in bad : \A t \in bad : ~ (t \subseteq s /\ t # s)
  <2>1. bad \subseteq SUBSET T
    OBVIOUS
  <2>. HIDE DEF bad
  <2>. QED
    BY <2>1, LeastSet
<1>2. PICK y \in s : SumFunctionOnSet(f, s) # f[y] + SumFunctionOnSet(f, s \ {y})
  OBVIOUS
<1>3. IsFiniteSet(s) /\ First(s) \in s
  BY <1>2, FirstIsIn, FS_Subset
<1>4. PICK z : z = First(s)
  OBVIOUS
<1>5. z \in s /\ SumFunctionOnSet(f, s) = f[z] + SumFunctionOnSet(f, s \ {z})
  BY <1>2, <1>3, <1>4, SumOfFirst
<1>6. z # y
  BY <1>2, <1>5
<1>7. Fits(s \ {z}) /\ Fits(s \ {y})
  BY <1>1, <1>5
<1>8. SumFunctionOnSet(f, s \ {z}) = f[y] + SumFunctionOnSet(f, (s \ {z}) \ {y})
  BY <1>6, <1>7
<1>9. SumFunctionOnSet(f, s \ {y}) = f[z] + SumFunctionOnSet(f, (s \ {y}) \ {z})
  BY <1>5, <1>6, <1>7
<1>10. (s \ {z}) \ {y} = (s \ {y}) \ {z}
  OBVIOUS
<1>11. f[y] \in Int /\ f[z] \in Int /\ SumFunctionOnSet(f, (s \ {y}) \ {z}) \in Int
  <2>1. IsFiniteSet((s \ {y}) \ {z})
    BY <1>3, FS_Subset
  <2>. QED
    BY <1>5, <2>1, SumIsInt
<1>12. SumFunctionOnSet(f, (s \ {z}) \ {y}) = SumFunctionOnSet(f, (s \ {y}) \ {z})
  BY <1>10
<1>. HIDE DEF bad, Fits
<1>. QED
  BY <1>2, <1>5, <1>8, <1>9, <1>11, <1>12

\* The sum over an interval ends with its last number.
LEMMA SumOfLast ==
  ASSUME NEW f, NEW a \in Int, NEW k \in Int, a <= k, \A i \in a .. k : f[i] \in Int
  PROVE  SumFunctionOnSet(f, a .. k) = f[k] + SumFunctionOnSet(f, a .. k - 1)
<1>1. IsFiniteSet(a .. k)
  BY FS_Interval
<1>2. k \in a .. k /\ (a .. k) \ {k} = a .. k - 1
  OBVIOUS
<1>3. PICK S : S = a .. k
  OBVIOUS
<1>4. PICK T : T = a .. k - 1
  OBVIOUS
<1>5. PICK x : x = k
  OBVIOUS
<1>6. IsFiniteSet(S) /\ x \in S /\ S \ {x} = T /\ \A i \in S : f[i] \in Int
  BY <1>1, <1>2, <1>3, <1>4, <1>5
<1>7. SumFunctionOnSet(f, S) = f[x] + SumFunctionOnSet(f, S \ {x})
  BY ONLY <1>6, SumOfOther
<1>. QED
  BY <1>3, <1>4, <1>5, <1>6, <1>7

LEMMA SumOfOne ==
  ASSUME NEW f, NEW x, f[x] \in Int
  PROVE  SumFunctionOnSet(f, {x}) = f[x]
<1>1. IsFiniteSet({x})
  BY FS_Singleton
<1>2. SumFunctionOnSet(f, {x}) = f[x] + SumFunctionOnSet(f, {x} \ {x})
  BY <1>1, SumOfOther
<1>3. {x} \ {x} = {}
  OBVIOUS
<1>. QED
  BY <1>2, <1>3, SumOfNone

\* Two values may be taken first.
LEMMA SumOfPair ==
  ASSUME NEW f, NEW T, IsFiniteSet(T), \A x \in T : f[x] \in Int,
         NEW x \in T, NEW y \in T, x # y, NEW U, U = (T \ {x}) \ {y}
  PROVE  SumFunctionOnSet(f, T) = f[x] + f[y] + SumFunctionOnSet(f, U)
<1>1. SumFunctionOnSet(f, T) = f[x] + SumFunctionOnSet(f, T \ {x})
  BY SumOfOther
<1>2. IsFiniteSet(T \ {x}) /\ y \in T \ {x}
  BY FS_Subset
<1>3. SumFunctionOnSet(f, T \ {x}) = f[y] + SumFunctionOnSet(f, (T \ {x}) \ {y})
  BY <1>2, SumOfOther
<1>4. SumFunctionOnSet(f, (T \ {x}) \ {y}) \in Int
  <2>1. IsFiniteSet((T \ {x}) \ {y})
    BY FS_Subset
  <2>. QED
    BY <2>1, SumIsInt
<1>. QED
  BY <1>1, <1>3, <1>4

---------------------------------------------------------------------------
(* Two sums *)

LEMMA ImageIsFinite ==
  ASSUME NEW h, NEW T, IsFiniteSet(T)
  PROVE  IsFiniteSet({h[x] : x \in T})
<1>. DEFINE g == [x \in T |-> h[x]]
<1>1. g \in Surjection(T, {h[x] : x \in T})
  BY DEF Surjection
<1>. HIDE DEF g
<1>. QED
  BY <1>1, FS_Surjection

\* Sums of values that are the same are the same, over sets that correspond.
LEMMA SumsAlongMap ==
  ASSUME NEW f, NEW g, NEW T, IsFiniteSet(T), NEW h,
         \A x \in T : f[x] \in Int /\ g[h[x]] = f[x],
         \A x, y \in T : h[x] = h[y] => x = y
  PROVE  SumFunctionOnSet(g, {h[x] : x \in T}) = SumFunctionOnSet(f, T)
<1>. DEFINE Image(s) == {h[x] : x \in s}
            bad == {s \in SUBSET T : SumFunctionOnSet(g, Image(s)) # SumFunctionOnSet(f, s)}
<1>. SUFFICES ASSUME bad # {} PROVE FALSE
  OBVIOUS
<1>1. PICK s \in bad : \A t \in bad : ~ (t \subseteq s /\ t # s)
  <2>1. bad \subseteq SUBSET T
    OBVIOUS
  <2>. HIDE DEF bad
  <2>. QED
    BY <2>1, LeastSet
<1>2. s # {}
  <2>1. Image({}) = {}
    OBVIOUS
  <2>. QED
    BY <2>1, SumOfNone
<1>3. PICK y \in s : TRUE
  BY <1>2
<1>4. IsFiniteSet(s) /\ s \subseteq T
  BY FS_Subset
<1>5. IsFiniteSet(Image(s)) /\ \A z \in Image(s) : g[z] \in Int
  <2>1. IsFiniteSet(Image(s))
    BY <1>4, ImageIsFinite
  <2>2. \A z \in Image(s) : g[z] \in Int
    BY <1>4
  <2>. QED
    BY <2>1, <2>2
<1>6. Image(s) \ {h[y]} = Image(s \ {y})
  BY <1>4
<1>7. SumFunctionOnSet(g, Image(s)) = g[h[y]] + SumFunctionOnSet(g, Image(s) \ {h[y]})
  BY <1>5, SumOfOther
<1>8. SumFunctionOnSet(f, s) = f[y] + SumFunctionOnSet(f, s \ {y})
  BY <1>4, SumOfOther
<1>9. SumFunctionOnSet(g, Image(s \ {y})) = SumFunctionOnSet(f, s \ {y})
  BY <1>1, <1>3
<1>10. g[h[y]] = f[y] /\ SumFunctionOnSet(g, Image(s)) # SumFunctionOnSet(f, s)
  BY <1>4
<1>. HIDE DEF bad, Image
<1>. QED
  BY <1>6, <1>7, <1>8, <1>9, <1>10

LEMMA SumOverImage ==
  ASSUME NEW f, NEW g, NEW T, IsFiniteSet(T), NEW h, NEW U,
         \A x \in T : f[x] \in Int /\ g[h[x]] = f[x],
         \A x, y \in T : h[x] = h[y] => x = y,
         U = {h[x] : x \in T}
  PROVE  SumFunctionOnSet(g, U) = SumFunctionOnSet(f, T)
<1>1. SumFunctionOnSet(g, {h[x] : x \in T}) = SumFunctionOnSet(f, T)
  BY SumsAlongMap
<1>. QED
  BY <1>1

LEMMA SumsAreEqual ==
  ASSUME NEW f, NEW g, NEW T, IsFiniteSet(T), \A x \in T : f[x] \in Int /\ f[x] = g[x]
  PROVE  SumFunctionOnSet(f, T) = SumFunctionOnSet(g, T)
<1>. DEFINE h == [x \in T |-> x]
<1>1. /\ \A x \in T : f[x] \in Int /\ g[h[x]] = f[x]
      /\ \A x, y \in T : h[x] = h[y] => x = y
      /\ {h[x] : x \in T} = T
  OBVIOUS
<1>. HIDE DEF h
<1>2. SumFunctionOnSet(g, {h[x] : x \in T}) = SumFunctionOnSet(f, T)
  BY <1>1, SumsAlongMap
<1>. QED
  BY <1>1, <1>2

\* A sum that is larger in two of its values, taken together, and has the others.
LEMMA SumIsLarger ==
  ASSUME NEW f, NEW g, NEW T, IsFiniteSet(T), \A x \in T : f[x] \in Int /\ g[x] \in Int,
         NEW x \in T, NEW y \in T, x # y, f[x] + f[y] < g[x] + g[y],
         \A z \in T : z # x /\ z # y => f[z] = g[z]
  PROVE  SumFunctionOnSet(f, T) < SumFunctionOnSet(g, T)
<1>1. PICK U : U = (T \ {x}) \ {y}
  OBVIOUS
<1>2. SumFunctionOnSet(f, T) = f[x] + f[y] + SumFunctionOnSet(f, U)
  BY <1>1, SumOfPair
<1>3. SumFunctionOnSet(g, T) = g[x] + g[y] + SumFunctionOnSet(g, U)
  BY <1>1, SumOfPair
<1>4. IsFiniteSet(U) /\ \A z \in U : f[z] \in Int /\ f[z] = g[z]
  BY <1>1, FS_Subset
<1>5. SumFunctionOnSet(f, U) = SumFunctionOnSet(g, U) /\ SumFunctionOnSet(f, U) \in Int
  BY <1>4, SumsAreEqual, SumIsInt
<1>6. f[x] \in Int /\ f[y] \in Int /\ g[x] \in Int /\ g[y] \in Int
  OBVIOUS
<1>. QED
  BY <1>2, <1>3, <1>5, <1>6

\* The sum of f + g.
LEMMA SumIsLinear ==
  ASSUME NEW f, NEW g, NEW h, NEW T, IsFiniteSet(T),
         \A x \in T : f[x] \in Int /\ g[x] \in Int /\ h[x] = f[x] + g[x]
  PROVE  SumFunctionOnSet(h, T) = SumFunctionOnSet(f, T) + SumFunctionOnSet(g, T)
<1>. DEFINE bad == {s \in SUBSET T : SumFunctionOnSet(h, s)
                                       # SumFunctionOnSet(f, s) + SumFunctionOnSet(g, s)}
<1>. SUFFICES ASSUME bad # {} PROVE FALSE
  OBVIOUS
<1>1. PICK s \in bad : \A t \in bad : ~ (t \subseteq s /\ t # s)
  <2>1. bad \subseteq SUBSET T
    OBVIOUS
  <2>. HIDE DEF bad
  <2>. QED
    BY <2>1, LeastSet
<1>2. s # {}
  <2>1. /\ SumFunctionOnSet(f, {}) = 0 /\ SumFunctionOnSet(g, {}) = 0
        /\ SumFunctionOnSet(h, {}) = 0
    BY SumOfNone
  <2>. SUFFICES ASSUME s = {} PROVE FALSE
    OBVIOUS
  <2>2. SumFunctionOnSet(h, s) # SumFunctionOnSet(f, s) + SumFunctionOnSet(g, s)
    OBVIOUS
  <2>3. SumFunctionOnSet(f, s) = 0 /\ SumFunctionOnSet(g, s) = 0 /\ SumFunctionOnSet(h, s) = 0
    BY <2>1
  <2>. HIDE DEF bad
  <2>. QED
    BY <2>2, <2>3
<1>3. PICK y \in s : TRUE
  BY <1>2
<1>4. IsFiniteSet(s) /\ s \subseteq T /\ IsFiniteSet(s \ {y})
  BY FS_Subset
<1>5. SumFunctionOnSet(f, s) = f[y] + SumFunctionOnSet(f, s \ {y})
  BY <1>4, SumOfOther
<1>6. SumFunctionOnSet(g, s) = g[y] + SumFunctionOnSet(g, s \ {y})
  BY <1>4, SumOfOther
<1>7. SumFunctionOnSet(h, s) = h[y] + SumFunctionOnSet(h, s \ {y})
  BY <1>4, SumOfOther
<1>8. SumFunctionOnSet(h, s \ {y})
        = SumFunctionOnSet(f, s \ {y}) + SumFunctionOnSet(g, s \ {y})
  BY <1>1, <1>3
<1>9. SumFunctionOnSet(f, s \ {y}) \in Int /\ SumFunctionOnSet(g, s \ {y}) \in Int
  BY <1>4, SumIsInt
<1>10. /\ f[y] \in Int /\ g[y] \in Int /\ h[y] = f[y] + g[y]
       /\ SumFunctionOnSet(h, s) # SumFunctionOnSet(f, s) + SumFunctionOnSet(g, s)
  BY <1>4
<1>. HIDE DEF bad
<1>. QED
  BY <1>5, <1>6, <1>7, <1>8, <1>9, <1>10

\* A sum is at least that of smaller values.
LEMMA SumIsMonotone ==
  ASSUME NEW f, NEW g, NEW T, IsFiniteSet(T),
         \A x \in T : f[x] \in Int /\ g[x] \in Int /\ f[x] <= g[x]
  PROVE  SumFunctionOnSet(f, T) <= SumFunctionOnSet(g, T)
<1>. DEFINE bad == {s \in SUBSET T : ~ (SumFunctionOnSet(f, s) <= SumFunctionOnSet(g, s))}
<1>. SUFFICES ASSUME bad # {} PROVE FALSE
  OBVIOUS
<1>1. PICK s \in bad : \A t \in bad : ~ (t \subseteq s /\ t # s)
  <2>1. bad \subseteq SUBSET T
    OBVIOUS
  <2>. HIDE DEF bad
  <2>. QED
    BY <2>1, LeastSet
<1>2. s # {}
  <2>1. SumFunctionOnSet(f, {}) = 0 /\ SumFunctionOnSet(g, {}) = 0
    BY SumOfNone
  <2>2. ~ (SumFunctionOnSet(f, s) <= SumFunctionOnSet(g, s))
    OBVIOUS
  <2>. HIDE DEF bad
  <2>. QED
    BY <2>1, <2>2
<1>3. PICK y \in s : TRUE
  BY <1>2
<1>4. IsFiniteSet(s) /\ s \subseteq T /\ IsFiniteSet(s \ {y})
  BY FS_Subset
<1>5. SumFunctionOnSet(f, s) = f[y] + SumFunctionOnSet(f, s \ {y})
  BY <1>4, SumOfOther
<1>6. SumFunctionOnSet(g, s) = g[y] + SumFunctionOnSet(g, s \ {y})
  BY <1>4, SumOfOther
<1>7. SumFunctionOnSet(f, s \ {y}) <= SumFunctionOnSet(g, s \ {y})
  BY <1>1, <1>3
<1>8. SumFunctionOnSet(f, s \ {y}) \in Int /\ SumFunctionOnSet(g, s \ {y}) \in Int
  BY <1>4, SumIsInt
<1>9. /\ f[y] \in Int /\ g[y] \in Int /\ f[y] <= g[y]
      /\ ~ (SumFunctionOnSet(f, s) <= SumFunctionOnSet(g, s))
  BY <1>4
<1>. HIDE DEF bad
<1>. QED
  BY <1>5, <1>6, <1>7, <1>8, <1>9

\* A sum of the same number is the number times how often it occurs.
LEMMA SumOfSame ==
  ASSUME NEW f, NEW k \in Int, NEW T, IsFiniteSet(T), \A x \in T : f[x] = k
  PROVE  SumFunctionOnSet(f, T) = k * Cardinality(T)
<1>. DEFINE bad == {s \in SUBSET T : SumFunctionOnSet(f, s) # k * Cardinality(s)}
<1>. SUFFICES ASSUME bad # {} PROVE FALSE
  OBVIOUS
<1>1. PICK s \in bad : \A t \in bad : ~ (t \subseteq s /\ t # s)
  <2>1. bad \subseteq SUBSET T
    OBVIOUS
  <2>. HIDE DEF bad
  <2>. QED
    BY <2>1, LeastSet
<1>2. s # {}
  <2>1. SumFunctionOnSet(f, {}) = 0 /\ Cardinality({}) = 0 /\ k * 0 = 0
    BY SumOfNone, FS_EmptySet
  <2>. QED
    BY <2>1
<1>3. PICK y \in s : TRUE
  BY <1>2
<1>4. IsFiniteSet(s) /\ s \subseteq T /\ IsFiniteSet(s \ {y})
  BY FS_Subset
<1>5. SumFunctionOnSet(f, s) = k + SumFunctionOnSet(f, s \ {y})
  BY <1>4, SumOfOther
<1>6. SumFunctionOnSet(f, s \ {y}) = k * Cardinality(s \ {y})
  BY <1>1, <1>3
<1>7. PICK n \in Nat : n = Cardinality(s \ {y}) /\ Cardinality(s) = n + 1
  BY <1>4, FS_RemoveElement, FS_CardinalityType
<1>8. k * (n + 1) = k + k * n
  OBVIOUS
<1>9. SumFunctionOnSet(f, s) # k * Cardinality(s)
  OBVIOUS
<1>. HIDE DEF bad
<1>. QED
  BY <1>5, <1>6, <1>7, <1>8, <1>9

LEMMA SumOfScaled ==
  ASSUME NEW f, NEW g, NEW k \in Int, NEW T, IsFiniteSet(T),
         \A x \in T : f[x] \in Int /\ g[x] = k * f[x]
  PROVE  SumFunctionOnSet(g, T) = k * SumFunctionOnSet(f, T)
<1>. DEFINE bad == {s \in SUBSET T : SumFunctionOnSet(g, s) # k * SumFunctionOnSet(f, s)}
<1>. SUFFICES ASSUME bad # {} PROVE FALSE
  OBVIOUS
<1>1. PICK s \in bad : \A t \in bad : ~ (t \subseteq s /\ t # s)
  <2>1. bad \subseteq SUBSET T
    OBVIOUS
  <2>. HIDE DEF bad
  <2>. QED
    BY <2>1, LeastSet
<1>2. s # {}
  <2>1. SumFunctionOnSet(f, {}) = 0 /\ SumFunctionOnSet(g, {}) = 0 /\ k * 0 = 0
    BY SumOfNone
  <2>. QED
    BY <2>1
<1>3. PICK y \in s : TRUE
  BY <1>2
<1>4. IsFiniteSet(s) /\ s \subseteq T /\ IsFiniteSet(s \ {y})
  BY FS_Subset
<1>5. SumFunctionOnSet(f, s) = f[y] + SumFunctionOnSet(f, s \ {y})
  BY <1>4, SumOfOther
<1>6. SumFunctionOnSet(g, s) = k * f[y] + SumFunctionOnSet(g, s \ {y})
  BY <1>4, SumOfOther
<1>7. SumFunctionOnSet(g, s \ {y}) = k * SumFunctionOnSet(f, s \ {y})
  BY <1>1, <1>3
<1>8. PICK n \in Int : n = SumFunctionOnSet(f, s \ {y})
  BY <1>4, SumIsInt
<1>9. PICK a \in Int : a = f[y]
  BY <1>4
<1>10. k * (a + n) = k * a + k * n
  OBVIOUS
<1>11. SumFunctionOnSet(g, s) # k * SumFunctionOnSet(f, s)
  OBVIOUS
<1>. HIDE DEF bad
<1>. QED
  BY <1>5, <1>6, <1>7, <1>8, <1>9, <1>10, <1>11

\* The elements of T, put into the classes of K by h.
LEMMA SumByClass ==
  ASSUME NEW f, NEW h, NEW K, IsFiniteSet(K), NEW T, IsFiniteSet(T),
         \A x \in T : f[x] \in Int /\ h[x] \in K, NEW sums,
         \A k \in K : \E U : /\ sums[k] = SumFunctionOnSet(f, U)
                            /\ \A x : x \in U <=> x \in T /\ h[x] = k
  PROVE  SumFunctionOnSet(sums, K) = SumFunctionOnSet(f, T)
<1>. DEFINE Class(s, k) == {x \in s : h[x] = k}
            Sums(s) == [k \in K |-> SumFunctionOnSet(f, Class(s, k))]
            bad == {s \in SUBSET T : SumFunctionOnSet(Sums(s), K) # SumFunctionOnSet(f, s)}
<1>1. \A s \in SUBSET T : IsFiniteSet(s)
  BY FS_Subset
<1>2. ASSUME NEW s \in SUBSET T, NEW k \in K
      PROVE  Sums(s)[k] \in Int
  <2>1. Class(s, k) \in SUBSET T /\ \A x \in Class(s, k) : f[x] \in Int
    OBVIOUS
  <2>. QED
    BY <1>1, <2>1, SumIsInt
<1>3. bad = {}
  <2>. SUFFICES ASSUME bad # {} PROVE FALSE
    OBVIOUS
  <2>1. PICK s \in bad : \A t \in bad : ~ (t \subseteq s /\ t # s)
    <3>1. bad \subseteq SUBSET T
      OBVIOUS
    <3>. HIDE DEF bad
    <3>. QED
      BY <3>1, LeastSet
  <2>. DEFINE total == SumFunctionOnSet(Sums(s), K)
  <2>2. s # {}
    <3>1. \A k \in K : Sums({})[k] = 0
      <4>1. \A k \in K : Class({}, k) = {}
        OBVIOUS
      <4>. QED
        BY <4>1, SumOfNone
    <3>2. SumFunctionOnSet(Sums({}), K) = 0 * Cardinality(K)
      <4>. HIDE DEF Sums
      <4>. QED
        BY <3>1, SumOfSame
    <3>3. 0 * Cardinality(K) = 0
      BY FS_CardinalityType
    <3>. QED
      BY <3>2, <3>3, SumOfNone
  <2>3. PICK y \in s : TRUE
    BY <2>2
  <2>4. PICK rest : rest = s \ {y}
    OBVIOUS
  <2>5. rest \in SUBSET T /\ s \in SUBSET T /\ y \in T /\ h[y] \in K /\ f[y] \in Int
    BY <2>4
  <2>6. PICK one : one = [k \in K |-> IF k = h[y] THEN f[y] ELSE 0]
    OBVIOUS
  <2>7. \A k \in K : Sums(s)[k] = one[k] + Sums(rest)[k]
    <3>. SUFFICES ASSUME NEW k \in K PROVE Sums(s)[k] = one[k] + Sums(rest)[k]
      OBVIOUS
    <3>1. Class(s, k) \in SUBSET T /\ IsFiniteSet(Class(s, k))
      BY <1>1, <2>5
    <3>2. CASE k = h[y]
      <4>1. y \in Class(s, k) /\ Class(s, k) \ {y} = Class(rest, k)
        BY <2>4, <3>2
      <4>2. SumFunctionOnSet(f, Class(s, k)) = f[y] + SumFunctionOnSet(f, Class(s, k) \ {y})
        BY <3>1, <4>1, SumOfOther
      <4>3. one[k] = f[y]
        BY <2>6, <3>2
      <4>. QED
        BY <4>1, <4>2, <4>3
    <3>3. CASE k # h[y]
      <4>1. Class(s, k) = Class(rest, k)
        BY <2>4, <3>3
      <4>2. one[k] = 0
        BY <2>6, <3>3
      <4>3. Sums(s)[k] = Sums(rest)[k]
        BY <4>1
      <4>4. Sums(rest)[k] \in Int
        BY <1>2, <2>5
      <4>. HIDE DEF Sums
      <4>. QED
        BY ONLY <4>2, <4>3, <4>4
    <3>. QED
      BY <3>2, <3>3
  <2>8. SumFunctionOnSet(one, K) = f[y]
    <3>1. \A k \in K : one[k] \in Int
      BY <2>5, <2>6
    <3>2. SumFunctionOnSet(one, K) = one[h[y]] + SumFunctionOnSet(one, K \ {h[y]})
      BY <2>5, <3>1, SumOfOther
    <3>3. SumFunctionOnSet(one, K \ {h[y]}) = 0 * Cardinality(K \ {h[y]})
      <4>1. \A k \in K \ {h[y]} : one[k] = 0
        BY <2>6
      <4>2. IsFiniteSet(K \ {h[y]})
        BY FS_Subset
      <4>. QED
        BY <4>1, <4>2, SumOfSame
    <3>4. 0 * Cardinality(K \ {h[y]}) = 0
      <4>1. Cardinality(K \ {h[y]}) \in Nat
        BY FS_RemoveElement, FS_CardinalityType
      <4>. QED
        BY <4>1
    <3>5. one[h[y]] = f[y]
      BY <2>5, <2>6
    <3>. QED
      BY <2>5, <3>2, <3>3, <3>4, <3>5
  <2>9. \A k \in K : one[k] \in Int /\ Sums(rest)[k] \in Int
    <3>1. \A k \in K : one[k] \in Int
      BY <2>5, <2>6
    <3>2. \A k \in K : Sums(rest)[k] \in Int
      <4>. HIDE DEF Sums
      <4>. QED
        BY ONLY <1>2, <2>5
    <3>. QED
      BY <3>1, <3>2
  <2>10. SumFunctionOnSet(Sums(s), K) = SumFunctionOnSet(one, K) + SumFunctionOnSet(Sums(rest), K)
    <3>. HIDE DEF Sums
    <3>. QED
      BY <2>7, <2>9, SumIsLinear
  <2>11. SumFunctionOnSet(Sums(rest), K) = SumFunctionOnSet(f, rest)
    BY <2>1, <2>3, <2>4, <2>5
  <2>12. SumFunctionOnSet(f, s) = f[y] + SumFunctionOnSet(f, rest)
    BY <1>1, <2>4, <2>5, SumOfOther
  <2>13. SumFunctionOnSet(Sums(s), K) # SumFunctionOnSet(f, s)
    OBVIOUS
  <2>. HIDE DEF bad, Sums
  <2>. QED
    BY <2>8, <2>10, <2>11, <2>12, <2>13
<1>4. SumFunctionOnSet(Sums(T), K) = SumFunctionOnSet(f, T)
  BY <1>3
<1>5. ASSUME NEW k \in K
      PROVE  Sums(T)[k] \in Int /\ Sums(T)[k] = sums[k]
  <2>1. PICK U : sums[k] = SumFunctionOnSet(f, U) /\ \A x : x \in U <=> x \in T /\ h[x] = k
    OBVIOUS
  <2>2. U = Class(T, k)
    BY <2>1
  <2>. QED
    BY <1>2, <2>1, <2>2
<1>6. SumFunctionOnSet(Sums(T), K) = SumFunctionOnSet(sums, K)
  <2>. HIDE DEF Sums
  <2>. QED
    BY <1>5, SumsAreEqual
<1>. QED
  BY <1>4, <1>6
=============================================================================
