-------------------------- MODULE HttpMetricsProofs --------------------------
(****************************************************************************)
(* What holds of the HTTP metrics for every window, interval of refreshing, *)
(* and any paths, codes, requests and readers: nothing is invented, however *)
(* late they come to the lock; as long as none of them comes with the time  *)
(* of a bucket that is over, snapshots add up and answers are exact.        *)
(****************************************************************************)
EXTENDS HttpMetrics, FiniteSetTheorems, WellFoundedInduction, TLAPS

-----------------------------------------------------------------------------
(* Buckets, and what is left of a count.                                    *)

Buckets == {BucketStart(at) : at \in Nat}

LEMMA BucketsApart ==
  ASSUME NEW s \in Nat, NEW t \in Nat
  PROVE  /\ BucketStart(s) \in Nat /\ s - BucketStart(s) \in 0..(Span - 1)
         /\ BucketStart(s) < BucketStart(t) => BucketStart(s) + Span <= BucketStart(t)
         /\ BucketStart(s) = BucketStart(t) \/ s < t => BucketStart(s) <= BucketStart(t)
<1> DEFINE x == s \div Span
           y == t \div Span
<1>0. Span \in Nat /\ Span > 0
  BY SpanAssumption
<1>1. x \in Nat /\ y \in Nat /\ s % Span \in 0..(Span - 1) /\ t % Span \in 0..(Span - 1)
  BY <1>0
<1>2. s = Span * x + (s % Span) /\ t = Span * y + (t % Span)
  BY <1>0
<1>3. Span * x \in Nat /\ Span * y \in Nat
  BY <1>0, <1>1
<1>4. BucketStart(s) = s - (s % Span) /\ BucketStart(t) = t - (t % Span)
  BY DEF BucketStart
<1> HIDE DEF x, y
<1>5. BucketStart(s) = Span * x /\ BucketStart(t) = Span * y
  BY <1>1, <1>2, <1>3, <1>4
<1>6. ASSUME NEW i \in Nat, NEW j \in Nat, Span * i < Span * j
      PROVE  Span * i + Span <= Span * j
  <2>1. Span * i \in Nat /\ Span * j \in Nat
    BY <1>0
  <2>2. i < j
    <3> SUFFICES ASSUME j <= i PROVE FALSE
      OBVIOUS
    <3>1. Span * j <= Span * i
      BY <1>0
    <3> QED BY <1>6, <2>1, <3>1
  <2>3. Span * (i + 1) <= Span * j
    BY <1>0, <2>2
  <2>4. Span * (i + 1) = Span * i + Span
    BY <1>0
  <2> QED BY <2>3, <2>4
<1>7. s - BucketStart(s) = s % Span
  BY <1>1, <1>4
<1>8. Span * y < Span * x => Span * y + Span <= Span * x
  BY <1>1, <1>6
<1>9. Span * x < Span * y => Span * x + Span <= Span * y
  BY <1>1, <1>6
<1> QED BY <1>0, <1>1, <1>2, <1>3, <1>5, <1>7, <1>8, <1>9

\* Division, by multiples of the divisor.
LEMMA ShareIs ==
  ASSUME NEW n \in Nat
  PROVE  /\ n \div Span \in Nat
         /\ (n \div Span) * Span <= n /\ n < (n \div Span) * Span + Span
<1>0. Span \in Nat /\ Span > 0
  BY SpanAssumption
<1>1. n \div Span \in Nat /\ n % Span \in 0..(Span - 1)
  BY <1>0
<1>2. n = Span * (n \div Span) + (n % Span)
  BY <1>0
<1>3. PICK m \in Nat : m = n \div Span
  BY <1>1
<1>4. PICK k \in Nat : k = Span * m
  BY <1>0
<1>5. m * Span = k
  BY <1>0, <1>4
<1> QED BY <1>0, <1>1, <1>2, <1>3, <1>4, <1>5

LEMMA SharesOrdered ==
  ASSUME NEW m \in Nat, NEW n \in Nat, m <= n
  PROVE  m \div Span <= n \div Span
<1>1. PICK x \in Nat : x = m \div Span /\ x * Span <= m
  BY ShareIs
<1>2. PICK y \in Nat : y = n \div Span /\ n < y * Span + Span
  BY ShareIs
<1> SUFFICES ASSUME y + 1 <= x PROVE FALSE
  BY <1>1, <1>2
<1>3. (y + 1) * Span <= x * Span
  BY SpanAssumption
<1>4. (y + 1) * Span = y * Span + Span
  BY SpanAssumption
<1>5. y * Span \in Nat /\ x * Span \in Nat /\ Span \in Nat
  BY SpanAssumption
<1> QED BY <1>1, <1>2, <1>3, <1>4, <1>5

LEMMA SharesAdd ==
  ASSUME NEW m \in Nat, NEW n \in Nat
  PROVE  (m \div Span) + (n \div Span) <= (m + n) \div Span
<1>1. PICK x \in Nat : x = m \div Span /\ x * Span <= m
  BY ShareIs
<1>2. PICK y \in Nat : y = n \div Span /\ y * Span <= n
  BY ShareIs
<1>3. PICK z \in Nat : z = (m + n) \div Span /\ m + n < z * Span + Span
  BY ShareIs
<1> SUFFICES ASSUME z + 1 <= x + y PROVE FALSE
  BY <1>1, <1>2, <1>3
<1>4. (z + 1) * Span <= (x + y) * Span
  BY SpanAssumption
<1>5. (z + 1) * Span = z * Span + Span /\ (x + y) * Span = x * Span + y * Span
  BY SpanAssumption
<1>6. x * Span \in Nat /\ y * Span \in Nat /\ z * Span \in Nat /\ Span \in Nat
  BY SpanAssumption
<1>7. PICK a \in Nat, b \in Nat, c \in Nat : a = x * Span /\ b = y * Span /\ c = z * Span
  BY <1>6
<1>8. a <= m /\ b <= n /\ m + n < c + Span /\ c + Span <= a + b
  BY <1>1, <1>2, <1>3, <1>4, <1>5, <1>7
<1> QED BY <1>6, <1>8

\* Weight of a bucket at a time in the next one.
Weight(at) == Span - (at - BucketStart(at))

LEMMA FadedFacts ==
  ASSUME NEW m \in Nat, NEW n \in Nat, NEW at \in Nat
  PROVE  /\ Faded(n, at) \in Nat /\ Faded(0, at) = 0
         /\ m <= n => Faded(m, at) <= Faded(n, at)
         /\ Faded(m, at) + Faded(n, at) <= Faded(m + n, at)
<1>1. Span \in Nat /\ Weight(at) \in Nat /\ Weight(at) > 0
  BY BucketsApart, SpanAssumption DEF Weight
<1>2. \A k \in Nat : Faded(k, at) = (k * Weight(at)) \div Span /\ k * Weight(at) \in Nat
  BY <1>1 DEF Faded, Weight
<1>3. PICK w \in Nat : w = Weight(at) /\ w > 0
  BY <1>1
<1>4. 0 * w = 0 /\ 0 \div Span = 0
  BY SpanAssumption
<1>5. m <= n => m * w <= n * w
  OBVIOUS
<1>6. (m + n) * w = m * w + n * w
  OBVIOUS
<1>7. m * w \in Nat /\ n * w \in Nat
  OBVIOUS
<1>8. Faded(n, at) \in Nat
  BY <1>2, <1>3, <1>7, ShareIs
<1>9. Faded(0, at) = 0
  BY <1>2, <1>3, <1>4
<1>10. m <= n => Faded(m, at) <= Faded(n, at)
  BY <1>2, <1>3, <1>5, <1>7, SharesOrdered
<1>11. Faded(m, at) + Faded(n, at) <= Faded(m + n, at)
  <2>1. (m * w) \div Span + (n * w) \div Span <= (m * w + n * w) \div Span
    BY <1>7, SharesAdd
  <2>2. m + n \in Nat
    OBVIOUS
  <2>3. Faded(m + n, at) = (m * w + n * w) \div Span
    BY <1>2, <1>3, <1>6, <2>2
  <2> QED BY <1>2, <1>3, <2>1, <2>3
<1> QED BY <1>8, <1>9, <1>10, <1>11

\* Later in the same bucket less is left.
LEMMA FadesOn ==
  ASSUME NEW n \in Nat, NEW s \in Nat, NEW t \in Nat, s <= t, BucketStart(s) = BucketStart(t)
  PROVE  Faded(n, t) <= Faded(n, s)
<1>1. Span \in Nat /\ Weight(s) \in Nat /\ Weight(t) \in Nat /\ Weight(t) <= Weight(s)
  BY BucketsApart, SpanAssumption DEF Weight
<1>2. PICK v \in Nat, w \in Nat : v = Weight(t) /\ w = Weight(s) /\ v <= w
  BY <1>1
<1>3. n * v <= n * w /\ n * v \in Nat /\ n * w \in Nat
  BY <1>2
<1>4. Faded(n, t) = (n * v) \div Span /\ Faded(n, s) = (n * w) \div Span
  BY <1>2 DEF Faded, Weight
<1> QED BY <1>3, <1>4, SharesOrdered

-----------------------------------------------------------------------------
(* Sums over finite sets.  A sum of natural numbers is the number of pairs  *)
(* that f makes of the members, so that it is proved about as a             *)
(* cardinality.                                                             *)

Pairs(f, F) == {pair \in F \X Nat : pair[2] \in 1..f[pair[1]]}

Total(f, F) == Cardinality(Pairs(f, F))

\* A set of subsets that has {} and, with a set less one member, the set.
LEMMA SubsetsGrow ==
  ASSUME NEW D, IsFiniteSet(D), NEW G, {} \in G,
         \A s \in SUBSET D : s # {} /\ (\A x \in s : s \ {x} \in G) => s \in G
  PROVE  D \in G
<1> DEFINE T == {s \in SUBSET D : s \notin G}
<1>1. T \subseteq FiniteSubsetsOf(D)
  BY FS_Subset DEF FiniteSubsetsOf
<1>2. T = {}
  <2> SUFFICES ASSUME T # {} PROVE FALSE
    OBVIOUS
  <2>1. IsWellFoundedOn(StrictSubsetOrdering(D), FiniteSubsetsOf(D))
    BY FS_StrictSubsetOrderingWellFounded
  <2> HIDE DEF T
  <2>2. PICK s \in T : \A r \in T : ~ (<<r, s>> \in StrictSubsetOrdering(D))
    BY <1>1, <2>1, WFMin
  <2> USE DEF T
  <2>3. ASSUME NEW x \in s PROVE s \ {x} \in G
    <3>1. s \in SUBSET D /\ s \ {x} \in SUBSET D /\ s \ {x} # s /\ s \ {x} \subseteq s
      OBVIOUS
    <3>2. <<s \ {x}, s>> \in StrictSubsetOrdering(D)
      BY <3>1 DEF StrictSubsetOrdering
    <3> QED BY <2>2, <3>1, <3>2
  <2> QED BY <2>2, <2>3
<1> QED BY <1>2

LEMMA RunIsFinite ==
  ASSUME NEW x, NEW n \in Nat
  PROVE  IsFiniteSet({x} \X (1..n)) /\ Cardinality({x} \X (1..n)) = n
<1>1. IsFiniteSet(1..n) /\ Cardinality(1..n) = n
  BY FS_Interval
<1>2. IsFiniteSet({x}) /\ Cardinality({x}) = 1
  BY FS_Singleton
<1>3. IsFiniteSet({x} \X (1..n)) /\ Cardinality({x} \X (1..n)) = Cardinality({x}) * Cardinality(1..n)
  BY <1>1, <1>2, FS_Product
<1> QED BY <1>1, <1>2, <1>3

\* One member less.
LEMMA PairsSplit ==
  ASSUME NEW f, NEW F, NEW x \in F, f[x] \in Nat, IsFiniteSet(Pairs(f, F \ {x}))
  PROVE  /\ IsFiniteSet(Pairs(f, F))
         /\ Total(f, F) = f[x] + Total(f, F \ {x})
<1> DEFINE a == {x} \X (1..f[x])
           b == Pairs(f, F \ {x})
<1>1. Pairs(f, F) = a \cup b /\ a \cap b = {}
  BY DEF Pairs
<1>2. IsFiniteSet(a) /\ Cardinality(a) = f[x]
  BY RunIsFinite
<1> HIDE DEF a
<1>3. IsFiniteSet(a \cup b) /\ Cardinality(a \cup b) = Cardinality(a) + Cardinality(b) - Cardinality(a \cap b)
  BY <1>2, FS_Union
<1>4. Cardinality(a \cap b) = 0 /\ Cardinality(b) \in Nat
  BY <1>1, FS_EmptySet, FS_CardinalityType
<1> QED BY <1>1, <1>2, <1>3, <1>4 DEF Total

LEMMA TotalOfNone == ASSUME NEW f PROVE IsFiniteSet(Pairs(f, {})) /\ Total(f, {}) = 0
<1>1. Pairs(f, {}) = {}
  BY DEF Pairs
<1> QED BY <1>1, FS_EmptySet DEF Total

LEMMA PairsFinite ==
  ASSUME NEW F, IsFiniteSet(F), NEW f, \A x \in F : f[x] \in Nat
  PROVE  IsFiniteSet(Pairs(f, F)) /\ Total(f, F) \in Nat
<1> DEFINE G == {s \in SUBSET F : IsFiniteSet(Pairs(f, s))}
<1>1. {} \in G
  BY TotalOfNone
<1>2. ASSUME NEW s \in SUBSET F, s # {}, \A x \in s : s \ {x} \in G PROVE s \in G
  BY <1>2, PairsSplit
<1> HIDE DEF G
<1>3. F \in G
  BY <1>1, <1>2, SubsetsGrow
<1> QED BY <1>3, FS_CardinalityType DEF G, Total

\* What every sum over a finite set of natural numbers is.
LEMMA TotalSplits ==
  ASSUME NEW F, IsFiniteSet(F), NEW f, \A x \in F : f[x] \in Nat
  PROVE  /\ Total(f, F) \in Nat
         /\ \A s \in SUBSET F : Total(f, s) \in Nat
         /\ \A s \in SUBSET F : \A x \in s : Total(f, s) = f[x] + Total(f, s \ {x})
<1>1. ASSUME NEW s \in SUBSET F PROVE IsFiniteSet(Pairs(f, s)) /\ Total(f, s) \in Nat
  BY FS_Subset, PairsFinite
<1>2. ASSUME NEW s \in SUBSET F, NEW x \in s PROVE Total(f, s) = f[x] + Total(f, s \ {x})
  <2>1. IsFiniteSet(Pairs(f, s \ {x}))
    BY <1>1
  <2>2. f[x] \in Nat
    OBVIOUS
  <2> QED BY <2>1, <2>2, PairsSplit
<1> QED BY <1>1, <1>2

\* When one member grows, the sum grows by no more; without it, not at all.
LEMMA TotalGrows ==
  ASSUME NEW F, IsFiniteSet(F), NEW f, NEW g, \A x \in F : f[x] \in Nat /\ g[x] \in Nat,
         NEW y, NEW v \in Nat, \A x \in F : g[x] <= f[x] + (IF x = y THEN v ELSE 0)
  PROVE  Total(g, F) <= Total(f, F) + (IF y \in F THEN v ELSE 0)
<1> DEFINE Bound(s) == Total(g, s) <= Total(f, s) + (IF y \in s THEN v ELSE 0)
           G == {s \in SUBSET F : Bound(s)}
<1>1. {} \in G
  BY TotalOfNone
<1>2. ASSUME NEW s \in SUBSET F, s # {}, \A x \in s : s \ {x} \in G PROVE s \in G
  <2>1. PICK x \in s : TRUE
    BY <1>2
  <2>2. Bound(s \ {x})
    BY <1>2, <2>1
  <2>3. Total(f, s) = f[x] + Total(f, s \ {x}) /\ Total(g, s) = g[x] + Total(g, s \ {x})
    BY <2>1, TotalSplits
  <2>4. Total(f, s \ {x}) \in Nat /\ Total(g, s \ {x}) \in Nat
    BY TotalSplits
  <2>5. f[x] \in Nat /\ g[x] \in Nat /\ g[x] <= f[x] + (IF x = y THEN v ELSE 0)
    OBVIOUS
  <2>6. Bound(s)
    BY <2>2, <2>3, <2>4, <2>5
  <2> QED BY <2>6
<1> HIDE DEF G
<1>3. F \in G
  BY <1>1, <1>2, SubsetsGrow
<1> QED BY <1>3 DEF G

LEMMA TotalShrinks ==
  ASSUME NEW F, IsFiniteSet(F), NEW f, NEW g,
         \A x \in F : f[x] \in Nat /\ g[x] \in Nat /\ g[x] <= f[x]
  PROVE  Total(g, F) <= Total(f, F)
<1>1. \A x \in F : g[x] <= f[x] + (IF x = F THEN 0 ELSE 0)
  OBVIOUS
<1>2. Total(g, F) <= Total(f, F) + (IF F \in F THEN 0 ELSE 0)
  BY <1>1, TotalGrows
<1>3. Total(f, F) \in Nat
  BY TotalSplits
<1> QED BY <1>2, <1>3

LEMMA MemberBelow ==
  ASSUME NEW F, IsFiniteSet(F), NEW f, \A x \in F : f[x] \in Nat, NEW x \in F
  PROVE  f[x] <= Total(f, F)
<1>1. Total(f, F) = f[x] + Total(f, F \ {x}) /\ Total(f, F \ {x}) \in Nat
  BY TotalSplits
<1> QED BY <1>1

\* What is left of several counts is no more than what is left of their sum.
LEMMA WindowOfTotal ==
  ASSUME NEW F, IsFiniteSet(F), NEW f, NEW g, NEW h, NEW at \in Nat,
         \A x \in F : f[x] \in Nat /\ g[x] \in Nat /\ h[x] = f[x] + Faded(g[x], at)
  PROVE  Total(h, F) <= Total(f, F) + Faded(Total(g, F), at)
<1>0. ASSUME NEW x \in F PROVE h[x] \in Nat
  <2>1. f[x] \in Nat /\ g[x] \in Nat /\ h[x] = f[x] + Faded(g[x], at)
    OBVIOUS
  <2>2. Faded(g[x], at) \in Nat
    BY <2>1, FadedFacts
  <2>3. PICK a \in Nat, b \in Nat : a = f[x] /\ b = Faded(g[x], at)
    BY <2>1, <2>2
  <2> QED BY <2>1, <2>3
<1> DEFINE Bound(s) == Total(h, s) <= Total(f, s) + Faded(Total(g, s), at)
           G == {s \in SUBSET F : Bound(s)}
<1>1. {} \in G
  BY TotalOfNone, FadedFacts
<1>2. ASSUME NEW s \in SUBSET F, s # {}, \A x \in s : s \ {x} \in G PROVE s \in G
  <2>1. PICK x \in s : TRUE
    BY <1>2
  <2>2. Bound(s \ {x})
    BY <1>2, <2>1
  <2>3. /\ Total(f, s) = f[x] + Total(f, s \ {x}) /\ Total(g, s) = g[x] + Total(g, s \ {x})
        /\ Total(h, s) = h[x] + Total(h, s \ {x})
    BY <1>0, <2>1, TotalSplits
  <2>4. Total(f, s \ {x}) \in Nat /\ Total(g, s \ {x}) \in Nat /\ Total(h, s \ {x}) \in Nat
    BY <1>0, TotalSplits
  <2>5. f[x] \in Nat /\ g[x] \in Nat /\ h[x] = f[x] + Faded(g[x], at)
    OBVIOUS
  <2>6. /\ Faded(g[x], at) + Faded(Total(g, s \ {x}), at) <= Faded(Total(g, s), at)
        /\ Faded(g[x], at) \in Nat /\ Faded(Total(g, s \ {x}), at) \in Nat
        /\ Faded(Total(g, s), at) \in Nat
    <3>1. g[x] + Total(g, s \ {x}) \in Nat
      BY <2>4, <2>5
    <3> QED BY <2>3, <2>4, <2>5, <3>1, FadedFacts
  <2>7. Bound(s)
    BY <2>2, <2>3, <2>4, <2>5, <2>6
  <2> QED BY <2>7
<1> HIDE DEF G
<1>3. F \in G
  BY <1>1, <1>2, SubsetsGrow
<1> QED BY <1>3 DEF G

-----------------------------------------------------------------------------
(* MapThenSumSet returns such a sum.                                        *)

\* The running sums of f that MapThenSumSet makes on its way.
SumsOver(f, D, w) ==
  w = [s \in SUBSET D |-> IF s = {} THEN 0
                          ELSE LET x == CHOOSE x \in s : TRUE IN f[x] + w[s \ {x}]]

\* There is only one way to sum.
LEMMA SumsAreOne ==
  ASSUME NEW f, NEW D, IsFiniteSet(D), NEW v, SumsOver(f, D, v), NEW w, SumsOver(f, D, w)
  PROVE  v = w
<1> DEFINE G == {s \in SUBSET D : v[s] = w[s]}
<1>1. {} \in G
  BY DEF SumsOver
<1>2. ASSUME NEW s \in SUBSET D, s # {}, \A x \in s : s \ {x} \in G PROVE s \in G
  <2> DEFINE x == CHOOSE x \in s : TRUE
  <2>1. x \in s
    BY <1>2
  <2>2. v[s] = f[x] + v[s \ {x}] /\ w[s] = f[x] + w[s \ {x}]
    BY <1>2, Zenon DEF SumsOver
  <2>3. v[s \ {x}] = w[s \ {x}]
    BY <1>2, <2>1
  <2> QED BY <2>2, <2>3
<1>3. ASSUME NEW s \in SUBSET D PROVE s \in G
  <2> HIDE DEF G
  <2>1. IsFiniteSet(s)
    BY FS_Subset
  <2>2. \A t \in SUBSET s : t # {} /\ (\A x \in t : t \ {x} \in G) => t \in G
    BY <1>2
  <2> QED BY <1>1, <2>1, <2>2, SubsetsGrow
<1>4. v = [s \in SUBSET D |-> v[s]] /\ w = [s \in SUBSET D |-> w[s]]
  BY Zenon DEF SumsOver
<1> QED BY <1>3, <1>4

LEMMA TotalsAreSums ==
  ASSUME NEW f, NEW D, IsFiniteSet(D), \A x \in D : f[x] \in Nat
  PROVE  SumsOver(f, D, [s \in SUBSET D |-> Total(f, s)])
<1> DEFINE w == [s \in SUBSET D |-> Total(f, s)]
<1>1. ASSUME NEW s \in SUBSET D
      PROVE  w[s] = IF s = {} THEN 0 ELSE LET x == CHOOSE x \in s : TRUE IN f[x] + w[s \ {x}]
  <2>1. CASE s = {}
    BY <2>1, TotalOfNone
  <2>2. CASE s # {}
    <3> DEFINE x == CHOOSE x \in s : TRUE
    <3>1. x \in s /\ s \ {x} \in SUBSET D
      BY <2>2
    <3> HIDE DEF x
    <3>2. w[s] = f[x] + w[s \ {x}]
      BY <3>1, TotalSplits
    <3> QED BY <2>2, <3>2, Zenon DEF x
  <2> QED BY <2>1, <2>2, Zenon
<1> QED BY <1>1, Zenon DEF SumsOver

LEMMA SumIs ==
  ASSUME NEW f, NEW D, IsFiniteSet(D), \A x \in D : f[x] \in Nat
  PROVE  MapThenSumSet(LAMBDA x : f[x], D) = Total(f, D)
<1> DEFINE w == [s \in SUBSET D |-> Total(f, s)]
           c == CHOOSE iter : iter = [s \in SUBSET D |-> IF s = {} THEN 0 ELSE LET x == CHOOSE x \in s : TRUE IN f[x] + iter[s \ {x}]]
<1>1. MapThenSumSet(LAMBDA x : f[x], D) = c[D]
  BY DEF MapThenSumSet, MapThenFoldSet
<1>2. SumsOver(f, D, w)
  BY TotalsAreSums
<1>3. SumsOver(f, D, c)
  <2> HIDE DEF w
  <2> QED BY <1>2, Zenon DEF SumsOver
<1> HIDE DEF c
<1>4. c = w
  <2> HIDE DEF w
  <2> QED BY <1>2, <1>3, SumsAreOne
<1> QED BY <1>1, <1>4

\* The same of a slot of the counts shown.
LEMMA SumOfSlotIs ==
  ASSUME NEW shown, NEW i, NEW D, IsFiniteSet(D), \A x \in D : shown[x].totals[i] \in Nat
  PROVE  MapThenSumSet(LAMBDA x : shown[x].totals[i], D) = Total([x \in D |-> shown[x].totals[i]], D)
<1> DEFINE f == [x \in D |-> shown[x].totals[i]]
           w == [s \in SUBSET D |-> Total(f, s)]
           Fits(iter) == iter = [s \in SUBSET D |-> IF s = {} THEN 0 ELSE LET x == CHOOSE x \in s : TRUE IN shown[x].totals[i] + iter[s \ {x}]]
           c == CHOOSE iter : Fits(iter)
<1>1. MapThenSumSet(LAMBDA x : shown[x].totals[i], D) = c[D]
  BY DEF MapThenSumSet, MapThenFoldSet
<1>2. SumsOver(f, D, w)
  BY TotalsAreSums
<1>3. ASSUME NEW v PROVE SumsOver(f, D, v) <=> Fits(v)
  <2> DEFINE A(s) == IF s = {} THEN 0 ELSE LET x == CHOOSE x \in s : TRUE IN shown[x].totals[i] + v[s \ {x}]
             B(s) == IF s = {} THEN 0 ELSE LET x == CHOOSE x \in s : TRUE IN f[x] + v[s \ {x}]
  <2>1. ASSUME NEW s \in SUBSET D PROVE A(s) = B(s)
    <3>1. CASE s = {}
      BY <3>1
    <3>2. CASE s # {}
      <4> DEFINE x == CHOOSE x \in s : TRUE
      <4>1. x \in s
        BY <3>2
      <4>2. f[x] = shown[x].totals[i]
        BY <4>1
      <4> QED BY <3>2, <4>2
    <3> QED BY <3>1, <3>2
  <2>2. [s \in SUBSET D |-> A(s)] = [s \in SUBSET D |-> B(s)]
    <3> HIDE DEF A, B
    <3> QED BY <2>1
  <2> QED BY <2>2, Zenon DEF SumsOver
<1> HIDE DEF w, f, Fits
<1>4. Fits(c)
  BY <1>2, <1>3, Zenon
<1> HIDE DEF c
<1>5. c = w
  BY <1>2, <1>3, <1>4, SumsAreOne
<1> QED BY <1>1, <1>5 DEF w, f

-----------------------------------------------------------------------------
(* A counter, seen from a bucket that is its own or a later one: what it    *)
(* counts in it, and in the one before.                                     *)

CounterType(slots) == [start : Buckets, curr : [slots -> Nat], prev : [slots -> Nat]]

CurrOf(c, i, b) == IF c.start = b THEN c.curr[i] ELSE 0

PrevOf(c, i, b) == IF c.start = b THEN c.prev[i]
                   ELSE IF c.start + Span = b THEN c.curr[i] ELSE 0

LEMMA BucketFacts ==
  ASSUME NEW b \in Buckets, NEW c \in Buckets
  PROVE  b \in Nat /\ c \in Nat /\ Span \in Nat /\ Span > 0 /\ (b < c => b + Span <= c)
<1>1. PICK s \in Nat : b = BucketStart(s)
  BY DEF Buckets
<1>2. PICK t \in Nat : c = BucketStart(t)
  BY DEF Buckets
<1> QED BY <1>1, <1>2, BucketsApart, SpanAssumption

LEMMA NewCountersFacts ==
  ASSUME NEW slots, NEW t \in Nat
  PROVE  /\ NewCounters(t, slots) \in CounterType(slots)
         /\ NewCounters(t, slots).start = BucketStart(t)
         /\ \A i \in slots, b \in Buckets :
              CurrOf(NewCounters(t, slots), i, b) = 0 /\ PrevOf(NewCounters(t, slots), i, b) = 0
BY DEF NewCounters, CounterType, CurrOf, PrevOf, Buckets

LEMMA RotatedFacts ==
  ASSUME NEW slots, NEW c \in CounterType(slots), NEW t \in Nat
  PROVE  /\ Rotated(c, t) \in CounterType(slots)
         /\ Rotated(c, t).start = IF BucketStart(t) <= c.start THEN c.start ELSE BucketStart(t)
         /\ \A i \in slots, b \in Buckets : c.start <= b /\ BucketStart(t) <= b =>
              /\ CurrOf(Rotated(c, t), i, b) = CurrOf(c, i, b)
              /\ PrevOf(Rotated(c, t), i, b) = PrevOf(c, i, b)
<1> DEFINE s == BucketStart(t)
           d == Rotated(c, t)
<1>1. s \in Buckets /\ c.start \in Buckets /\ c.curr \in [slots -> Nat] /\ c.prev \in [slots -> Nat]
  BY DEF CounterType, Buckets
<1>2. Zeros(c) \in [slots -> Nat] /\ \A i \in slots : Zeros(c)[i] = 0
  BY <1>1 DEF Zeros
<1>3. CASE s <= c.start
  <2>1. d = c
    BY <1>3 DEF Rotated
  <2> QED BY <1>3, <2>1
<1>4. CASE ~ (s <= c.start)
  <2>1. d = [start |-> s, curr |-> Zeros(c), prev |-> IF s = c.start + Span THEN c.curr ELSE Zeros(c)]
    BY <1>4 DEF Rotated
  <2> HIDE DEF s, d
  <2>2. /\ d \in CounterType(slots) /\ d.start = s /\ d.curr = Zeros(c)
        /\ d.prev = IF s = c.start + Span THEN c.curr ELSE Zeros(c)
    BY <1>1, <1>2, <2>1 DEF CounterType
  <2>3. ASSUME NEW i \in slots, NEW b \in Buckets, c.start <= b, s <= b
        PROVE  CurrOf(d, i, b) = CurrOf(c, i, b) /\ PrevOf(d, i, b) = PrevOf(c, i, b)
    <3>1. /\ c.start \in Nat /\ s \in Nat /\ b \in Nat /\ Span \in Nat /\ Span > 0
          /\ c.start < s /\ c.start + Span <= s /\ (s < b => s + Span <= b)
      BY <1>1, <1>4, BucketFacts
    <3>2. d.curr[i] = 0 /\ d.prev[i] = IF s = c.start + Span THEN c.curr[i] ELSE 0
      BY <1>2, <2>2
    <3>3. CASE s = b
      BY <2>2, <3>1, <3>2, <3>3 DEF CurrOf, PrevOf
    <3>4. CASE s < b
      BY <2>2, <3>1, <3>2, <3>4 DEF CurrOf, PrevOf
    <3> QED BY <2>3, <3>1, <3>3, <3>4
  <2> QED BY <1>4, <2>2, <2>3 DEF s, d
<1> QED BY <1>3, <1>4

LEMMA AddedFacts ==
  ASSUME NEW slots, NEW c \in CounterType(slots), NEW t \in Nat, NEW v \in [slots -> Nat]
  PROVE  /\ Added(c, t, v) \in CounterType(slots)
         /\ c.start <= BucketStart(t) =>
              /\ Added(c, t, v).start = BucketStart(t)
              /\ \A i \in slots, b \in Buckets : BucketStart(t) <= b =>
                   /\ CurrOf(Added(c, t, v), i, b) = CurrOf(c, i, b) + (IF b = BucketStart(t) THEN v[i] ELSE 0)
                   /\ PrevOf(Added(c, t, v), i, b) = PrevOf(c, i, b) + (IF b = BucketStart(t) + Span THEN v[i] ELSE 0)
<1> DEFINE s == BucketStart(t)
           d == Rotated(c, t)
           a == Added(c, t, v)
<1>1. /\ d \in CounterType(slots) /\ s \in Buckets /\ s \in Nat /\ c.start \in Buckets /\ c.start \in Nat
      /\ c.curr \in [slots -> Nat] /\ c.prev \in [slots -> Nat]
      /\ d.start = IF s <= c.start THEN c.start ELSE s
  <2>1. s \in Buckets /\ c.start \in Buckets /\ c.curr \in [slots -> Nat] /\ c.prev \in [slots -> Nat]
    BY DEF CounterType, Buckets
  <2>2. s \in Nat /\ c.start \in Nat
    BY <2>1, BucketFacts
  <2>3. d \in CounterType(slots) /\ d.start = IF s <= c.start THEN c.start ELSE s
    BY RotatedFacts
  <2> QED BY <2>1, <2>2, <2>3
<1>2. CASE IsOld(c, t)
  <2>1. a = c /\ ~ (c.start <= s)
    BY <1>1, <1>2 DEF Added, IsOld
  <2> QED BY <2>1
<1>3. CASE ~ IsOld(c, t)
  <2>1. c.start <= s /\ d.start = s
    BY <1>1, <1>3 DEF IsOld
  <2>2. a = [d EXCEPT !.curr = [i \in DOMAIN d.curr |-> d.curr[i] + v[i]]]
    BY <1>3 DEF Added
  <2>3. d.curr \in [slots -> Nat] /\ d.prev \in [slots -> Nat] /\ d.start \in Buckets
    BY <1>1 DEF CounterType
  <2>4. ASSUME NEW i \in slots, NEW b \in Buckets, s <= b
        PROVE  CurrOf(d, i, b) = CurrOf(c, i, b) /\ PrevOf(d, i, b) = PrevOf(c, i, b)
    <3>1. c.start <= b
      BY <1>1, <2>1, <2>4, BucketFacts
    <3> QED BY <2>4, <3>1, RotatedFacts
  <2> HIDE DEF s, d, a
  <2>5. /\ a \in CounterType(slots) /\ a.start = s /\ a.prev = d.prev
        /\ \A i \in slots : a.curr[i] = d.curr[i] + v[i]
    BY <1>1, <2>1, <2>2, <2>3 DEF CounterType
  <2>6. ASSUME NEW i \in slots, NEW b \in Buckets, s <= b
        PROVE  /\ CurrOf(a, i, b) = CurrOf(c, i, b) + (IF b = s THEN v[i] ELSE 0)
               /\ PrevOf(a, i, b) = PrevOf(c, i, b) + (IF b = s + Span THEN v[i] ELSE 0)
    <3>1. d.curr[i] \in Nat /\ d.prev[i] \in Nat /\ v[i] \in Nat
      BY <2>3
    <3>2. b \in Nat /\ Span \in Nat /\ Span > 0
      BY BucketFacts
    <3>3. CurrOf(a, i, b) = CurrOf(d, i, b) + (IF b = s THEN v[i] ELSE 0)
      BY <2>1, <2>5, <3>1 DEF CurrOf
    <3>4. PrevOf(a, i, b) = PrevOf(d, i, b) + (IF b = s + Span THEN v[i] ELSE 0)
      BY <1>1, <2>1, <2>5, <3>1, <3>2 DEF PrevOf
    <3> QED BY <2>4, <2>6, <3>3, <3>4
  <2> QED BY <2>5, <2>6 DEF s, d, a
<1> QED BY <1>2, <1>3

LEMMA WindowFacts ==
  ASSUME NEW slots, NEW c \in CounterType(slots), NEW t \in Nat
  PROVE  /\ WindowValue(c, t) \in [slots -> Nat]
         /\ c.start <= BucketStart(t) => \A i \in slots :
              WindowValue(c, t)[i] =
                CurrOf(c, i, BucketStart(t)) + Faded(PrevOf(c, i, BucketStart(t)), t)
         /\ ~ (c.start <= BucketStart(t)) => \A i \in slots : WindowValue(c, t)[i] = 0
<1> DEFINE s == BucketStart(t)
           d == Rotated(c, t)
<1>1. /\ d \in CounterType(slots) /\ s \in Buckets /\ s \in Nat /\ c.start \in Buckets /\ c.start \in Nat
      /\ c.curr \in [slots -> Nat]
      /\ d.start = IF s <= c.start THEN c.start ELSE s
  <2>1. s \in Buckets /\ c.start \in Buckets /\ c.curr \in [slots -> Nat] /\ c.prev \in [slots -> Nat]
    BY DEF CounterType, Buckets
  <2>2. s \in Nat /\ c.start \in Nat
    BY <2>1, BucketFacts
  <2>3. d \in CounterType(slots) /\ d.start = IF s <= c.start THEN c.start ELSE s
    BY RotatedFacts
  <2> QED BY <2>1, <2>2, <2>3
<1>2. CASE IsOld(c, t)
  <2>1. WindowValue(c, t) = Zeros(c) /\ ~ (c.start <= s)
    BY <1>1, <1>2 DEF WindowValue, IsOld
  <2>2. Zeros(c) \in [slots -> Nat] /\ \A i \in slots : Zeros(c)[i] = 0
    BY <1>1 DEF Zeros
  <2> QED BY <2>1, <2>2
<1>3. CASE ~ IsOld(c, t)
  <2>1. c.start <= s /\ d.start = s
    BY <1>1, <1>3 DEF IsOld
  <2>2. WindowValue(c, t) = [i \in DOMAIN d.curr |-> d.curr[i] + Faded(d.prev[i], t)]
    BY <1>3 DEF WindowValue
  <2>3. d.curr \in [slots -> Nat] /\ d.prev \in [slots -> Nat]
    BY <1>1 DEF CounterType
  <2>4. ASSUME NEW i \in slots
        PROVE  CurrOf(c, i, s) = d.curr[i] /\ PrevOf(c, i, s) = d.prev[i]
    <3>1. CurrOf(d, i, s) = CurrOf(c, i, s) /\ PrevOf(d, i, s) = PrevOf(c, i, s)
      <4>1. s \in Buckets /\ c.start <= s /\ s <= s
        BY <1>1, <2>1
      <4>2. \A b \in Buckets : c.start <= b /\ s <= b =>
              CurrOf(d, i, b) = CurrOf(c, i, b) /\ PrevOf(d, i, b) = PrevOf(c, i, b)
        BY RotatedFacts
      <4> HIDE DEF s, d
      <4> QED BY <4>1, <4>2
    <3> QED BY <2>1, <3>1 DEF CurrOf, PrevOf
  <2>5. \A i \in slots : Faded(d.prev[i], t) \in Nat
    BY <2>3, FadedFacts
  <2> HIDE DEF s, d
  <2>6. WindowValue(c, t) \in [slots -> Nat]
    BY <2>2, <2>3, <2>5
  <2>7. ASSUME NEW i \in slots PROVE WindowValue(c, t)[i] = CurrOf(c, i, s) + Faded(PrevOf(c, i, s), t)
    BY <2>2, <2>3, <2>4
  <2> QED BY <2>1, <2>6, <2>7 DEF s, d
<1> QED BY <1>2, <1>3

\* Both in one: what c has counted ago, 0 or a Span, before b.
Ages == {0, Span}

CountOf(c, i, b, ago) == IF ago = 0 THEN CurrOf(c, i, b) ELSE PrevOf(c, i, b)

LEMMA CountOfFacts ==
  ASSUME NEW slots, NEW c \in CounterType(slots), NEW i \in slots, NEW b \in Buckets,
         NEW ago \in Ages, NEW t \in Nat
  PROVE  /\ CountOf(c, i, b, ago) \in Nat
         /\ CountOf(NewCounters(t, slots), i, b, ago) = 0
         /\ c.start <= b /\ BucketStart(t) <= b =>
              CountOf(Rotated(c, t), i, b, ago) = CountOf(c, i, b, ago)
         /\ \A v \in [slots -> Nat] : c.start <= BucketStart(t) /\ BucketStart(t) <= b =>
              CountOf(Added(c, t, v), i, b, ago) =
                CountOf(c, i, b, ago) + (IF b - ago = BucketStart(t) THEN v[i] ELSE 0)
<1>1. c.curr[i] \in Nat /\ c.prev[i] \in Nat
  BY DEF CounterType
<1>2. CountOf(c, i, b, ago) \in Nat
  BY <1>1 DEF CountOf, CurrOf, PrevOf
<1>3. CountOf(NewCounters(t, slots), i, b, ago) = 0
  BY NewCountersFacts DEF CountOf
<1>4. c.start <= b /\ BucketStart(t) <= b =>
        CountOf(Rotated(c, t), i, b, ago) = CountOf(c, i, b, ago)
  BY RotatedFacts DEF CountOf
<1>5. ASSUME NEW v \in [slots -> Nat], c.start <= BucketStart(t), BucketStart(t) <= b
      PROVE  CountOf(Added(c, t, v), i, b, ago) =
               CountOf(c, i, b, ago) + (IF b - ago = BucketStart(t) THEN v[i] ELSE 0)
  <2>1. /\ CurrOf(Added(c, t, v), i, b) = CurrOf(c, i, b) + (IF b = BucketStart(t) THEN v[i] ELSE 0)
        /\ PrevOf(Added(c, t, v), i, b) = PrevOf(c, i, b) + (IF b = BucketStart(t) + Span THEN v[i] ELSE 0)
    BY <1>5, AddedFacts
  <2>2. BucketStart(t) \in Nat /\ b \in Nat /\ Span \in Nat /\ Span > 0
    BY BucketsApart, BucketFacts
  <2>3. CASE ago = 0
    <3>1. b - ago = BucketStart(t) <=> b = BucketStart(t)
      BY <2>2, <2>3
    <3> QED BY <2>1, <2>3, <3>1 DEF CountOf
  <2>4. CASE ago = Span
    <3>1. (b - ago = BucketStart(t) <=> b = BucketStart(t) + Span) /\ ago # 0
      BY <2>2, <2>4
    <3> QED BY <2>1, <3>1 DEF CountOf
  <2> QED BY <2>3, <2>4 DEF Ages
<1> QED BY <1>2, <1>3, <1>4, <1>5

LEMMA WindowIs ==
  ASSUME NEW slots, NEW c \in CounterType(slots), NEW t \in Nat, NEW i \in slots
  PROVE  /\ WindowValue(c, t)[i] \in Nat
         /\ WindowValue(c, t)[i] =
              IF c.start <= BucketStart(t)
              THEN CountOf(c, i, BucketStart(t), 0) + Faded(CountOf(c, i, BucketStart(t), Span), t)
              ELSE 0
<1>1. Span # 0
  BY SpanAssumption
<1> QED BY <1>1, WindowFacts DEF CountOf

-----------------------------------------------------------------------------
(* The paths.                                                               *)

AllPaths == Paths \cup {Global}

PathsOK(ps) ==
  /\ DOMAIN ps \subseteq AllPaths /\ IsFiniteSet(DOMAIN ps)
  /\ \A p \in DOMAIN ps :
       /\ ps[p].totals \in CounterType(Slots)
       /\ DOMAIN ps[p].statuses \subseteq Codes /\ IsFiniteSet(DOMAIN ps[p].statuses)
       /\ \A k \in DOMAIN ps[p].statuses : ps[p].statuses[k] \in CounterType({"requests"})

\* No counter is of a later bucket.
StartsBy(ps, b) ==
  \A p \in DOMAIN ps : /\ ps[p].totals.start <= b
                       /\ \A k \in DOMAIN ps[p].statuses : ps[p].statuses[k].start <= b

\* What is counted of a path, and of a code of it, seen from a bucket.
Counted(ps, p, i, b, ago) == IF p \in DOMAIN ps THEN CountOf(ps[p].totals, i, b, ago) ELSE 0

CodeCounted(ps, p, k, b, ago) ==
  IF p \in DOMAIN ps /\ k \in DOMAIN ps[p].statuses
  THEN CountOf(ps[p].statuses[k], "requests", b, ago) ELSE 0

LEMMA CountedIsNat ==
  ASSUME NEW ps, PathsOK(ps), NEW p, NEW i \in Slots, NEW k, NEW b \in Buckets, NEW ago \in Ages
  PROVE  Counted(ps, p, i, b, ago) \in Nat /\ CodeCounted(ps, p, k, b, ago) \in Nat
<1>0. 0 \in Nat
  OBVIOUS
<1>1. ASSUME p \in DOMAIN ps PROVE CountOf(ps[p].totals, i, b, ago) \in Nat
  <2>1. ps[p].totals \in CounterType(Slots)
    BY <1>1 DEF PathsOK
  <2> QED BY <1>0, <2>1, CountOfFacts
<1>2. ASSUME p \in DOMAIN ps, k \in DOMAIN ps[p].statuses
      PROVE  CountOf(ps[p].statuses[k], "requests", b, ago) \in Nat
  <2>1. ps[p].statuses[k] \in CounterType({"requests"})
    BY <1>2 DEF PathsOK
  <2> QED BY <1>0, <2>1, CountOfFacts
<1> QED BY <1>1, <1>2 DEF Counted, CodeCounted

LEMMA ObservationType ==
  ASSUME NEW call \in Call
  PROVE  /\ Observation(call) \in [Slots -> Nat]
         /\ Observation(call)["requests"] = 1
         /\ Observation(call)["errors"] = IF call.code \in ErrorCodes THEN 1 ELSE 0
         /\ Observation(call)["duration"] = Took
<1>1. Took \in Nat
  BY HttpAssumption
<1> QED BY <1>1 DEF Observation, Slots

\* The counters that a request finds, or that it makes.
FoundTotals(ps, path, call) ==
  IF path \in DOMAIN ps THEN ps[path].totals ELSE NewCounters(call.at, Slots)

FoundStatuses(ps, path) == IF path \in DOMAIN ps THEN ps[path].statuses ELSE None

FoundStatus(ps, path, call) ==
  IF call.code \in DOMAIN FoundStatuses(ps, path) THEN FoundStatuses(ps, path)[call.code]
                                                  ELSE NewCounters(call.at, {"requests"})

One == [i \in {"requests"} |-> 1]

\* What recording a request in a path does, by its parts.
ObservedParts(ps, path, call, new) ==
  /\ DOMAIN new = DOMAIN ps \cup {path}
  /\ \A p \in DOMAIN ps : p # path => new[p] = ps[p]
  /\ new[path].totals = Added(FoundTotals(ps, path, call), call.at, Observation(call))
  /\ DOMAIN new[path].statuses = DOMAIN FoundStatuses(ps, path) \cup {call.code}
  /\ new[path].statuses[call.code] = Added(FoundStatus(ps, path, call), call.at, One)
  /\ \A k \in DOMAIN FoundStatuses(ps, path) :
       k # call.code => new[path].statuses[k] = FoundStatuses(ps, path)[k]

LEMMA ObservedIs ==
  ASSUME NEW ps, NEW path, NEW call
  PROVE  ObservedParts(ps, path, call, Observed(ps, path, call))
<1> DEFINE old == Get(ps, path, [totals |-> NewCounters(call.at, Slots), statuses |-> None])
           status == Get(old.statuses, call.code, NewCounters(call.at, {"requests"}))
           value == [totals |-> Added(old.totals, call.at, Observation(call)),
                     statuses |-> Put(old.statuses, call.code, Added(status, call.at, One))]
           new == Observed(ps, path, call)
<1>1. old.totals = FoundTotals(ps, path, call) /\ old.statuses = FoundStatuses(ps, path)
  BY DEF Get, FoundTotals, FoundStatuses
<1>2. status = FoundStatus(ps, path, call)
  BY <1>1 DEF Get, FoundStatus
<1>3. new = Put(ps, path, value)
  BY DEF Observed, One
<1> HIDE DEF old, status, new
<1>4. /\ value.totals = Added(old.totals, call.at, Observation(call))
      /\ DOMAIN value.statuses = DOMAIN old.statuses \cup {call.code}
      /\ value.statuses[call.code] = Added(status, call.at, One)
      /\ \A k \in DOMAIN old.statuses : k # call.code => value.statuses[k] = old.statuses[k]
  BY DEF Put
<1>5. DOMAIN new = DOMAIN ps \cup {path} /\ new[path] = value /\ \A p \in DOMAIN ps : p # path => new[p] = ps[p]
  BY <1>3 DEF Put
<1> HIDE DEF value
<1> QED BY <1>1, <1>2, <1>4, <1>5 DEF new, ObservedParts

LEMMA FoundTypes ==
  ASSUME NEW ps, PathsOK(ps), NEW path, NEW call \in Call
  PROVE  /\ FoundTotals(ps, path, call) \in CounterType(Slots)
         /\ FoundStatus(ps, path, call) \in CounterType({"requests"})
         /\ DOMAIN FoundStatuses(ps, path) \subseteq Codes /\ IsFiniteSet(DOMAIN FoundStatuses(ps, path))
         /\ \A k \in DOMAIN FoundStatuses(ps, path) :
              FoundStatuses(ps, path)[k] \in CounterType({"requests"})
         /\ call.at \in Nat /\ call.code \in Codes /\ One \in [{"requests"} -> Nat]
<1>1. call.at \in Nat /\ call.code \in Codes /\ One \in [{"requests"} -> Nat]
  BY DEF Call, One
<1>2. DOMAIN None = {} /\ IsFiniteSet({})
  BY FS_EmptySet DEF None
<1>3. FoundTotals(ps, path, call) \in CounterType(Slots)
  BY <1>1, NewCountersFacts DEF FoundTotals, PathsOK
<1>4. /\ DOMAIN FoundStatuses(ps, path) \subseteq Codes /\ IsFiniteSet(DOMAIN FoundStatuses(ps, path))
      /\ \A k \in DOMAIN FoundStatuses(ps, path) :
           FoundStatuses(ps, path)[k] \in CounterType({"requests"})
  BY <1>2 DEF FoundStatuses, PathsOK
<1>5. FoundStatus(ps, path, call) \in CounterType({"requests"})
  BY <1>1, <1>4, NewCountersFacts DEF FoundStatus
<1> QED BY <1>1, <1>3, <1>4, <1>5

LEMMA ObservedOK ==
  ASSUME NEW ps, PathsOK(ps), NEW path \in AllPaths, NEW call \in Call
  PROVE  PathsOK(Observed(ps, path, call))
<1> DEFINE new == Observed(ps, path, call)
<1>1. /\ Added(FoundTotals(ps, path, call), call.at, Observation(call)) \in CounterType(Slots)
      /\ Added(FoundStatus(ps, path, call), call.at, One) \in CounterType({"requests"})
  BY FoundTypes, ObservationType, AddedFacts
<1>2. IsFiniteSet(DOMAIN FoundStatuses(ps, path) \cup {call.code}) /\ IsFiniteSet(DOMAIN ps \cup {path})
  BY FoundTypes, FS_AddElement DEF PathsOK
<1>3. /\ DOMAIN new = DOMAIN ps \cup {path}
      /\ \A p \in DOMAIN ps : p # path => new[p] = ps[p]
      /\ new[path].totals = Added(FoundTotals(ps, path, call), call.at, Observation(call))
      /\ DOMAIN new[path].statuses = DOMAIN FoundStatuses(ps, path) \cup {call.code}
      /\ new[path].statuses[call.code] = Added(FoundStatus(ps, path, call), call.at, One)
      /\ \A k \in DOMAIN FoundStatuses(ps, path) :
           k # call.code => new[path].statuses[k] = FoundStatuses(ps, path)[k]
  <2>1. ObservedParts(ps, path, call, new)
    BY ObservedIs, Zenon
  <2> HIDE DEF new
  <2> QED BY <2>1 DEF ObservedParts
<1> HIDE DEF new
<1>4. /\ new[path].totals \in CounterType(Slots)
      /\ DOMAIN new[path].statuses \subseteq Codes /\ IsFiniteSet(DOMAIN new[path].statuses)
      /\ \A k \in DOMAIN new[path].statuses : new[path].statuses[k] \in CounterType({"requests"})
  BY <1>1, <1>2, <1>3, FoundTypes
<1>5. PathsOK(new)
  BY <1>2, <1>3, <1>4 DEF PathsOK
<1> QED BY <1>5 DEF new

\* Recording a request in a path that has counted nothing of a later bucket.
LEMMA ObservedCounts ==
  ASSUME NEW ps, PathsOK(ps), NEW path \in AllPaths, NEW call \in Call,
         StartsBy(ps, BucketStart(call.at))
  PROVE  LET new == Observed(ps, path, call)
             at  == BucketStart(call.at)
         IN  /\ StartsBy(new, at)
             /\ \A p : \A i \in Slots, b \in Buckets, ago \in Ages : at <= b =>
                  Counted(new, p, i, b, ago) =
                    Counted(ps, p, i, b, ago)
                      + (IF p = path /\ b - ago = at THEN Observation(call)[i] ELSE 0)
             /\ \A p, k : \A b \in Buckets, ago \in Ages : at <= b =>
                  CodeCounted(new, p, k, b, ago) =
                    CodeCounted(ps, p, k, b, ago)
                      + (IF p = path /\ k = call.code /\ b - ago = at THEN 1 ELSE 0)
<1> DEFINE new == Observed(ps, path, call)
           at == BucketStart(call.at)
           totals == FoundTotals(ps, path, call)
           status == FoundStatus(ps, path, call)
<1>1. /\ DOMAIN new = DOMAIN ps \cup {path}
      /\ \A p \in DOMAIN ps : p # path => new[p] = ps[p]
      /\ new[path].totals = Added(totals, call.at, Observation(call))
      /\ DOMAIN new[path].statuses = DOMAIN FoundStatuses(ps, path) \cup {call.code}
      /\ new[path].statuses[call.code] = Added(status, call.at, One)
      /\ \A k \in DOMAIN FoundStatuses(ps, path) :
           k # call.code => new[path].statuses[k] = FoundStatuses(ps, path)[k]
  <2>1. ObservedParts(ps, path, call, new)
    BY ObservedIs, Zenon
  <2> HIDE DEF new
  <2> QED BY <2>1 DEF ObservedParts
<1>2. /\ totals \in CounterType(Slots) /\ status \in CounterType({"requests"})
      /\ call.at \in Nat /\ One \in [{"requests"} -> Nat] /\ Observation(call) \in [Slots -> Nat]
  BY FoundTypes, ObservationType
<1>3. at \in Nat /\ at \in Buckets
  BY <1>2, BucketsApart DEF Buckets
<1>4. totals.start <= at /\ status.start <= at
  <2>1. \A slots : NewCounters(call.at, slots).start = at
    BY DEF NewCounters
  <2>2. totals.start <= at
    BY <1>3, <2>1 DEF StartsBy, FoundTotals
  <2>3. status.start <= at
    BY <1>3, <2>1 DEF StartsBy, FoundStatus, FoundStatuses, None
  <2> QED BY <2>2, <2>3
<1>5. Added(totals, call.at, Observation(call)).start = at /\ Added(status, call.at, One).start = at
  BY <1>2, <1>4, AddedFacts
<1> HIDE DEF new
<1>6. StartsBy(new, at)
  <2>1. \A k \in DOMAIN FoundStatuses(ps, path) : FoundStatuses(ps, path)[k].start <= at
    BY DEF StartsBy, FoundStatuses, None
  <2>2. new[path].totals.start <= at /\ \A k \in DOMAIN new[path].statuses : new[path].statuses[k].start <= at
    BY <1>1, <1>3, <1>5, <2>1
  <2>3. \A p \in DOMAIN new : p # path => p \in DOMAIN ps /\ new[p] = ps[p]
    BY <1>1
  <2> HIDE DEF at
  <2> QED BY <2>2, <2>3 DEF StartsBy, at
<1>7. ASSUME NEW p, NEW i \in Slots, NEW b \in Buckets, NEW ago \in Ages, at <= b
      PROVE  Counted(new, p, i, b, ago) =
               Counted(ps, p, i, b, ago) + (IF p = path /\ b - ago = at THEN Observation(call)[i] ELSE 0)
  <2>1. Counted(ps, p, i, b, ago) \in Nat
    BY CountedIsNat
  <2>2. CASE p = path
    <3>1. CountOf(Added(totals, call.at, Observation(call)), i, b, ago) =
            CountOf(totals, i, b, ago) + (IF b - ago = at THEN Observation(call)[i] ELSE 0)
      BY <1>2, <1>4, <1>7, CountOfFacts
    <3>2. CountOf(totals, i, b, ago) = Counted(ps, path, i, b, ago)
      BY <1>2, CountOfFacts DEF Counted, FoundTotals
    <3>3. Counted(new, path, i, b, ago) = CountOf(Added(totals, call.at, Observation(call)), i, b, ago)
      BY <1>1 DEF Counted
    <3> QED BY <2>2, <3>1, <3>2, <3>3
  <2>3. CASE p # path
    <3>1. Counted(new, p, i, b, ago) = Counted(ps, p, i, b, ago)
      BY <1>1, <2>3 DEF Counted
    <3> QED BY <2>1, <2>3, <3>1
  <2> QED BY <2>2, <2>3
<1>8. ASSUME NEW p, NEW k, NEW b \in Buckets, NEW ago \in Ages, at <= b
      PROVE  CodeCounted(new, p, k, b, ago) =
               CodeCounted(ps, p, k, b, ago)
                 + (IF p = path /\ k = call.code /\ b - ago = at THEN 1 ELSE 0)
  <2>1. CodeCounted(ps, p, k, b, ago) \in Nat
    <3>1. "requests" \in Slots
      BY DEF Slots
    <3> QED BY <3>1, CountedIsNat
  <2>2. CASE p = path /\ k = call.code
    <3>1. CountOf(Added(status, call.at, One), "requests", b, ago) =
            CountOf(status, "requests", b, ago) + (IF b - ago = at THEN 1 ELSE 0)
      <4>1. "requests" \in {"requests"} /\ One["requests"] = 1
        BY DEF One
      <4> QED BY <1>2, <1>4, <1>8, <4>1, CountOfFacts
    <3>2. CountOf(status, "requests", b, ago) = CodeCounted(ps, path, k, b, ago)
      <4>1. CountOf(NewCounters(call.at, {"requests"}), "requests", b, ago) = 0
        BY <1>2, CountOfFacts
      <4> QED BY <2>2, <4>1 DEF CodeCounted, FoundStatus, FoundStatuses, None
    <3>3. CodeCounted(new, path, k, b, ago) = CountOf(Added(status, call.at, One), "requests", b, ago)
      BY <1>1, <2>2 DEF CodeCounted
    <3> QED BY <2>2, <3>1, <3>2, <3>3
  <2>3. CASE p = path /\ k # call.code
    <3>1. CodeCounted(new, p, k, b, ago) = CodeCounted(ps, p, k, b, ago)
      BY <1>1, <2>3 DEF CodeCounted, FoundStatuses, None
    <3> QED BY <2>1, <2>3, <3>1
  <2>4. CASE p # path
    <3>1. CodeCounted(new, p, k, b, ago) = CodeCounted(ps, p, k, b, ago)
      BY <1>1, <2>4 DEF CodeCounted
    <3> QED BY <2>1, <2>4, <3>1
  <2> QED BY <2>2, <2>3, <2>4
<1> QED BY <1>6, <1>7, <1>8 DEF new

-----------------------------------------------------------------------------
(* What a snapshot visits and shows.                                        *)

\* A counter that counts something is of no later bucket, and shows its window.
LEMMA ActiveFacts ==
  ASSUME NEW slots, NEW c \in CounterType(slots), NEW at \in Nat
  PROVE  /\ ~ Idle(c, at) => \E i \in slots : WindowValue(c, at)[i] > 0
         /\ ~ Idle(c, at) => c.start <= BucketStart(at) /\ Rotated(c, at).start = BucketStart(at)
         /\ Idle(c, at) => \A i \in slots : WindowValue(c, at)[i] = 0
         /\ ~ Idle(c, at) => \A i \in slots :
              WindowValue(Rotated(c, at), at)[i] =
                CountOf(c, i, BucketStart(at), 0) + Faded(CountOf(c, i, BucketStart(at), Span), at)
<1> DEFINE b == BucketStart(at)
           d == Rotated(c, at)
<1>1. DOMAIN c.curr = slots /\ c.start \in Buckets /\ b \in Buckets
  BY DEF CounterType, Buckets
<1>2. c.start \in Nat /\ b \in Nat
  BY <1>1, BucketFacts
<1>3. \A i \in slots : WindowValue(c, at)[i] \in Nat
  BY WindowIs
<1>4. Idle(c, at) => \A i \in slots : WindowValue(c, at)[i] = 0
  BY <1>1 DEF Idle
<1>5. ~ Idle(c, at) => \E i \in slots : WindowValue(c, at)[i] > 0
  BY <1>1, <1>3 DEF Idle
<1>6. ~ Idle(c, at) => c.start <= b
  BY <1>5, WindowIs
<1>7. d \in CounterType(slots) /\ d.start = IF b <= c.start THEN c.start ELSE b
  BY RotatedFacts
<1>8. ~ Idle(c, at) => d.start = b
  BY <1>2, <1>6, <1>7
<1>9. ASSUME ~ Idle(c, at), NEW i \in slots
      PROVE  WindowValue(d, at)[i] = CountOf(c, i, b, 0) + Faded(CountOf(c, i, b, Span), at)
  <2>1. WindowValue(d, at)[i] = CountOf(d, i, b, 0) + Faded(CountOf(d, i, b, Span), at)
    BY <1>2, <1>7, <1>8, <1>9, WindowIs
  <2>2. CountOf(d, i, b, 0) = CountOf(c, i, b, 0) /\ CountOf(d, i, b, Span) = CountOf(c, i, b, Span)
    <3>1. 0 \in Ages /\ Span \in Ages /\ c.start <= b /\ b <= b
      BY <1>2, <1>6, <1>9 DEF Ages
    <3> QED BY <1>1, <3>1, CountOfFacts
  <2> QED BY <2>1, <2>2
<1> QED BY <1>4, <1>5, <1>6, <1>8, <1>9

LEMMA VisitedIs ==
  ASSUME PathsOK(paths), NEW at \in Nat
  PROVE  /\ DOMAIN Visited(at) = {p \in DOMAIN paths : ~ Idle(paths[p].totals, at)}
         /\ DOMAIN Shown(at) = DOMAIN Visited(at)
         /\ \A p \in DOMAIN Visited(at) :
              /\ p \in DOMAIN paths
              /\ Visited(at)[p].totals = Rotated(paths[p].totals, at)
              /\ DOMAIN Visited(at)[p].statuses =
                   {k \in DOMAIN paths[p].statuses : ~ Idle(paths[p].statuses[k], at)}
              /\ \A k \in DOMAIN Visited(at)[p].statuses :
                   Visited(at)[p].statuses[k] = Rotated(paths[p].statuses[k], at)
              /\ Shown(at)[p].totals = WindowValue(Rotated(paths[p].totals, at), at)
              /\ DOMAIN Shown(at)[p].codes = DOMAIN Visited(at)[p].statuses
              /\ \A k \in DOMAIN Shown(at)[p].codes :
                   Shown(at)[p].codes[k] = WindowValue(Rotated(paths[p].statuses[k], at), at)["requests"]
<1> DEFINE v == Visited(at)
           shown == Shown(at)
<1>1. /\ DOMAIN v = {p \in DOMAIN paths : ~ Idle(paths[p].totals, at)}
      /\ \A p \in DOMAIN v :
           /\ p \in DOMAIN paths
           /\ v[p].totals = Rotated(paths[p].totals, at)
           /\ DOMAIN v[p].statuses = {k \in DOMAIN paths[p].statuses : ~ Idle(paths[p].statuses[k], at)}
           /\ \A k \in DOMAIN v[p].statuses : v[p].statuses[k] = Rotated(paths[p].statuses[k], at)
  BY DEF Visited
<1>2. /\ DOMAIN shown = DOMAIN v
      /\ \A p \in DOMAIN v :
           /\ shown[p].totals = WindowValue(v[p].totals, at)
           /\ DOMAIN shown[p].codes = DOMAIN v[p].statuses
           /\ \A k \in DOMAIN v[p].statuses :
                shown[p].codes[k] = WindowValue(v[p].statuses[k], at)["requests"]
  BY DEF Shown
<1> HIDE DEF v, shown
<1>3. \A p \in DOMAIN v :
        /\ shown[p].totals = WindowValue(Rotated(paths[p].totals, at), at)
        /\ \A k \in DOMAIN v[p].statuses :
             shown[p].codes[k] = WindowValue(Rotated(paths[p].statuses[k], at), at)["requests"]
  BY <1>1, <1>2
<1> QED BY <1>1, <1>2, <1>3 DEF v, shown

LEMMA VisitedOK ==
  ASSUME PathsOK(paths), NEW at \in Nat
  PROVE  PathsOK(Visited(at))
<1> DEFINE v == Visited(at)
<1>1. /\ DOMAIN v \subseteq DOMAIN paths
      /\ \A p \in DOMAIN v :
              /\ p \in DOMAIN paths
              /\ v[p].totals = Rotated(paths[p].totals, at)
              /\ DOMAIN v[p].statuses \subseteq DOMAIN paths[p].statuses
              /\ \A k \in DOMAIN v[p].statuses : v[p].statuses[k] = Rotated(paths[p].statuses[k], at)
  BY VisitedIs
<1> HIDE DEF v
<1>2. DOMAIN v \subseteq AllPaths /\ IsFiniteSet(DOMAIN v)
  BY <1>1, FS_Subset DEF PathsOK
<1>3. ASSUME NEW p \in DOMAIN v
      PROVE  /\ v[p].totals \in CounterType(Slots)
             /\ DOMAIN v[p].statuses \subseteq Codes /\ IsFiniteSet(DOMAIN v[p].statuses)
             /\ \A k \in DOMAIN v[p].statuses : v[p].statuses[k] \in CounterType({"requests"})
  <2>1. /\ paths[p].totals \in CounterType(Slots) /\ IsFiniteSet(DOMAIN paths[p].statuses)
        /\ DOMAIN paths[p].statuses \subseteq Codes
        /\ \A k \in DOMAIN paths[p].statuses : paths[p].statuses[k] \in CounterType({"requests"})
    BY <1>1 DEF PathsOK
  <2>2. v[p].totals \in CounterType(Slots)
    BY <1>1, <2>1, RotatedFacts
  <2>3. DOMAIN v[p].statuses \subseteq Codes /\ IsFiniteSet(DOMAIN v[p].statuses)
    BY <1>1, <2>1, FS_Subset
  <2>4. ASSUME NEW k \in DOMAIN v[p].statuses PROVE v[p].statuses[k] \in CounterType({"requests"})
    <3>1. paths[p].statuses[k] \in CounterType({"requests"})
      BY <1>1, <2>1
    <3> QED BY <1>1, <3>1, RotatedFacts
  <2> QED BY <2>2, <2>3, <2>4
<1> QED BY <1>2, <1>3 DEF PathsOK, v

\* A path that goes counts nothing, and what stays is shown with its window.
LEMMA VisitedCounts ==
  ASSUME PathsOK(paths), NEW at \in Nat, StartsBy(paths, BucketStart(at)), NEW p, NEW i \in Slots
  PROVE  /\ p \notin DOMAIN Visited(at) =>
              /\ Counted(paths, p, i, BucketStart(at), 0) = 0
              /\ Faded(Counted(paths, p, i, BucketStart(at), Span), at) = 0
         /\ p \in DOMAIN Visited(at) =>
              Shown(at)[p].totals[i] =
                Counted(paths, p, i, BucketStart(at), 0) + Faded(Counted(paths, p, i, BucketStart(at), Span), at)
         /\ \A b \in Buckets, ago \in Ages : BucketStart(at) <= b =>
              Counted(Visited(at), p, i, b, ago) =
                IF p \in DOMAIN Visited(at) THEN Counted(paths, p, i, b, ago) ELSE 0
<1> DEFINE s == BucketStart(at)
           c == paths[p].totals
<1>0. s \in Buckets /\ s \in Nat /\ 0 \in Ages /\ Span \in Ages
  BY BucketsApart DEF Buckets, Ages
<1>1. DOMAIN Visited(at) = {q \in DOMAIN paths : ~ Idle(paths[q].totals, at)}
  BY VisitedIs
<1>2. p \in DOMAIN paths => c \in CounterType(Slots) /\ c.start <= s
  BY DEF PathsOK, StartsBy
<1>3. ASSUME p \notin DOMAIN Visited(at)
      PROVE  Counted(paths, p, i, s, 0) = 0 /\ Faded(Counted(paths, p, i, s, Span), at) = 0
  <2>1. CASE p \notin DOMAIN paths
    <3>1. Faded(0, at) = 0
      BY FadedFacts
    <3> QED BY <2>1, <3>1 DEF Counted
  <2>2. CASE p \in DOMAIN paths
    <3>1. Idle(c, at)
      BY <1>1, <1>3, <2>2
    <3>2. WindowValue(c, at)[i] = 0
      BY <1>2, <2>2, <3>1, ActiveFacts
    <3>3. WindowValue(c, at)[i] = CountOf(c, i, s, 0) + Faded(CountOf(c, i, s, Span), at)
      BY <1>2, <2>2, WindowIs
    <3>4. CountOf(c, i, s, 0) \in Nat /\ CountOf(c, i, s, Span) \in Nat
      BY <1>0, <1>2, <2>2, CountOfFacts
    <3>5. Faded(CountOf(c, i, s, Span), at) \in Nat
      BY <3>4, FadedFacts
    <3>6. CountOf(c, i, s, 0) = 0 /\ Faded(CountOf(c, i, s, Span), at) = 0
      BY <3>2, <3>3, <3>4, <3>5
    <3> QED BY <2>2, <3>6 DEF Counted
  <2> QED BY <2>1, <2>2
<1>4. ASSUME p \in DOMAIN Visited(at)
      PROVE  Shown(at)[p].totals[i] = Counted(paths, p, i, s, 0) + Faded(Counted(paths, p, i, s, Span), at)
  <2>1. p \in DOMAIN paths /\ ~ Idle(c, at)
    BY <1>1, <1>4
  <2>2. Shown(at)[p].totals = WindowValue(Rotated(c, at), at)
    BY <1>4, VisitedIs
  <2>3. WindowValue(Rotated(c, at), at)[i] = CountOf(c, i, s, 0) + Faded(CountOf(c, i, s, Span), at)
    BY <1>2, <2>1, ActiveFacts
  <2> QED BY <2>1, <2>2, <2>3 DEF Counted
<1>5. ASSUME NEW b \in Buckets, NEW ago \in Ages, s <= b
      PROVE  Counted(Visited(at), p, i, b, ago) =
               IF p \in DOMAIN Visited(at) THEN Counted(paths, p, i, b, ago) ELSE 0
  <2>1. CASE p \in DOMAIN Visited(at)
    <3>1. p \in DOMAIN paths /\ Visited(at)[p].totals = Rotated(c, at)
      BY <1>1, <2>1, VisitedIs
    <3>2. c.start <= b
      <4>1. c.start \in Nat /\ b \in Nat
        BY <1>2, <3>1, BucketFacts DEF CounterType
      <4> QED BY <1>0, <1>2, <1>5, <3>1, <4>1
    <3>3. CountOf(Rotated(c, at), i, b, ago) = CountOf(c, i, b, ago)
      BY <1>2, <1>5, <3>1, <3>2, CountOfFacts
    <3> QED BY <2>1, <3>1, <3>3 DEF Counted
  <2>2. CASE p \notin DOMAIN Visited(at)
    BY <2>2 DEF Counted
  <2> QED BY <2>1, <2>2
<1> QED BY <1>3, <1>4, <1>5

LEMMA VisitedCodes ==
  ASSUME PathsOK(paths), NEW at \in Nat, StartsBy(paths, BucketStart(at)), NEW p, NEW k
  PROVE  /\ p \in DOMAIN Visited(at) /\ k \in DOMAIN Shown(at)[p].codes =>
              Shown(at)[p].codes[k] =
                CodeCounted(paths, p, k, BucketStart(at), 0)
                  + Faded(CodeCounted(paths, p, k, BucketStart(at), Span), at)
         /\ \A b \in Buckets, ago \in Ages : BucketStart(at) <= b =>
              /\ CodeCounted(Visited(at), p, k, b, ago) <= CodeCounted(paths, p, k, b, ago)
              /\ p \notin DOMAIN Visited(at) => CodeCounted(Visited(at), p, k, b, ago) = 0
<1> DEFINE s == BucketStart(at)
           c == paths[p].statuses[k]
<1>0. s \in Buckets /\ s \in Nat /\ "requests" \in Slots
  BY BucketsApart DEF Buckets, Slots
<1>1. p \in DOMAIN paths /\ k \in DOMAIN paths[p].statuses =>
        c \in CounterType({"requests"}) /\ c.start <= s
  BY DEF PathsOK, StartsBy
<1>2. p \in DOMAIN Visited(at) =>
        /\ p \in DOMAIN paths
        /\ DOMAIN Visited(at)[p].statuses =
                   {kk \in DOMAIN paths[p].statuses : ~ Idle(paths[p].statuses[kk], at)}
        /\ \A kk \in DOMAIN Visited(at)[p].statuses :
                   Visited(at)[p].statuses[kk] = Rotated(paths[p].statuses[kk], at)
        /\ DOMAIN Shown(at)[p].codes = DOMAIN Visited(at)[p].statuses
        /\ \A kk \in DOMAIN Shown(at)[p].codes :
                   Shown(at)[p].codes[kk] = WindowValue(Rotated(paths[p].statuses[kk], at), at)["requests"]
  BY VisitedIs
<1>3. ASSUME p \in DOMAIN Visited(at), k \in DOMAIN Shown(at)[p].codes
      PROVE  Shown(at)[p].codes[k] = CodeCounted(paths, p, k, s, 0) + Faded(CodeCounted(paths, p, k, s, Span), at)
  <2>1. p \in DOMAIN paths /\ k \in DOMAIN paths[p].statuses /\ ~ Idle(c, at)
    BY <1>2, <1>3
  <2>2. WindowValue(Rotated(c, at), at)["requests"] =
          CountOf(c, "requests", s, 0) + Faded(CountOf(c, "requests", s, Span), at)
    <3>1. "requests" \in {"requests"}
      OBVIOUS
    <3> QED BY <1>1, <2>1, <3>1, ActiveFacts
  <2> QED BY <1>2, <1>3, <2>1, <2>2 DEF CodeCounted
<1>4. ASSUME NEW b \in Buckets, NEW ago \in Ages, s <= b
      PROVE  /\ CodeCounted(Visited(at), p, k, b, ago) <= CodeCounted(paths, p, k, b, ago)
             /\ p \notin DOMAIN Visited(at) => CodeCounted(Visited(at), p, k, b, ago) = 0
  <2>0. CodeCounted(paths, p, k, b, ago) \in Nat
    BY <1>0, CountedIsNat
  <2>1. CASE p \in DOMAIN Visited(at) /\ k \in DOMAIN Visited(at)[p].statuses
    <3>1. p \in DOMAIN paths /\ k \in DOMAIN paths[p].statuses /\ Visited(at)[p].statuses[k] = Rotated(c, at)
      BY <1>2, <2>1
    <3>2. c.start <= b
      <4>1. c.start \in Nat /\ b \in Nat
        BY <1>1, <3>1, BucketFacts DEF CounterType
      <4> QED BY <1>0, <1>1, <1>4, <3>1, <4>1
    <3>3. CountOf(Rotated(c, at), "requests", b, ago) = CountOf(c, "requests", b, ago)
      <4>1. "requests" \in {"requests"}
        OBVIOUS
      <4>2. c \in CounterType({"requests"}) /\ at \in Nat /\ s <= b
        BY <1>1, <1>4, <3>1
      <4> HIDE DEF c
      <4> QED BY <3>2, <4>1, <4>2, CountOfFacts
    <3>4. CodeCounted(Visited(at), p, k, b, ago) = CodeCounted(paths, p, k, b, ago)
      BY <2>1, <3>1, <3>3 DEF CodeCounted
    <3> QED BY <2>0, <2>1, <3>4
  <2>2. CASE ~ (p \in DOMAIN Visited(at) /\ k \in DOMAIN Visited(at)[p].statuses)
    <3>1. CodeCounted(Visited(at), p, k, b, ago) = 0
      BY <2>2 DEF CodeCounted
    <3> QED BY <2>0, <3>1
  <2> QED BY <2>1, <2>2
<1> QED BY <1>3, <1>4

\* What stays counts from the bucket of the snapshot.
LEMMA VisitedStarts ==
  ASSUME PathsOK(paths), NEW at \in Nat
  PROVE  StartsBy(Visited(at), BucketStart(at))
<1>1. BucketStart(at) \in Nat
  BY BucketsApart
<1>2. ASSUME NEW p \in DOMAIN Visited(at) PROVE Visited(at)[p].totals.start = BucketStart(at)
  <2>1. p \in DOMAIN paths /\ ~ Idle(paths[p].totals, at) /\ Visited(at)[p].totals = Rotated(paths[p].totals, at)
    BY VisitedIs
  <2>2. paths[p].totals \in CounterType(Slots)
    BY <2>1 DEF PathsOK
  <2> QED BY <2>1, <2>2, ActiveFacts
<1>3. ASSUME NEW p \in DOMAIN Visited(at), NEW k \in DOMAIN Visited(at)[p].statuses
      PROVE  Visited(at)[p].statuses[k].start = BucketStart(at)
  <2>1. /\ p \in DOMAIN paths /\ k \in DOMAIN paths[p].statuses /\ ~ Idle(paths[p].statuses[k], at)
        /\ Visited(at)[p].statuses[k] = Rotated(paths[p].statuses[k], at)
    BY VisitedIs
  <2>2. paths[p].statuses[k] \in CounterType({"requests"})
    BY <2>1 DEF PathsOK
  <2> QED BY <2>1, <2>2, ActiveFacts
<1> QED BY <1>1, <1>2, <1>3 DEF StartsBy

-----------------------------------------------------------------------------
(* The requests recorded.                                                   *)

Recordings(cs, path, codes, b) ==
  {c \in Calls : \E call \in cs[c] :
     call.recorded /\ path \in {Global, call.path} /\ call.code \in codes /\ BucketStart(call.at) = b}

Tally(cs, path, codes, b) == Cardinality(Recordings(cs, path, codes, b))

LEMMA TallyFacts ==
  ASSUME NEW cs, NEW path, NEW codes, NEW b
  PROVE  IsFiniteSet(Recordings(cs, path, codes, b)) /\ Tally(cs, path, codes, b) \in Nat
<1>1. Recordings(cs, path, codes, b) \subseteq Calls
  BY DEF Recordings
<1> QED BY <1>1, HttpAssumption, FS_Subset, FS_CardinalityType DEF Tally

\* Does the request count for the path, the codes and the bucket?
Matches(call, path, codes, b) ==
  path \in {Global, call.path} /\ call.code \in codes /\ BucketStart(call.at) = b

\* The call of c has been recorded.
RecordedIn(cs, c, call, new) ==
  /\ c \in Calls /\ cs[c] = {call} /\ ~ call.recorded /\ call \in Call
  /\ \E t \in Nat : new = [cs EXCEPT ![c] = {[call EXCEPT !.recorded = TRUE, !.recordedAt = t]}]

LEMMA TallyGrows ==
  ASSUME NEW cs \in [Calls -> SUBSET Call], NEW c, NEW call, NEW new, RecordedIn(cs, c, call, new),
         NEW path, NEW codes, NEW b
  PROVE  Tally(new, path, codes, b) = Tally(cs, path, codes, b) + (IF Matches(call, path, codes, b) THEN 1 ELSE 0)
<1> DEFINE before == Recordings(cs, path, codes, b)
           after  == Recordings(new, path, codes, b)
<1>1. PICK t \in Nat : new = [cs EXCEPT ![c] = {[call EXCEPT !.recorded = TRUE, !.recordedAt = t]}]
  BY DEF RecordedIn
<1>2. PICK told : told = [call EXCEPT !.recorded = TRUE, !.recordedAt = t]
  OBVIOUS
<1>3. told.recorded /\ told.path = call.path /\ told.code = call.code /\ told.at = call.at
  BY <1>2 DEF RecordedIn, Call
<1>4. c \in Calls /\ new[c] = {told} /\ cs[c] = {call} /\ ~ call.recorded /\ \A d \in Calls : d # c => new[d] = cs[d]
  BY <1>1, <1>2 DEF RecordedIn
<1>5. c \notin before
  BY <1>4 DEF Recordings
<1>6. c \in after <=> Matches(call, path, codes, b)
  BY <1>3, <1>4 DEF Recordings, Matches
<1>7. \A d \in Calls : d # c => (d \in after <=> d \in before)
  BY <1>4 DEF Recordings
<1>8. before \subseteq Calls /\ after \subseteq Calls /\ IsFiniteSet(before) /\ Cardinality(before) \in Nat
  <2>1. before \subseteq Calls /\ after \subseteq Calls
    BY DEF Recordings
  <2>2. IsFiniteSet(before) /\ Cardinality(before) \in Nat
    BY TallyFacts DEF Tally
  <2> QED BY <2>1, <2>2
<1> HIDE DEF before, after
<1>9. CASE Matches(call, path, codes, b)
  <2>1. after = before \cup {c}
    BY <1>4, <1>6, <1>7, <1>8, <1>9
  <2>2. Cardinality(after) = Cardinality(before) + 1
    BY <1>5, <1>8, <2>1, FS_AddElement
  <2> QED BY <1>9, <2>2 DEF Tally, before, after
<1>10. CASE ~ Matches(call, path, codes, b)
  <2>1. after = before
    BY <1>4, <1>5, <1>6, <1>7, <1>8, <1>10
  <2> QED BY <1>8, <1>10, <2>1 DEF Tally, before, after
<1> QED BY <1>9, <1>10

-----------------------------------------------------------------------------
(* Types.                                                                   *)

CallsOK ==
  /\ now \in Nat /\ latest \in Nat
  /\ calls \in [Calls -> SUBSET Call]
  /\ \A c \in Calls : \A x, y \in calls[c] : x = y
  /\ \A c \in Calls : \A x \in calls[c] :
       x.at <= now /\ (x.recorded => x.recordedAt <= now /\ x.at <= latest)

AsksOK ==
  /\ asks \in [Readers -> SUBSET Nat]
  /\ \A r \in Readers : \A s, t \in asks[r] : s <= now /\ s = t

CacheOK ==
  /\ \A snap \in cache : snap.at \in Nat /\ snap.at <= now /\ snap.at <= latest
  /\ \A snap, other \in cache : snap = other

HttpTypes == CallsOK /\ AsksOK /\ PathsOK(paths) /\ CacheOK /\ overtaken \in BOOLEAN

LEMMA MaxOfTwo ==
  ASSUME NEW m \in Nat, NEW n \in Nat
  PROVE  Max({m, n}) \in {m, n} /\ m <= Max({m, n}) /\ n <= Max({m, n})
<1>1. \E x \in {m, n} : \A y \in {m, n} : x >= y
  <2>1. CASE m >= n BY <2>1
  <2>2. CASE n >= m BY <2>2
  <2> QED BY <2>1, <2>2
<1>2. Max({m, n}) \in {m, n} /\ \A y \in {m, n} : Max({m, n}) >= y
  BY <1>1 DEF Max
<1> QED BY <1>2

LEMMA ComesFacts ==
  ASSUME latest \in Nat, overtaken \in BOOLEAN, NEW at \in Nat, Comes(at)
  PROVE  /\ latest' \in Nat /\ latest <= latest' /\ at <= latest' /\ overtaken' \in BOOLEAN
         /\ overtaken => overtaken'
         /\ ~ overtaken' => /\ BucketStart(latest) <= BucketStart(at)
                            /\ BucketStart(latest') = BucketStart(at)
<1>1. latest' \in {latest, at} /\ latest <= latest' /\ at <= latest'
  BY MaxOfTwo DEF Comes
<1>2. overtaken' = (overtaken \/ BucketStart(at) < BucketStart(latest))
  BY DEF Comes
<1>3. BucketStart(at) \in Nat /\ BucketStart(latest) \in Nat
  BY BucketsApart
<1>4. ASSUME ~ overtaken' PROVE BucketStart(latest) <= BucketStart(at)
  <2>1. ~ (BucketStart(at) < BucketStart(latest))
    BY <1>2, <1>4, Zenon
  <2> QED BY <1>3, <2>1
<1>5. ASSUME ~ overtaken' PROVE BucketStart(latest') = BucketStart(at)
  <2>1. CASE latest' = at
    BY <2>1
  <2>2. CASE latest' = latest /\ at < latest
    <3>1. BucketStart(at) <= BucketStart(latest)
      BY <2>2, BucketsApart
    <3> QED BY <1>3, <1>4, <1>5, <2>2, <3>1
  <2> QED BY <1>1, <2>1, <2>2
<1> QED BY <1>1, <1>2, <1>4, <1>5

\* The step of Observe, by its parts.
LEMMA ObserveIs ==
  ASSUME HttpTypes, NEW c \in Calls, Observe(c)
  PROVE  \E call \in Call :
           /\ RecordedIn(calls, c, call, calls') /\ call.at <= now /\ Comes(call.at)
           /\ calls' = [calls EXCEPT ![c] = {[call EXCEPT !.recorded = TRUE, !.recordedAt = now]}]
           /\ paths' = Observed(Observed(paths, Global, call), call.path, call)
           /\ PathsOK(Observed(paths, Global, call)) /\ PathsOK(paths')
           /\ UNCHANGED <<now, asks, cache>>
<1>1. PICK call \in calls[c] :
        /\ ~ call.recorded /\ Comes(call.at)
        /\ paths' = Observed(Observed(paths, Global, call), call.path, call)
        /\ calls' = [calls EXCEPT ![c] = {[call EXCEPT !.recorded = TRUE, !.recordedAt = now]}]
        /\ UNCHANGED <<now, asks, cache>>
  BY DEF Observe
<1>2. call \in Call /\ calls[c] = {call} /\ call.at <= now /\ now \in Nat
  BY DEF HttpTypes, CallsOK
<1>3. RecordedIn(calls, c, call, calls')
  BY <1>1, <1>2 DEF RecordedIn
<1>4. Global \in AllPaths /\ call.path \in AllPaths
  BY <1>2 DEF AllPaths, Call
<1>5. PathsOK(Observed(paths, Global, call))
  BY <1>2, <1>4, ObservedOK DEF HttpTypes
<1>6. PathsOK(paths')
  <2>1. PICK ps : ps = Observed(paths, Global, call)
    OBVIOUS
  <2>2. PathsOK(Observed(ps, call.path, call))
    BY <1>2, <1>4, <1>5, <2>1, ObservedOK
  <2> QED BY <1>1, <2>1, <2>2
<1> QED BY <1>1, <1>2, <1>3, <1>5, <1>6

LEMMA HttpTypesInit == Init => HttpTypes
<1> SUFFICES ASSUME Init PROVE HttpTypes
  OBVIOUS
<1>1. DOMAIN paths = {}
  BY DEF Init, None
<1>2. PathsOK(paths)
  BY <1>1, FS_EmptySet DEF PathsOK
<1>3. calls \in [Calls -> SUBSET Call] /\ \A c \in Calls : calls[c] = {}
  BY DEF Init, NoCall
<1>4. CallsOK
  BY <1>3 DEF Init, ClockInit, CallsOK
<1>5. AsksOK /\ CacheOK
  BY DEF Init, ClockInit, AsksOK, CacheOK
<1> QED BY <1>2, <1>4, <1>5 DEF HttpTypes, Init

LEMMA HttpTypesStep == HttpTypes /\ [Next]_vars => HttpTypes'
<1> SUFFICES ASSUME HttpTypes, [Next]_vars PROVE HttpTypes'
  OBVIOUS
<1>1. CASE Tick
  <2>1. now \in Nat /\ now' = now + 1 /\ UNCHANGED <<calls, asks, paths, cache, latest, overtaken>>
    BY <1>1 DEF Tick, Advance, HttpTypes, CallsOK
  <2>2. CallsOK'
    <3>1. \A c \in Calls : \A x \in calls[c] : x.at \in Nat /\ x.recordedAt \in Nat
      BY DEF HttpTypes, CallsOK, Call
    <3> QED BY <2>1, <3>1 DEF HttpTypes, CallsOK
  <2>3. AsksOK' /\ CacheOK'
    <3>1. \A r \in Readers : \A s \in asks[r] : s \in Nat
      BY DEF HttpTypes, AsksOK
    <3> QED BY <2>1, <3>1 DEF HttpTypes, AsksOK, CacheOK
  <2> QED BY <2>1, <2>2, <2>3 DEF HttpTypes
<1>2. ASSUME NEW c \in Calls, NEW path \in Paths, NEW code \in Codes, Finish(c, path, code) PROVE HttpTypes'
  <2> DEFINE new == [path |-> path, code |-> code, at |-> now, recorded |-> FALSE, recordedAt |-> 0]
  <2>1. /\ calls' = [calls EXCEPT ![c] = {new}]
        /\ UNCHANGED <<now, asks, paths, cache, latest, overtaken>>
    BY <1>2 DEF Finish
  <2>2. new \in Call /\ new.at = now /\ ~ new.recorded /\ now \in Nat
    BY DEF Call, HttpTypes, CallsOK
  <2> HIDE DEF new
  <2>3. calls' \in [Calls -> SUBSET Call] /\ \A d \in Calls : calls'[d] = IF d = c THEN {new} ELSE calls[d]
    BY <2>1, <2>2 DEF HttpTypes, CallsOK
  <2>4. CallsOK'
    BY <2>1, <2>2, <2>3 DEF HttpTypes, CallsOK
  <2> QED BY <2>1, <2>4 DEF HttpTypes, AsksOK, CacheOK
<1>3. ASSUME NEW c \in Calls, Observe(c) PROVE HttpTypes'
  <2>1. PICK call \in Call :
           /\ RecordedIn(calls, c, call, calls') /\ call.at <= now /\ Comes(call.at)
           /\ calls' = [calls EXCEPT ![c] = {[call EXCEPT !.recorded = TRUE, !.recordedAt = now]}]
           /\ PathsOK(paths')
           /\ UNCHANGED <<now, asks, cache>>
    BY <1>3, ObserveIs
  <2>2. PICK told : told = [call EXCEPT !.recorded = TRUE, !.recordedAt = now]
    OBVIOUS
  <2>3. now \in Nat /\ latest \in Nat /\ calls \in [Calls -> SUBSET Call]
    BY DEF HttpTypes, CallsOK
  <2>4. told \in Call /\ told.at = call.at /\ told.recordedAt = now
    BY <2>2, <2>3 DEF Call
  <2>5. call.at \in Nat
    BY DEF Call
  <2>6. latest' \in Nat /\ latest <= latest' /\ call.at <= latest' /\ overtaken' \in BOOLEAN
    BY <2>1, <2>3, <2>5, ComesFacts DEF HttpTypes
  <2>7. calls' \in [Calls -> SUBSET Call] /\ \A d \in Calls : calls'[d] = IF d = c THEN {told} ELSE calls[d]
    BY <2>1, <2>2, <2>3, <2>4
  <2>8. CallsOK'
    <3>1. ASSUME NEW d \in Calls, NEW x \in calls'[d]
          PROVE  x.at <= now' /\ (x.recorded => x.recordedAt <= now' /\ x.at <= latest')
      <4>1. CASE d = c
        <5>1. x = told
          BY <2>7, <3>1, <4>1
        <5>2. x.at <= now /\ x.recordedAt <= now /\ x.at <= latest'
          BY <2>1, <2>3, <2>4, <2>6, <5>1
        <5> QED BY <2>1, <5>2
      <4>2. CASE d # c
        <5>1. x \in calls[d] /\ x.at \in Nat
          BY <2>3, <2>7, <3>1, <4>2 DEF Call
        <5>2. x.at <= now /\ (x.recorded => x.recordedAt <= now /\ x.at <= latest)
          BY <5>1 DEF HttpTypes, CallsOK
        <5> QED BY <2>1, <2>3, <2>6, <5>1, <5>2
      <4> QED BY <4>1, <4>2
    <3>2. \A d \in Calls : \A x, y \in calls'[d] : x = y
      BY <2>7 DEF HttpTypes, CallsOK
    <3> QED BY <2>1, <2>3, <2>6, <2>7, <3>1, <3>2 DEF CallsOK
  <2>9. CacheOK'
    <3>1. \A snap \in cache : snap.at \in Nat /\ snap.at <= now /\ snap.at <= latest
      BY DEF HttpTypes, CacheOK
    <3>2. \A snap \in cache : snap.at <= latest'
      BY <2>3, <2>6, <3>1
    <3> QED BY <2>1, <3>1, <3>2 DEF HttpTypes, CacheOK
  <2> QED BY <2>1, <2>6, <2>8, <2>9 DEF HttpTypes, AsksOK
<1>4. ASSUME NEW r \in Readers, Ask(r) PROVE HttpTypes'
  <2>1. asks' = [asks EXCEPT ![r] = {now}] /\ UNCHANGED <<now, calls, paths, cache, latest, overtaken>> /\ now \in Nat
    BY <1>4 DEF Ask, HttpTypes, CallsOK
  <2>2. asks' \in [Readers -> SUBSET Nat] /\ \A q \in Readers : asks'[q] = IF q = r THEN {now} ELSE asks[q]
    BY <2>1 DEF HttpTypes, AsksOK
  <2>3. AsksOK'
    BY <2>1, <2>2 DEF HttpTypes, AsksOK
  <2> QED BY <2>1, <2>3 DEF HttpTypes, CallsOK, CacheOK
<1>5. ASSUME NEW r \in Readers, Answer(r) PROVE HttpTypes'
  <2>1. PICK at \in asks[r] :
          /\ IF Kept(at) # {}
             THEN UNCHANGED <<paths, cache, latest, overtaken>>
             ELSE /\ paths' = Visited(at)
                  /\ cache' = {[at |-> at, shown |-> Shown(at)]}
                  /\ Comes(at)
          /\ asks' = [asks EXCEPT ![r] = {}]
          /\ UNCHANGED <<now, calls>>
    BY <1>5 DEF Answer
  <2>2. at \in Nat /\ at <= now /\ now \in Nat /\ latest \in Nat
    BY DEF HttpTypes, AsksOK, CallsOK
  <2>3. AsksOK'
    <3>1. asks' \in [Readers -> SUBSET Nat] /\ \A q \in Readers : asks'[q] = IF q = r THEN {} ELSE asks[q]
      BY <2>1 DEF HttpTypes, AsksOK
    <3> QED BY <2>1, <3>1 DEF HttpTypes, AsksOK
  <2>4. CASE Kept(at) # {}
    BY <2>1, <2>3, <2>4 DEF HttpTypes, CallsOK, CacheOK
  <2>5. CASE Kept(at) = {}
    <3>1. latest' \in Nat /\ latest <= latest' /\ at <= latest' /\ overtaken' \in BOOLEAN
      BY <2>1, <2>2, <2>5, ComesFacts DEF HttpTypes
    <3>2. PathsOK(paths')
      BY <2>1, <2>2, <2>5, VisitedOK DEF HttpTypes
    <3>3. CacheOK'
      <4>1. PICK snap : snap = [at |-> at, shown |-> Shown(at)]
        OBVIOUS
      <4>2. cache' = {snap} /\ snap.at = at
        BY <2>1, <2>5, <4>1
      <4> QED BY <2>1, <2>2, <3>1, <4>2 DEF CacheOK
    <3>4. CallsOK'
      <4>1. \A c \in Calls : \A x \in calls[c] : x.at \in Nat
        BY DEF HttpTypes, CallsOK, Call
      <4>2. \A c \in Calls : \A x \in calls[c] : x.recorded => x.at <= latest'
        BY <2>2, <3>1, <4>1 DEF HttpTypes, CallsOK
      <4> QED BY <2>1, <3>1, <4>2 DEF HttpTypes, CallsOK
    <3> QED BY <2>3, <3>1, <3>2, <3>3, <3>4 DEF HttpTypes
  <2> QED BY <2>4, <2>5
<1>6. CASE UNCHANGED vars
  BY <1>6 DEF vars, HttpTypes, CallsOK, AsksOK, CacheOK
<1> QED BY <1>1, <1>2, <1>3, <1>4, <1>5, <1>6 DEF Next

-----------------------------------------------------------------------------
(* Nothing is invented: seen from its own bucket or a later one, a counter  *)
(* has no more than the requests recorded.                                  *)

SoundAt(ps, cs, p, b, ago) ==
  /\ Counted(ps, p, "requests", b, ago) <= Tally(cs, p, Codes, b - ago)
  /\ Counted(ps, p, "errors", b, ago) <= Tally(cs, p, ErrorCodes, b - ago)
  /\ Counted(ps, p, "errors", b, ago) <= Counted(ps, p, "requests", b, ago)
  /\ Counted(ps, p, "duration", b, ago) = Took * Counted(ps, p, "requests", b, ago)

Sound(ps, cs, p) ==
  p \in DOMAIN ps =>
    \A b \in Buckets, ago \in Ages : ps[p].totals.start <= b => SoundAt(ps, cs, p, b, ago)

SoundPaths == \A p \in DOMAIN paths : Sound(paths, calls, p)

LEMMA SlotsAre == Slots = {"requests", "errors", "duration"}
BY DEF Slots

\* More requests recorded.
LEMMA SoundWithMore ==
  ASSUME NEW ps, PathsOK(ps), NEW cs, NEW more, NEW p, Sound(ps, cs, p),
         \A codes, b : Tally(cs, p, codes, b) <= Tally(more, p, codes, b)
  PROVE  Sound(ps, more, p)
<1> SUFFICES ASSUME p \in DOMAIN ps, NEW b \in Buckets, NEW ago \in Ages, ps[p].totals.start <= b
             PROVE  SoundAt(ps, more, p, b, ago)
  BY DEF Sound
<1>1. SoundAt(ps, cs, p, b, ago)
  BY DEF Sound
<1>2. Counted(ps, p, "requests", b, ago) \in Nat /\ Counted(ps, p, "errors", b, ago) \in Nat
  BY SlotsAre, CountedIsNat
<1>3. \A codes, a : Tally(cs, p, codes, a) \in Nat /\ Tally(more, p, codes, a) \in Nat
  BY TallyFacts
<1>4. /\ Tally(cs, p, Codes, b - ago) <= Tally(more, p, Codes, b - ago)
      /\ Tally(cs, p, ErrorCodes, b - ago) <= Tally(more, p, ErrorCodes, b - ago)
  OBVIOUS
<1> QED BY <1>1, <1>2, <1>3, <1>4 DEF SoundAt

\* Another path.
LEMMA SoundElsewhere ==
  ASSUME NEW ps, NEW cs, NEW path, NEW call, NEW p, p # path, Sound(ps, cs, p)
  PROVE  Sound(Observed(ps, path, call), cs, p)
<1>1. PICK new : new = Observed(ps, path, call)
  OBVIOUS
<1>2. ObservedParts(ps, path, call, new)
  BY <1>1, ObservedIs
<1>3. (p \in DOMAIN new <=> p \in DOMAIN ps) /\ (p \in DOMAIN ps => new[p] = ps[p])
  BY <1>2 DEF ObservedParts
<1>4. \A i, b, ago : Counted(new, p, i, b, ago) = Counted(ps, p, i, b, ago)
  BY <1>3 DEF Counted
<1>5. Sound(new, cs, p)
  BY <1>3, <1>4 DEF Sound, SoundAt
<1> QED BY <1>1, <1>5

\* The request is recorded for the path.
LEMMA SoundObserved ==
  ASSUME NEW ps, PathsOK(ps), NEW cs \in [Calls -> SUBSET Call], NEW c, NEW call \in Call, NEW new,
         RecordedIn(cs, c, call, new), NEW path \in {Global, call.path}, Sound(ps, cs, path)
  PROVE  Sound(Observed(ps, path, call), new, path)
<1> DEFINE at == BucketStart(call.at)
           totals == FoundTotals(ps, path, call)
           v == Observation(call)
           added == Added(totals, call.at, v)
<1>1. PICK os : os = Observed(ps, path, call)
  OBVIOUS
<1>2. os[path].totals = added /\ path \in DOMAIN os
  <2>1. ObservedParts(ps, path, call, os)
    BY <1>1, ObservedIs
  <2> QED BY <2>1 DEF ObservedParts
<1>3. /\ totals \in CounterType(Slots) /\ call.at \in Nat /\ call.code \in Codes
      /\ v \in [Slots -> Nat] /\ v["requests"] = 1 /\ v["duration"] = Took
      /\ v["errors"] = IF call.code \in ErrorCodes THEN 1 ELSE 0
  BY FoundTypes, ObservationType
<1>4. at \in Buckets /\ at \in Nat /\ totals.start \in Buckets /\ totals.start \in Nat
  <2>1. at \in Buckets /\ totals.start \in Buckets
    BY <1>3 DEF CounterType, Buckets
  <2> QED BY <2>1, BucketFacts
<1>5. \A codes, b : Tally(new, path, codes, b) =
        Tally(cs, path, codes, b) + (IF Matches(call, path, codes, b) THEN 1 ELSE 0)
  BY TallyGrows
<1>6. ASSUME NEW b \in Buckets, NEW ago \in Ages, totals.start <= b
      PROVE  /\ CountOf(totals, "requests", b, ago) <= Tally(cs, path, Codes, b - ago)
             /\ CountOf(totals, "errors", b, ago) <= Tally(cs, path, ErrorCodes, b - ago)
             /\ CountOf(totals, "errors", b, ago) <= CountOf(totals, "requests", b, ago)
             /\ CountOf(totals, "duration", b, ago) = Took * CountOf(totals, "requests", b, ago)
  <2>1. CASE path \in DOMAIN ps
    <3>1. totals = ps[path].totals
      BY <2>1 DEF FoundTotals
    <3>2. SoundAt(ps, cs, path, b, ago)
      BY <1>6, <2>1, <3>1 DEF Sound
    <3> QED BY <2>1, <3>1, <3>2 DEF SoundAt, Counted
  <2>2. CASE path \notin DOMAIN ps
    <3>1. totals = NewCounters(call.at, Slots)
      BY <2>2 DEF FoundTotals
    <3>2. \A i \in Slots : CountOf(totals, i, b, ago) = 0
      BY <1>3, <3>1, CountOfFacts
    <3>3. Took * 0 = 0
      BY HttpAssumption
    <3>4. Tally(cs, path, Codes, b - ago) \in Nat /\ Tally(cs, path, ErrorCodes, b - ago) \in Nat
      BY TallyFacts
    <3> QED BY <3>2, <3>3, <3>4, SlotsAre
  <2> QED BY <2>1, <2>2
<1>7. ASSUME NEW i \in Slots, NEW b \in Buckets, NEW ago \in Ages, added.start <= b
      PROVE  /\ totals.start <= b
             /\ CountOf(added, i, b, ago) = CountOf(totals, i, b, ago)
                  + (IF totals.start <= at /\ b - ago = at THEN v[i] ELSE 0)
  <2>0. CountOf(totals, i, b, ago) \in Nat
    BY <1>3, CountOfFacts
  <2>1. CASE totals.start <= at
    <3>1. added.start = at
      BY <1>3, <2>1, AddedFacts
    <3>2. totals.start <= b /\ at <= b
      BY <1>4, <1>7, <2>1, <3>1, BucketFacts
    <3>3. CountOf(added, i, b, ago) = CountOf(totals, i, b, ago) + (IF b - ago = at THEN v[i] ELSE 0)
      BY <1>3, <2>1, <3>2, CountOfFacts
    <3> QED BY <2>1, <3>2, <3>3
  <2>2. CASE ~ (totals.start <= at)
    <3>1. IsOld(totals, call.at)
      BY <1>4, <2>2 DEF IsOld
    <3>2. added = totals
      BY <3>1 DEF Added
    <3> QED BY <1>7, <2>0, <2>2, <3>2
  <2> QED BY <2>1, <2>2
<1>8. ASSUME NEW b \in Buckets, NEW ago \in Ages, added.start <= b
      PROVE  SoundAt(os, new, path, b, ago)
  <2>0. "requests" \in Slots /\ "errors" \in Slots /\ "duration" \in Slots
    BY SlotsAre
  <2>1. \A i : Counted(os, path, i, b, ago) = CountOf(added, i, b, ago)
    BY <1>2 DEF Counted
  <2>2. totals.start <= b
    BY <1>7, <1>8, <2>0
  <2>3. PICK hit \in {TRUE, FALSE} : hit <=> totals.start <= at /\ b - ago = at
    OBVIOUS
  <2>4. /\ CountOf(added, "requests", b, ago) = CountOf(totals, "requests", b, ago) + (IF hit THEN 1 ELSE 0)
        /\ CountOf(added, "errors", b, ago) =
             CountOf(totals, "errors", b, ago) + (IF hit /\ call.code \in ErrorCodes THEN 1 ELSE 0)
        /\ CountOf(added, "duration", b, ago) = CountOf(totals, "duration", b, ago) + (IF hit THEN Took ELSE 0)
    <3>1. \A i \in Slots : CountOf(added, i, b, ago) = CountOf(totals, i, b, ago) + (IF hit THEN v[i] ELSE 0)
      BY <1>7, <1>8, <2>3
    <3> QED BY <1>3, <2>0, <3>1
  <2>5. /\ CountOf(totals, "requests", b, ago) \in Nat /\ CountOf(totals, "errors", b, ago) \in Nat
        /\ CountOf(totals, "duration", b, ago) \in Nat
    BY <1>3, <2>0, CountOfFacts
  <2>6. /\ Tally(cs, path, Codes, b - ago) \in Nat /\ Tally(cs, path, ErrorCodes, b - ago) \in Nat
    BY TallyFacts
  <2>7. /\ hit => Tally(new, path, Codes, b - ago) = Tally(cs, path, Codes, b - ago) + 1
        /\ Tally(new, path, Codes, b - ago) >= Tally(cs, path, Codes, b - ago)
        /\ hit /\ call.code \in ErrorCodes =>
             Tally(new, path, ErrorCodes, b - ago) = Tally(cs, path, ErrorCodes, b - ago) + 1
        /\ Tally(new, path, ErrorCodes, b - ago) >= Tally(cs, path, ErrorCodes, b - ago)
    <3>1. hit => Matches(call, path, Codes, b - ago)
      BY <1>3, <2>3 DEF Matches
    <3>2. hit /\ call.code \in ErrorCodes => Matches(call, path, ErrorCodes, b - ago)
      BY <2>3 DEF Matches
    <3>3. /\ Tally(new, path, Codes, b - ago) =
               Tally(cs, path, Codes, b - ago) + (IF Matches(call, path, Codes, b - ago) THEN 1 ELSE 0)
          /\ Tally(new, path, ErrorCodes, b - ago) =
               Tally(cs, path, ErrorCodes, b - ago) + (IF Matches(call, path, ErrorCodes, b - ago) THEN 1 ELSE 0)
      BY <1>5
    <3> QED BY <2>6, <3>1, <3>2, <3>3
  <2>8. /\ CountOf(totals, "requests", b, ago) <= Tally(cs, path, Codes, b - ago)
        /\ CountOf(totals, "errors", b, ago) <= Tally(cs, path, ErrorCodes, b - ago)
        /\ CountOf(totals, "errors", b, ago) <= CountOf(totals, "requests", b, ago)
        /\ CountOf(totals, "duration", b, ago) = Took * CountOf(totals, "requests", b, ago)
    BY <1>6, <2>2
  <2>9. CountOf(added, "duration", b, ago) = Took * CountOf(added, "requests", b, ago)
    <3>1. PICK n \in Nat : n = CountOf(totals, "requests", b, ago)
      BY <2>5
    <3>2. Took \in Nat
      BY HttpAssumption
    <3>3. Took * (n + 1) = Took * n + Took /\ Took * n \in Nat /\ Took * (n + 0) = Took * n + 0
      BY <3>2
    <3> QED BY <2>4, <2>8, <3>1, <3>2, <3>3
  <2>10. /\ CountOf(added, "requests", b, ago) <= Tally(new, path, Codes, b - ago)
         /\ CountOf(added, "errors", b, ago) <= Tally(new, path, ErrorCodes, b - ago)
         /\ CountOf(added, "errors", b, ago) <= CountOf(added, "requests", b, ago)
    <3> HIDE DEF added, totals, at, v
    <3>1. Tally(new, path, Codes, b - ago) \in Nat /\ Tally(new, path, ErrorCodes, b - ago) \in Nat
      BY TallyFacts
    <3> QED BY <2>4, <2>5, <2>6, <2>7, <2>8, <3>1
  <2> QED BY <2>1, <2>9, <2>10 DEF SoundAt
<1>9. Sound(os, new, path)
  BY <1>2, <1>8 DEF Sound
<1> QED BY <1>1, <1>9

LEMMA SoundVisited ==
  ASSUME PathsOK(paths), NEW at \in Nat, NEW cs, NEW p, Sound(paths, cs, p)
  PROVE  Sound(Visited(at), cs, p)
<1> DEFINE s == BucketStart(at)
           c == paths[p].totals
<1>1. PICK v : v = Visited(at)
  OBVIOUS
<1> SUFFICES ASSUME p \in DOMAIN v, NEW b \in Buckets, NEW ago \in Ages, v[p].totals.start <= b
             PROVE  SoundAt(v, cs, p, b, ago)
  BY <1>1 DEF Sound
<1>2. p \in DOMAIN paths /\ ~ Idle(c, at) /\ v[p].totals = Rotated(c, at)
  BY <1>1, VisitedIs
<1>3. c \in CounterType(Slots)
  BY <1>2 DEF PathsOK
<1>4. c.start <= s /\ s <= b
  BY <1>2, <1>3, ActiveFacts
<1>5. c.start <= b
  <2>1. c.start \in Nat /\ s \in Nat /\ b \in Nat
    BY <1>3, BucketFacts, BucketsApart DEF CounterType
  <2> QED BY <1>4, <2>1
<1>6. SoundAt(paths, cs, p, b, ago)
  BY <1>2, <1>5 DEF Sound
<1>7. \A i \in Slots : Counted(v, p, i, b, ago) = Counted(paths, p, i, b, ago)
  <2>1. \A i \in Slots : CountOf(Rotated(c, at), i, b, ago) = CountOf(c, i, b, ago)
    <3> HIDE DEF c
    <3> QED BY <1>3, <1>4, <1>5, CountOfFacts
  <2> QED BY <1>2, <2>1 DEF Counted
<1> QED BY <1>6, <1>7, SlotsAre DEF SoundAt

SoundInv == HttpTypes /\ SoundPaths

\* Finishing a request records nothing.
LEMMA TallyUnrecorded ==
  ASSUME NEW c \in Calls, NEW path \in Paths, NEW code \in Codes, HttpTypes, Finish(c, path, code)
  PROVE  \A p, codes, b : /\ Recordings(calls', p, codes, b) = Recordings(calls, p, codes, b)
                          /\ Tally(calls', p, codes, b) = Tally(calls, p, codes, b)
<1>1. /\ calls[c] = {}
      /\ \E new : ~ new.recorded /\ calls' = [calls EXCEPT ![c] = {new}]
  BY DEF Finish, NoCall
<1>2. PICK new : ~ new.recorded /\ calls' = [calls EXCEPT ![c] = {new}]
  BY <1>1
<1>3. calls'[c] = {new} /\ \A d \in Calls : d # c => calls'[d] = calls[d]
  BY <1>2 DEF HttpTypes, CallsOK
<1>4. PICK cs : cs = calls'
  OBVIOUS
<1>5. ASSUME NEW p, NEW codes, NEW b PROVE Recordings(cs, p, codes, b) = Recordings(calls, p, codes, b)
  <2>1. \A d \in Calls : (\E call \in cs[d] :
           call.recorded /\ p \in {Global, call.path} /\ call.code \in codes /\ BucketStart(call.at) = b)
         <=> (\E call \in calls[d] :
           call.recorded /\ p \in {Global, call.path} /\ call.code \in codes /\ BucketStart(call.at) = b)
    BY <1>1, <1>2, <1>3, <1>4
  <2> QED BY <2>1 DEF Recordings
<1> QED BY <1>4, <1>5 DEF Tally

LEMMA SoundObserve ==
  ASSUME SoundInv, NEW c \in Calls, Observe(c)
  PROVE  SoundPaths'
<1>1. PICK call \in Call :
        /\ RecordedIn(calls, c, call, calls')
        /\ paths' = Observed(Observed(paths, Global, call), call.path, call)
        /\ PathsOK(Observed(paths, Global, call)) /\ PathsOK(paths')
  BY ObserveIs DEF SoundInv
<1>2. PICK cs, new, ps, first, second : /\ cs = calls /\ new = calls' /\ ps = paths
                         /\ first = Observed(ps, Global, call) /\ second = Observed(first, call.path, call)
  OBVIOUS
<1>3. /\ second = paths' /\ PathsOK(ps) /\ PathsOK(first) /\ PathsOK(second)
      /\ cs \in [Calls -> SUBSET Call] /\ RecordedIn(cs, c, call, new)
      /\ \A p : Sound(ps, cs, p)
  BY <1>1, <1>2 DEF SoundInv, HttpTypes, CallsOK, SoundPaths, Sound
<1>4. call.path # Global
  BY HttpAssumption DEF Call
<1>5. ASSUME NEW p PROVE Sound(second, new, p)
  <2>1. CASE p = Global
    <3>1. Sound(first, new, Global)
      BY <1>2, <1>3, SoundObserved
    <3> QED BY <1>2, <1>4, <2>1, <3>1, SoundElsewhere
  <2>2. CASE p = call.path
    <3>1. Sound(first, cs, p)
      BY <1>2, <1>3, <1>4, <2>2, SoundElsewhere
    <3> QED BY <1>2, <1>3, <2>2, <3>1, SoundObserved
  <2>3. CASE p # Global /\ p # call.path
    <3>1. Sound(first, cs, p)
      BY <1>2, <1>3, <2>3, SoundElsewhere
    <3>2. Sound(second, cs, p)
      BY <1>2, <2>3, <3>1, SoundElsewhere
    <3>3. ASSUME NEW codes, NEW b PROVE Tally(cs, p, codes, b) <= Tally(new, p, codes, b)
      <4>1. Tally(new, p, codes, b) = Tally(cs, p, codes, b) + (IF Matches(call, p, codes, b) THEN 1 ELSE 0)
        BY <1>3, TallyGrows
      <4>2. Tally(cs, p, codes, b) \in Nat
        BY TallyFacts
      <4> QED BY <4>1, <4>2
    <3> QED BY <1>3, <3>2, <3>3, SoundWithMore
  <2> QED BY <2>1, <2>2, <2>3
<1> QED BY <1>2, <1>3, <1>5 DEF SoundPaths

LEMMA SoundStep == SoundInv /\ HttpTypes' /\ [Next]_vars => SoundPaths'
<1> SUFFICES ASSUME SoundInv, [Next]_vars PROVE SoundPaths'
  OBVIOUS
<1>1. CASE UNCHANGED <<calls, paths>>
  BY <1>1 DEF SoundInv, SoundPaths
<1>2. ASSUME NEW c \in Calls, NEW path \in Paths, NEW code \in Codes, Finish(c, path, code) PROVE SoundPaths'
  <2>1. \A p, codes, b : Tally(calls', p, codes, b) = Tally(calls, p, codes, b)
    BY <1>2, TallyUnrecorded DEF SoundInv
  <2>2. paths' = paths
    BY <1>2 DEF Finish
  <2>3. PICK cs, new, ps : cs = calls /\ new = calls' /\ ps = paths
    OBVIOUS
  <2>4. \A p \in DOMAIN ps : Sound(ps, cs, p)
    BY <2>3 DEF SoundInv, SoundPaths
  <2>5. \A p \in DOMAIN ps : Sound(ps, new, p)
    BY <2>1, <2>3, <2>4 DEF Sound, SoundAt
  <2> QED BY <2>2, <2>3, <2>5 DEF SoundPaths
<1>3. ASSUME NEW r \in Readers, Answer(r) PROVE SoundPaths'
  <2>1. PICK at \in asks[r] : paths' = Visited(at) \/ paths' = paths
    BY <1>3 DEF Answer
  <2>2. calls' = calls
    BY <1>3 DEF Answer
  <2>3. at \in Nat
    BY DEF SoundInv, HttpTypes, AsksOK
  <2>4. CASE paths' = Visited(at)
    <3>1. \A p : Sound(Visited(at), calls, p)
      BY <2>3, SoundVisited DEF SoundInv, SoundPaths, HttpTypes, Sound
    <3> QED BY <2>2, <2>4, <3>1 DEF SoundPaths
  <2> QED BY <1>1, <2>1, <2>2, <2>4
<1>4. ASSUME NEW c \in Calls, Observe(c) PROVE SoundPaths'
  BY <1>4, SoundObserve
<1>5. Tick \/ (\E r \in Readers : Ask(r)) \/ UNCHANGED vars => UNCHANGED <<calls, paths>>
  BY DEF Tick, Ask, vars
<1> QED BY <1>1, <1>2, <1>3, <1>4, <1>5 DEF Next

LEMMA SoundInvariant == Spec => []SoundInv
<1>1. Init => SoundPaths
  <2>1. Init => DOMAIN paths = {}
    BY DEF Init, None
  <2> QED BY <2>1 DEF SoundPaths
<1>2. SoundInv /\ [Next]_vars => SoundInv'
  BY HttpTypesStep, SoundStep DEF SoundInv
<1> QED BY <1>1, <1>2, HttpTypesInit, PTL DEF Spec, SoundInv

\* Everything recorded was recorded by now.
LEMMA RecordedByNow ==
  ASSUME HttpTypes, NEW p, NEW codes, NEW b
  PROVE  Recorded(p, codes, b, now) = Recordings(calls, p, codes, b)
<1>1. \A c \in Calls : \A call \in calls[c] : call.recorded => call.recordedAt <= now
  BY DEF HttpTypes, CallsOK
<1> QED BY <1>1 DEF Recorded, Recordings

\* HttpMetrics.NothingInvented: however late requests and readers come to the
\* lock, and whatever paths went meanwhile, a counter has counted no request
\* twice, or in another bucket, or as what it was not (observe, http.go:157, and
\* rotate of the counters).
THEOREM NothingEverInvented == Spec => []NothingInvented
<1>1. SoundInv => NothingInvented
  <2> SUFFICES ASSUME SoundInv, NEW p \in DOMAIN paths
               PROVE  \A i \in {"requests", "errors"} :
                 LET totals == paths[p].totals
                     count(start) == Cardinality(Recorded(p, CodesOf(i), start, now))
                 IN  /\ totals.curr[i] <= count(totals.start)
                     /\ totals.prev[i] <= count(totals.start - Span)
                     /\ totals.curr["errors"] <= totals.curr["requests"]
                     /\ totals.prev["errors"] <= totals.prev["requests"]
    BY DEF NothingInvented
  <2> DEFINE c == paths[p].totals
             b == c.start
  <2>1. c \in CounterType(Slots)
    BY DEF SoundInv, HttpTypes, PathsOK
  <2>2. b \in Buckets /\ b \in Nat /\ Span \in Nat /\ Span > 0
    BY <2>1, BucketFacts DEF CounterType
  <2>3. 0 \in Ages /\ Span \in Ages /\ b <= b /\ b - 0 = b
    BY <2>2 DEF Ages
  <2>4. SoundAt(paths, calls, p, b, 0) /\ SoundAt(paths, calls, p, b, Span)
    BY <2>2, <2>3 DEF SoundInv, SoundPaths, Sound
  <2>5. \A i : Counted(paths, p, i, b, 0) = c.curr[i] /\ Counted(paths, p, i, b, Span) = c.prev[i]
    BY <2>2 DEF Counted, CountOf, CurrOf, PrevOf
  <2>6. \A codes, a : Cardinality(Recorded(p, codes, a, now)) = Tally(calls, p, codes, a)
    BY RecordedByNow DEF SoundInv, Tally
  <2>7. CodesOf("errors") = ErrorCodes /\ CodesOf("requests") = Codes
    BY DEF CodesOf
  <2>8. /\ c.curr["requests"] <= Tally(calls, p, Codes, b) /\ c.curr["errors"] <= Tally(calls, p, ErrorCodes, b)
        /\ c.prev["requests"] <= Tally(calls, p, Codes, b - Span)
        /\ c.prev["errors"] <= Tally(calls, p, ErrorCodes, b - Span)
        /\ c.curr["errors"] <= c.curr["requests"] /\ c.prev["errors"] <= c.prev["requests"]
    BY <2>3, <2>4, <2>5 DEF SoundAt
  <2> QED BY <2>6, <2>7, <2>8
<1> QED BY <1>1, SoundInvariant, PTL

-----------------------------------------------------------------------------
(* Only active paths.                                                       *)

IsActive(p, at) ==
  \E c \in Calls : \E call \in calls[c] :
    /\ call.recorded /\ p \in {Global, call.path}
    /\ BucketStart(call.at) >= BucketStart(at) - Span \/ call.recordedAt >= at

\* What stays after a snapshot has counted requests of its window.
LEMMA VisitedIsActive ==
  ASSUME SoundInv, NEW at \in Nat, NEW p \in DOMAIN Visited(at)
  PROVE  IsActive(p, at)
<1> DEFINE s == BucketStart(at)
           c == paths[p].totals
<1>1. p \in DOMAIN paths /\ ~ Idle(c, at)
  BY VisitedIs DEF SoundInv, HttpTypes
<1>2. c \in CounterType(Slots) /\ s \in Buckets /\ s \in Nat /\ Span \in Nat
  BY <1>1, BucketsApart, SpanAssumption DEF SoundInv, HttpTypes, PathsOK, Buckets
<1>3. c.start <= s /\ \E i \in Slots : WindowValue(c, at)[i] > 0
  BY <1>1, <1>2, ActiveFacts
<1>4. PICK i \in Slots : WindowValue(c, at)[i] > 0
  BY <1>3
<1>5. CountOf(c, i, s, 0) + Faded(CountOf(c, i, s, Span), at) > 0
  BY <1>2, <1>3, <1>4, WindowIs
<1>6. PICK ago \in Ages : CountOf(c, i, s, ago) > 0
  <2>1. 0 \in Ages /\ Span \in Ages
    BY DEF Ages
  <2>2. CountOf(c, i, s, 0) \in Nat /\ CountOf(c, i, s, Span) \in Nat
    BY <1>2, <2>1, CountOfFacts
  <2>3. Faded(0, at) = 0
    BY FadedFacts
  <2> QED BY <1>5, <2>1, <2>2, <2>3
<1>7. SoundAt(paths, calls, p, s, ago)
  BY <1>1, <1>2, <1>3 DEF SoundInv, SoundPaths, Sound
<1>8. \A j : Counted(paths, p, j, s, ago) = CountOf(c, j, s, ago)
  BY <1>1 DEF Counted
<1>9. CountOf(c, "requests", s, ago) > 0
  <2>1. CountOf(c, "requests", s, ago) \in Nat /\ CountOf(c, "errors", s, ago) \in Nat
    BY <1>2, SlotsAre, CountOfFacts
  <2>2. Took * 0 = 0
    BY HttpAssumption
  <2> QED BY <1>6, <1>7, <1>8, <2>1, <2>2, SlotsAre DEF SoundAt
<1>10. Tally(calls, p, Codes, s - ago) > 0
  BY <1>2, <1>7, <1>8, <1>9, CountOfFacts, TallyFacts, SlotsAre DEF SoundAt
<1>11. PICK d : d \in Recordings(calls, p, Codes, s - ago)
  <2>1. Recordings(calls, p, Codes, s - ago) # {}
    BY <1>10, FS_EmptySet DEF Tally
  <2> QED BY <2>1
<1>12. PICK call \in calls[d] : d \in Calls /\ call.recorded /\ p \in {Global, call.path} /\ BucketStart(call.at) = s - ago
  BY <1>11 DEF Recordings
<1>13. s - ago >= s - Span
  BY <1>2 DEF Ages
<1> QED BY <1>12, <1>13 DEF IsActive

ActiveInv == SoundInv /\ \A snap \in cache : \A p \in DOMAIN paths : IsActive(p, snap.at)

LEMMA ActiveStep == ActiveInv /\ [Next]_vars => (\A snap \in cache : \A p \in DOMAIN paths : IsActive(p, snap.at))'
<1> SUFFICES ASSUME ActiveInv, [Next]_vars, NEW snap \in cache', NEW p \in DOMAIN paths'
             PROVE  IsActive(p, snap.at)'
  OBVIOUS
<1>1. PICK at, cs : at = snap.at /\ cs = calls'
  OBVIOUS
<1> SUFFICES \E c \in Calls : \E call \in cs[c] :
               /\ call.recorded /\ p \in {Global, call.path}
               /\ BucketStart(call.at) >= BucketStart(at) - Span \/ call.recordedAt >= at
  BY <1>1 DEF IsActive
<1>2. CASE calls' = calls /\ cache' = cache /\ paths' = paths
  BY <1>1, <1>2 DEF ActiveInv, IsActive
<1>3. CASE \E c \in Calls, path \in Paths, code \in Codes : Finish(c, path, code)
  <2>1. PICK c \in Calls, path \in Paths, code \in Codes : Finish(c, path, code)
    BY <1>3
  <2>2. cache' = cache /\ paths' = paths /\ calls[c] = {} /\ \A d \in Calls : d # c => cs[d] = calls[d]
    BY <1>1, <2>1 DEF Finish, NoCall, ActiveInv, SoundInv, HttpTypes, CallsOK
  <2>3. IsActive(p, at)
    BY <1>1, <2>2 DEF ActiveInv
  <2> QED BY <2>2, <2>3 DEF IsActive
<1>4. CASE \E c \in Calls : Observe(c)
  <2>1. PICK c \in Calls : Observe(c)
    BY <1>4
  <2>2. PICK call \in Call :
           /\ RecordedIn(calls, c, call, calls')
           /\ calls' = [calls EXCEPT ![c] = {[call EXCEPT !.recorded = TRUE, !.recordedAt = now]}]
           /\ paths' = Observed(Observed(paths, Global, call), call.path, call)
           /\ UNCHANGED <<now, asks, cache>>
    BY <2>1, ObserveIs DEF ActiveInv, SoundInv
  <2>3. PICK told : told = [call EXCEPT !.recorded = TRUE, !.recordedAt = now]
    OBVIOUS
  <2>4. told.recorded /\ told.path = call.path /\ told.recordedAt = now
    BY <2>3 DEF Call
  <2>5. /\ cs[c] = {told} /\ calls[c] = {call} /\ ~ call.recorded
        /\ \A d \in Calls : d # c => cs[d] = calls[d]
    BY <1>1, <2>2, <2>3 DEF RecordedIn, ActiveInv, SoundInv, HttpTypes, CallsOK
  <2>6. p \in DOMAIN paths \/ p \in {Global, call.path}
    <3>1. PICK first : first = Observed(paths, Global, call)
      OBVIOUS
    <3>2. PICK second : second = Observed(first, call.path, call)
      OBVIOUS
    <3>3. ObservedParts(paths, Global, call, first) /\ ObservedParts(first, call.path, call, second)
      BY <3>1, <3>2, ObservedIs
    <3>4. DOMAIN first = DOMAIN paths \cup {Global} /\ DOMAIN second = DOMAIN first \cup {call.path}
      BY <3>3 DEF ObservedParts
    <3>5. p \in DOMAIN second
      BY <2>2, <3>1, <3>2
    <3> QED BY <3>4, <3>5
  <2>7. CASE p \in {Global, call.path}
    <3>1. told.recordedAt >= at
      BY <1>1, <2>2, <2>4 DEF ActiveInv, SoundInv, HttpTypes, CallsOK, CacheOK
    <3> QED BY <2>4, <2>5, <2>7, <3>1
  <2>8. CASE p \in DOMAIN paths
    <3>1. IsActive(p, at)
      BY <1>1, <2>2, <2>8 DEF ActiveInv
    <3> QED BY <2>5, <3>1 DEF IsActive
  <2> QED BY <2>6, <2>7, <2>8
<1>5. CASE \E r \in Readers : Answer(r)
  <2>1. PICK r \in Readers : Answer(r)
    BY <1>5
  <2>2. PICK t \in asks[r] :
          /\ IF Kept(t) # {}
             THEN UNCHANGED <<paths, cache>>
             ELSE /\ paths' = Visited(t)
                  /\ cache' = {[at |-> t, shown |-> Shown(t)]}
          /\ calls' = calls
    BY <2>1 DEF Answer
  <2>3. CASE Kept(t) = {}
    <3>1. at = t /\ t \in Nat /\ p \in DOMAIN Visited(t)
      BY <1>1, <2>2, <2>3 DEF ActiveInv, SoundInv, HttpTypes, AsksOK
    <3>2. IsActive(p, at)
      BY <3>1, VisitedIsActive DEF ActiveInv
    <3> QED BY <1>1, <2>2, <3>2 DEF IsActive
  <2> QED BY <1>2, <2>2, <2>3
<1>6. Tick \/ (\E r \in Readers : Ask(r)) \/ UNCHANGED vars => calls' = calls /\ cache' = cache /\ paths' = paths
  BY DEF Tick, Ask, vars
<1> QED BY <1>2, <1>3, <1>4, <1>5, <1>6 DEF Next

LEMMA ActiveInvariant == Spec => []ActiveInv
<1>1. Init => \A snap \in cache : \A p \in DOMAIN paths : IsActive(p, snap.at)
  BY DEF Init
<1>2. SoundInv' /\ ActiveInv /\ [Next]_vars => ActiveInv'
  BY ActiveStep DEF ActiveInv
<1> QED BY <1>1, <1>2, SoundInvariant, PTL DEF Spec, ActiveInv

-----------------------------------------------------------------------------
(* Snapshots add up.                                                        *)

PathsSum(ps, F, i, b, ago) == Total([p \in F |-> Counted(ps, p, i, b, ago)], F)

CodesSum(ps, p, F, b, ago) == Total([k \in F |-> CodeCounted(ps, p, k, b, ago)], F)

FiniteIn(S) == {F \in SUBSET S : IsFiniteSet(F)}

\* Of the paths, and of the codes of a path, no more is counted than of all.
PathsAddUp(ps, b) ==
  \A F \in FiniteIn(Paths), i \in Slots, ago \in Ages :
    PathsSum(ps, F, i, b, ago) <= Counted(ps, Global, i, b, ago)

CodesAddUp(ps, b) ==
  \A p \in AllPaths, F \in FiniteIn(Codes), ago \in Ages :
    /\ CodesSum(ps, p, F, b, ago) <= Counted(ps, p, "requests", b, ago)
    /\ F \subseteq ErrorCodes => CodesSum(ps, p, F, b, ago) <= Counted(ps, p, "errors", b, ago)

\* As long as nobody came late, no counter is ahead of the latest, and they add
\* up, seen from its bucket or a later one.
InTime ==
  ~ overtaken =>
    /\ StartsBy(paths, BucketStart(latest))
    /\ \A b \in Buckets : BucketStart(latest) <= b => PathsAddUp(paths, b) /\ CodesAddUp(paths, b)

LEMMA SumsAreNat ==
  ASSUME NEW ps, PathsOK(ps), NEW F, IsFiniteSet(F), NEW i \in Slots, NEW p,
         NEW b \in Buckets, NEW ago \in Ages
  PROVE  PathsSum(ps, F, i, b, ago) \in Nat /\ CodesSum(ps, p, F, b, ago) \in Nat
<1>1. \A x \in F : [q \in F |-> Counted(ps, q, i, b, ago)][x] \in Nat
  BY CountedIsNat
<1>2. \A x \in F : [k \in F |-> CodeCounted(ps, p, k, b, ago)][x] \in Nat
  BY CountedIsNat
<1> QED BY <1>1, <1>2, TotalSplits DEF PathsSum, CodesSum

\* What counts nothing adds nothing.
LEMMA TotalOfZeros ==
  ASSUME NEW F, IsFiniteSet(F), NEW f, \A x \in F : f[x] = 0
  PROVE  Total(f, F) = 0
<1> DEFINE G == {s \in SUBSET F : Total(f, s) = 0}
<1>1. {} \in G
  BY TotalOfNone
<1>2. ASSUME NEW s \in SUBSET F, s # {}, \A x \in s : s \ {x} \in G PROVE s \in G
  <2>1. PICK x \in s : TRUE
    BY <1>2
  <2>2. Total(f, s) = f[x] + Total(f, s \ {x})
    BY <2>1, TotalSplits
  <2> QED BY <1>2, <2>1, <2>2
<1> HIDE DEF G
<1>3. F \in G
  BY <1>1, <1>2, SubsetsGrow
<1> QED BY <1>3 DEF G

\* The counters after a request is recorded for Global and for its path.
LEMMA RecordedCounts ==
  ASSUME NEW ps, PathsOK(ps), NEW call \in Call, PathsOK(Observed(ps, Global, call)),
         StartsBy(ps, BucketStart(call.at)), NEW new,
         new = Observed(Observed(ps, Global, call), call.path, call)
  PROVE  /\ StartsBy(new, BucketStart(call.at))
         /\ \A p : \A i \in Slots, b \in Buckets, ago \in Ages : BucketStart(call.at) <= b =>
              Counted(new, p, i, b, ago) =
                Counted(ps, p, i, b, ago)
                  + (IF p \in {Global, call.path} /\ b - ago = BucketStart(call.at) THEN Observation(call)[i] ELSE 0)
         /\ \A p, k : \A b \in Buckets, ago \in Ages : BucketStart(call.at) <= b =>
              CodeCounted(new, p, k, b, ago) =
                CodeCounted(ps, p, k, b, ago)
                  + (IF p \in {Global, call.path} /\ k = call.code /\ b - ago = BucketStart(call.at) THEN 1 ELSE 0)
<1> DEFINE at == BucketStart(call.at)
<1>1. PICK first : first = Observed(ps, Global, call)
  OBVIOUS
<1>2. PathsOK(first) /\ new = Observed(first, call.path, call)
  BY <1>1
<1>3. Global \in AllPaths /\ call.path \in AllPaths /\ call.path # Global
  BY HttpAssumption DEF AllPaths, Call
<1>4. /\ StartsBy(first, at)
      /\ \A p : \A i \in Slots, b \in Buckets, ago \in Ages : at <= b =>
           Counted(first, p, i, b, ago) =
             Counted(ps, p, i, b, ago) + (IF p = Global /\ b - ago = at THEN Observation(call)[i] ELSE 0)
      /\ \A p, k : \A b \in Buckets, ago \in Ages : at <= b =>
           CodeCounted(first, p, k, b, ago) =
             CodeCounted(ps, p, k, b, ago) + (IF p = Global /\ k = call.code /\ b - ago = at THEN 1 ELSE 0)
  BY <1>1, <1>3, ObservedCounts
<1>5. /\ StartsBy(new, at)
      /\ \A p : \A i \in Slots, b \in Buckets, ago \in Ages : at <= b =>
           Counted(new, p, i, b, ago) =
             Counted(first, p, i, b, ago) + (IF p = call.path /\ b - ago = at THEN Observation(call)[i] ELSE 0)
      /\ \A p, k : \A b \in Buckets, ago \in Ages : at <= b =>
           CodeCounted(new, p, k, b, ago) =
             CodeCounted(first, p, k, b, ago) + (IF p = call.path /\ k = call.code /\ b - ago = at THEN 1 ELSE 0)
  BY <1>2, <1>3, <1>4, ObservedCounts
<1> HIDE DEF at
<1>6. ASSUME NEW p, NEW i \in Slots, NEW b \in Buckets, NEW ago \in Ages, at <= b
      PROVE  Counted(new, p, i, b, ago) = Counted(ps, p, i, b, ago)
                  + (IF p \in {Global, call.path} /\ b - ago = at THEN Observation(call)[i] ELSE 0)
  <2>1. Counted(ps, p, i, b, ago) \in Nat /\ Observation(call)[i] \in Nat
    BY CountedIsNat, ObservationType
  <2>2. Counted(first, p, i, b, ago) =
          Counted(ps, p, i, b, ago) + (IF p = Global /\ b - ago = at THEN Observation(call)[i] ELSE 0)
    BY <1>4, <1>6
  <2>3. Counted(new, p, i, b, ago) =
          Counted(first, p, i, b, ago) + (IF p = call.path /\ b - ago = at THEN Observation(call)[i] ELSE 0)
    BY <1>5, <1>6
  <2> QED BY <1>3, <2>1, <2>2, <2>3
<1>7. ASSUME NEW p, NEW k, NEW b \in Buckets, NEW ago \in Ages, at <= b
      PROVE  CodeCounted(new, p, k, b, ago) = CodeCounted(ps, p, k, b, ago)
                  + (IF p \in {Global, call.path} /\ k = call.code /\ b - ago = at THEN 1 ELSE 0)
  <2>1. CodeCounted(ps, p, k, b, ago) \in Nat
    BY CountedIsNat, SlotsAre
  <2>2. CodeCounted(first, p, k, b, ago) =
          CodeCounted(ps, p, k, b, ago) + (IF p = Global /\ k = call.code /\ b - ago = at THEN 1 ELSE 0)
    BY <1>4, <1>7
  <2>3. CodeCounted(new, p, k, b, ago) =
          CodeCounted(first, p, k, b, ago) + (IF p = call.path /\ k = call.code /\ b - ago = at THEN 1 ELSE 0)
    BY <1>5, <1>7
  <2> QED BY <1>3, <2>1, <2>2, <2>3
<1> QED BY <1>5, <1>6, <1>7 DEF at

LEMMA RecordedAddsUp ==
  ASSUME NEW ps, PathsOK(ps), NEW call \in Call, PathsOK(Observed(ps, Global, call)),
         StartsBy(ps, BucketStart(call.at)), NEW new, PathsOK(new),
         new = Observed(Observed(ps, Global, call), call.path, call),
         NEW b \in Buckets, BucketStart(call.at) <= b, PathsAddUp(ps, b), CodesAddUp(ps, b)
  PROVE  PathsAddUp(new, b) /\ CodesAddUp(new, b)
<1> DEFINE at == BucketStart(call.at)
<1>1. \A p : \A i \in Slots, ago \in Ages :
        Counted(new, p, i, b, ago) = Counted(ps, p, i, b, ago)
                  + (IF p \in {Global, call.path} /\ b - ago = at THEN Observation(call)[i] ELSE 0)
  BY RecordedCounts
<1>2. \A p, k : \A ago \in Ages :
        CodeCounted(new, p, k, b, ago) = CodeCounted(ps, p, k, b, ago)
                  + (IF p \in {Global, call.path} /\ k = call.code /\ b - ago = at THEN 1 ELSE 0)
  BY RecordedCounts
<1> HIDE DEF at
<1>3. ASSUME NEW F \in FiniteIn(Paths), NEW i \in Slots, NEW ago \in Ages
      PROVE  PathsSum(new, F, i, b, ago) <= Counted(new, Global, i, b, ago)
  <2> DEFINE f == [p \in F |-> Counted(ps, p, i, b, ago)]
             g == [p \in F |-> Counted(new, p, i, b, ago)]
             v == IF b - ago = at THEN Observation(call)[i] ELSE 0
  <2>1. F \subseteq Paths /\ IsFiniteSet(F) /\ Global \notin F
    BY HttpAssumption DEF FiniteIn
  <2>2. v \in Nat
    BY ObservationType
  <2>3. \A p \in F : f[p] \in Nat /\ g[p] \in Nat
    BY CountedIsNat
  <2>4. \A p \in F : g[p] <= f[p] + (IF p = call.path THEN v ELSE 0)
    BY <1>1, <2>1, <2>3
  <2>5. PathsSum(ps, F, i, b, ago) <= Counted(ps, Global, i, b, ago)
    BY DEF PathsAddUp
  <2>6. Counted(new, Global, i, b, ago) = Counted(ps, Global, i, b, ago) + v
    BY <1>1
  <2>7. Counted(ps, Global, i, b, ago) \in Nat /\ PathsSum(ps, F, i, b, ago) \in Nat /\ PathsSum(new, F, i, b, ago) \in Nat
    BY <2>1, CountedIsNat, SumsAreNat
  <2> HIDE DEF f, g, v
  <2>8. Total(g, F) <= Total(f, F) + (IF call.path \in F THEN v ELSE 0)
    BY <2>1, <2>2, <2>3, <2>4, TotalGrows
  <2>9. PathsSum(new, F, i, b, ago) = Total(g, F) /\ PathsSum(ps, F, i, b, ago) = Total(f, F)
    BY DEF PathsSum, f, g
  <2> QED BY <2>2, <2>5, <2>6, <2>7, <2>8, <2>9
<1>4. ASSUME NEW p \in AllPaths, NEW F \in FiniteIn(Codes), NEW ago \in Ages
      PROVE  /\ CodesSum(new, p, F, b, ago) <= Counted(new, p, "requests", b, ago)
             /\ F \subseteq ErrorCodes => CodesSum(new, p, F, b, ago) <= Counted(new, p, "errors", b, ago)
  <2> DEFINE f == [k \in F |-> CodeCounted(ps, p, k, b, ago)]
             g == [k \in F |-> CodeCounted(new, p, k, b, ago)]
             v == IF p \in {Global, call.path} /\ b - ago = at THEN 1 ELSE 0
  <2>1. IsFiniteSet(F)
    BY DEF FiniteIn
  <2>2. v \in Nat
    OBVIOUS
  <2>3. \A k \in F : f[k] \in Nat /\ g[k] \in Nat
    BY CountedIsNat, SlotsAre
  <2>4. \A k \in F : g[k] <= f[k] + (IF k = call.code THEN v ELSE 0)
    BY <1>2, <2>3
  <2>5. /\ CodesSum(ps, p, F, b, ago) <= Counted(ps, p, "requests", b, ago)
        /\ F \subseteq ErrorCodes => CodesSum(ps, p, F, b, ago) <= Counted(ps, p, "errors", b, ago)
    BY DEF CodesAddUp
  <2>6. /\ Counted(new, p, "requests", b, ago) = Counted(ps, p, "requests", b, ago) + v
        /\ call.code \in ErrorCodes => Counted(new, p, "errors", b, ago) = Counted(ps, p, "errors", b, ago) + v
        /\ Counted(new, p, "errors", b, ago) >= Counted(ps, p, "errors", b, ago)
    <3>1. /\ Observation(call)["requests"] = 1
          /\ Observation(call)["errors"] = IF call.code \in ErrorCodes THEN 1 ELSE 0
      BY ObservationType
    <3>2. Counted(ps, p, "errors", b, ago) \in Nat
      BY CountedIsNat, SlotsAre
    <3>3. "requests" \in Slots /\ "errors" \in Slots
      BY SlotsAre
    <3>4. /\ Counted(new, p, "requests", b, ago) = Counted(ps, p, "requests", b, ago) +
               (IF p \in {Global, call.path} /\ b - ago = at THEN Observation(call)["requests"] ELSE 0)
          /\ Counted(new, p, "errors", b, ago) = Counted(ps, p, "errors", b, ago) +
               (IF p \in {Global, call.path} /\ b - ago = at THEN Observation(call)["errors"] ELSE 0)
      BY <1>1, <3>3
    <3> QED BY <3>1, <3>2, <3>4
  <2>7. /\ Counted(ps, p, "requests", b, ago) \in Nat /\ Counted(ps, p, "errors", b, ago) \in Nat
        /\ Counted(new, p, "errors", b, ago) \in Nat
        /\ CodesSum(ps, p, F, b, ago) \in Nat /\ CodesSum(new, p, F, b, ago) \in Nat
    BY <2>1, CountedIsNat, SumsAreNat, SlotsAre
  <2> HIDE DEF f, g, v
  <2>8. Total(g, F) <= Total(f, F) + (IF call.code \in F THEN v ELSE 0)
    BY <2>1, <2>2, <2>3, <2>4, TotalGrows
  <2>9. CodesSum(new, p, F, b, ago) = Total(g, F) /\ CodesSum(ps, p, F, b, ago) = Total(f, F)
    BY DEF CodesSum, f, g
  <2>10. CodesSum(new, p, F, b, ago) <= CodesSum(ps, p, F, b, ago) + (IF call.code \in F THEN v ELSE 0)
    BY <2>8, <2>9
  <2>11. CodesSum(new, p, F, b, ago) <= Counted(new, p, "requests", b, ago)
    BY <2>2, <2>5, <2>6, <2>7, <2>10
  <2>12. ASSUME F \subseteq ErrorCodes PROVE CodesSum(new, p, F, b, ago) <= Counted(new, p, "errors", b, ago)
    <3>1. call.code \in F => call.code \in ErrorCodes
      BY <2>12
    <3> QED BY <2>2, <2>5, <2>6, <2>7, <2>10, <2>12, <3>1
  <2> QED BY <2>11, <2>12
<1> QED BY <1>3, <1>4 DEF PathsAddUp, CodesAddUp

\* A path that stays counts something in the window.
LEMMA VisitedCountsSome ==
  ASSUME PathsOK(paths), NEW at \in Nat, NEW p \in DOMAIN Visited(at)
  PROVE  \E i \in Slots :
           Counted(paths, p, i, BucketStart(at), 0) + Faded(Counted(paths, p, i, BucketStart(at), Span), at) > 0
<1> DEFINE c == paths[p].totals
<1>1. p \in DOMAIN paths /\ ~ Idle(c, at)
  BY VisitedIs
<1>2. c \in CounterType(Slots)
  BY <1>1 DEF PathsOK
<1>3. c.start <= BucketStart(at) /\ \E i \in Slots : WindowValue(c, at)[i] > 0
  BY <1>1, <1>2, ActiveFacts
<1>4. PICK i \in Slots : WindowValue(c, at)[i] > 0
  BY <1>3
<1>5. CountOf(c, i, BucketStart(at), 0) + Faded(CountOf(c, i, BucketStart(at), Span), at) > 0
  BY <1>2, <1>3, <1>4, WindowIs
<1> QED BY <1>1, <1>5 DEF Counted

\* A path is among the paths that add up to no more than Global has.
LEMMA PathBelowGlobal ==
  ASSUME NEW ps, PathsOK(ps), NEW b \in Buckets, PathsAddUp(ps, b), NEW p \in Paths,
         NEW i \in Slots, NEW ago \in Ages
  PROVE  Counted(ps, p, i, b, ago) <= Counted(ps, Global, i, b, ago)
<1> DEFINE f == [q \in {p} |-> Counted(ps, q, i, b, ago)]
<1>1. {p} \in FiniteIn(Paths) /\ IsFiniteSet({p})
  BY FS_Singleton DEF FiniteIn
<1>2. \A q \in {p} : f[q] \in Nat
  BY CountedIsNat
<1>3. f[p] = Counted(ps, p, i, b, ago)
  OBVIOUS
<1>4. Total(f, {p}) = PathsSum(ps, {p}, i, b, ago)
  BY DEF PathsSum
<1> HIDE DEF f
<1>5. f[p] <= Total(f, {p})
  BY <1>1, <1>2, MemberBelow
<1>6. PathsSum(ps, {p}, i, b, ago) <= Counted(ps, Global, i, b, ago)
  BY <1>1 DEF PathsAddUp
<1>7. Counted(ps, p, i, b, ago) \in Nat /\ Counted(ps, Global, i, b, ago) \in Nat /\ PathsSum(ps, {p}, i, b, ago) \in Nat
  BY <1>1, CountedIsNat, SumsAreNat
<1> QED BY <1>3, <1>4, <1>5, <1>6, <1>7

\* Global goes only when all paths go.
LEMMA GlobalGoesLast ==
  ASSUME PathsOK(paths), NEW at \in Nat, StartsBy(paths, BucketStart(at)),
         PathsAddUp(paths, BucketStart(at)), Global \notin DOMAIN Visited(at)
  PROVE  DOMAIN Visited(at) = {}
<1> DEFINE s == BucketStart(at)
<1>1. s \in Buckets /\ 0 \in Ages /\ Span \in Ages
  BY DEF Buckets, Ages
<1> SUFFICES ASSUME NEW p \in DOMAIN Visited(at) PROVE FALSE
  OBVIOUS
<1>2. p \in Paths
  BY VisitedIs DEF PathsOK, AllPaths
<1>3. PICK i \in Slots : Counted(paths, p, i, s, 0) + Faded(Counted(paths, p, i, s, Span), at) > 0
  BY VisitedCountsSome
<1>4. Counted(paths, Global, i, s, 0) = 0 /\ Faded(Counted(paths, Global, i, s, Span), at) = 0
  BY VisitedCounts
<1>5. /\ Counted(paths, p, i, s, 0) <= Counted(paths, Global, i, s, 0)
      /\ Counted(paths, p, i, s, Span) <= Counted(paths, Global, i, s, Span)
  BY <1>1, <1>2, PathBelowGlobal
<1>6. /\ Counted(paths, p, i, s, 0) \in Nat /\ Counted(paths, Global, i, s, 0) \in Nat
      /\ Counted(paths, p, i, s, Span) \in Nat /\ Counted(paths, Global, i, s, Span) \in Nat
  BY <1>1, CountedIsNat
<1>7. /\ Faded(Counted(paths, p, i, s, Span), at) <= Faded(Counted(paths, Global, i, s, Span), at)
      /\ Faded(Counted(paths, p, i, s, Span), at) \in Nat
  BY <1>5, <1>6, FadedFacts
<1> QED BY <1>3, <1>4, <1>5, <1>6, <1>7

LEMMA VisitedAddsUp ==
  ASSUME PathsOK(paths), NEW at \in Nat, StartsBy(paths, BucketStart(at)),
         PathsAddUp(paths, BucketStart(at)),
         NEW b \in Buckets, BucketStart(at) <= b, PathsAddUp(paths, b), CodesAddUp(paths, b)
  PROVE  PathsAddUp(Visited(at), b) /\ CodesAddUp(Visited(at), b)
<1>1. PICK v : v = Visited(at)
  OBVIOUS
<1>2. PathsOK(v)
  BY <1>1, VisitedOK
<1>3. \A p : \A i \in Slots, ago \in Ages :
        Counted(v, p, i, b, ago) = IF p \in DOMAIN v THEN Counted(paths, p, i, b, ago) ELSE 0
  BY <1>1, VisitedCounts
<1>4. \A p, k : \A ago \in Ages :
        /\ CodeCounted(v, p, k, b, ago) <= CodeCounted(paths, p, k, b, ago)
        /\ p \notin DOMAIN v => CodeCounted(v, p, k, b, ago) = 0
  BY <1>1, VisitedCodes
<1>5. ASSUME NEW F \in FiniteIn(Paths), NEW i \in Slots, NEW ago \in Ages
      PROVE  PathsSum(v, F, i, b, ago) <= Counted(v, Global, i, b, ago)
  <2> DEFINE f == [p \in F |-> Counted(paths, p, i, b, ago)]
             g == [p \in F |-> Counted(v, p, i, b, ago)]
  <2>1. IsFiniteSet(F)
    BY DEF FiniteIn
  <2>2. PathsSum(v, F, i, b, ago) = Total(g, F) /\ PathsSum(paths, F, i, b, ago) = Total(f, F)
    BY DEF PathsSum
  <2>3. CASE Global \in DOMAIN v
    <3>1. \A p \in F : f[p] \in Nat /\ g[p] \in Nat /\ g[p] <= f[p]
      <4>1. ASSUME NEW p \in F PROVE Counted(paths, p, i, b, ago) \in Nat /\ Counted(v, p, i, b, ago) \in Nat
        BY <1>2, CountedIsNat
      <4> QED BY <1>3, <4>1
    <3> HIDE DEF f, g
    <3>2. Total(g, F) <= Total(f, F)
      BY <2>1, <3>1, TotalShrinks
    <3>3. PathsSum(paths, F, i, b, ago) <= Counted(paths, Global, i, b, ago)
      BY DEF PathsAddUp
    <3>4. Counted(v, Global, i, b, ago) = Counted(paths, Global, i, b, ago)
      BY <1>3, <2>3
    <3>5. /\ Counted(paths, Global, i, b, ago) \in Nat /\ PathsSum(paths, F, i, b, ago) \in Nat
          /\ PathsSum(v, F, i, b, ago) \in Nat
      BY <1>2, <2>1, CountedIsNat, SumsAreNat
    <3> QED BY <2>2, <3>2, <3>3, <3>4, <3>5
  <2>4. CASE Global \notin DOMAIN v
    <3>1. DOMAIN v = {}
      BY <1>1, <2>4, GlobalGoesLast
    <3>2. \A p \in F : g[p] = 0
      BY <1>3, <3>1
    <3> HIDE DEF g
    <3>3. Total(g, F) = 0
      BY <2>1, <3>2, TotalOfZeros
    <3>4. Counted(v, Global, i, b, ago) = 0
      BY <1>3, <2>4
    <3> QED BY <2>2, <3>3, <3>4
  <2> QED BY <2>3, <2>4
<1>6. ASSUME NEW p \in AllPaths, NEW F \in FiniteIn(Codes), NEW ago \in Ages
      PROVE  /\ CodesSum(v, p, F, b, ago) <= Counted(v, p, "requests", b, ago)
             /\ F \subseteq ErrorCodes => CodesSum(v, p, F, b, ago) <= Counted(v, p, "errors", b, ago)
  <2> DEFINE f == [k \in F |-> CodeCounted(paths, p, k, b, ago)]
             g == [k \in F |-> CodeCounted(v, p, k, b, ago)]
  <2>1. IsFiniteSet(F) /\ "requests" \in Slots /\ "errors" \in Slots
    BY SlotsAre DEF FiniteIn
  <2>2. CodesSum(v, p, F, b, ago) = Total(g, F) /\ CodesSum(paths, p, F, b, ago) = Total(f, F)
    BY DEF CodesSum
  <2>3. CASE p \in DOMAIN v
    <3>1. \A k \in F : f[k] \in Nat /\ g[k] \in Nat /\ g[k] <= f[k]
      <4>1. ASSUME NEW k \in F PROVE CodeCounted(paths, p, k, b, ago) \in Nat /\ CodeCounted(v, p, k, b, ago) \in Nat
        BY <1>2, <2>1, CountedIsNat
      <4> QED BY <1>4, <4>1
    <3> HIDE DEF f, g
    <3>2. Total(g, F) <= Total(f, F)
      BY <2>1, <3>1, TotalShrinks
    <3>3. /\ CodesSum(paths, p, F, b, ago) <= Counted(paths, p, "requests", b, ago)
          /\ F \subseteq ErrorCodes => CodesSum(paths, p, F, b, ago) <= Counted(paths, p, "errors", b, ago)
      BY DEF CodesAddUp
    <3>4. /\ Counted(v, p, "requests", b, ago) = Counted(paths, p, "requests", b, ago)
          /\ Counted(v, p, "errors", b, ago) = Counted(paths, p, "errors", b, ago)
      BY <1>3, <2>1, <2>3
    <3>5. /\ Counted(paths, p, "requests", b, ago) \in Nat /\ Counted(paths, p, "errors", b, ago) \in Nat
          /\ CodesSum(paths, p, F, b, ago) \in Nat /\ CodesSum(v, p, F, b, ago) \in Nat
      BY <1>2, <2>1, CountedIsNat, SumsAreNat
    <3> QED BY <2>2, <3>2, <3>3, <3>4, <3>5
  <2>4. CASE p \notin DOMAIN v
    <3>1. \A k \in F : g[k] = 0
      BY <1>4, <2>4
    <3> HIDE DEF g
    <3>2. Total(g, F) = 0
      BY <2>1, <3>1, TotalOfZeros
    <3>3. Counted(v, p, "requests", b, ago) = 0 /\ Counted(v, p, "errors", b, ago) = 0
      BY <1>3, <2>1, <2>4
    <3> QED BY <2>2, <3>2, <3>3
  <2> QED BY <2>3, <2>4
<1> QED BY <1>1, <1>5, <1>6 DEF PathsAddUp, CodesAddUp

\* What holds from the latest bucket on holds from a later one.
LEMMA StartsLater ==
  ASSUME NEW ps, PathsOK(ps), NEW a \in Buckets, NEW b \in Buckets, a <= b, StartsBy(ps, a)
  PROVE  StartsBy(ps, b)
<1>1. a \in Nat /\ b \in Nat
  BY BucketFacts
<1>2. \A p \in DOMAIN ps : ps[p].totals.start \in Nat /\ \A k \in DOMAIN ps[p].statuses : ps[p].statuses[k].start \in Nat
  BY BucketFacts DEF PathsOK, CounterType
<1> QED BY <1>1, <1>2 DEF StartsBy

LEMMA InTimeStep == HttpTypes /\ InTime /\ [Next]_vars => InTime'
<1> SUFFICES ASSUME HttpTypes, InTime, [Next]_vars, ~ overtaken'
             PROVE  /\ StartsBy(paths', BucketStart(latest'))
                    /\ \A b \in Buckets : BucketStart(latest') <= b => PathsAddUp(paths', b) /\ CodesAddUp(paths', b)
  BY DEF InTime
<1>1. CASE UNCHANGED <<paths, latest, overtaken>>
  BY <1>1 DEF InTime
<1>2. ASSUME NEW at \in Nat, Comes(at)
      PROVE  /\ BucketStart(latest') = BucketStart(at)
             /\ StartsBy(paths, BucketStart(at))
             /\ \A b \in Buckets : BucketStart(at) <= b => PathsAddUp(paths, b) /\ CodesAddUp(paths, b)
  <2>1. latest \in Nat /\ overtaken \in BOOLEAN
    BY DEF HttpTypes, CallsOK
  <2>2. ~ overtaken /\ BucketStart(latest) <= BucketStart(at) /\ BucketStart(latest') = BucketStart(at)
    BY <1>2, <2>1, ComesFacts
  <2>3. BucketStart(at) \in Buckets /\ BucketStart(latest) \in Buckets
    BY <2>1 DEF Buckets
  <2>4. StartsBy(paths, BucketStart(at))
    BY <2>2, <2>3, StartsLater DEF InTime, HttpTypes
  <2>5. ASSUME NEW b \in Buckets, BucketStart(at) <= b PROVE BucketStart(latest) <= b
    BY <2>2, <2>3, <2>5, BucketFacts
  <2> QED BY <2>2, <2>4, <2>5 DEF InTime
<1>3. ASSUME NEW c \in Calls, Observe(c)
      PROVE  /\ StartsBy(paths', BucketStart(latest'))
             /\ \A b \in Buckets : BucketStart(latest') <= b => PathsAddUp(paths', b) /\ CodesAddUp(paths', b)
  <2>1. PICK call \in Call :
          /\ Comes(call.at)
          /\ paths' = Observed(Observed(paths, Global, call), call.path, call)
          /\ PathsOK(Observed(paths, Global, call)) /\ PathsOK(paths')
    BY <1>3, ObserveIs
  <2>2. call.at \in Nat
    BY DEF Call
  <2>3. PICK new : new = paths'
    OBVIOUS
  <2>4. /\ new = Observed(Observed(paths, Global, call), call.path, call)
        /\ PathsOK(new) /\ PathsOK(paths) /\ PathsOK(Observed(paths, Global, call))
    BY <2>1, <2>3 DEF HttpTypes
  <2>5. StartsBy(new, BucketStart(call.at))
    BY <1>2, <2>1, <2>2, <2>4, RecordedCounts
  <2>6. ASSUME NEW b \in Buckets, BucketStart(call.at) <= b PROVE PathsAddUp(new, b) /\ CodesAddUp(new, b)
    <3>1. PathsAddUp(paths, b) /\ CodesAddUp(paths, b) /\ StartsBy(paths, BucketStart(call.at))
      BY <1>2, <2>1, <2>2, <2>6
    <3> QED BY <2>4, <2>6, <3>1, RecordedAddsUp
  <2> QED BY <1>2, <2>1, <2>2, <2>3, <2>5, <2>6
<1>4. ASSUME NEW r \in Readers, Answer(r)
      PROVE  /\ StartsBy(paths', BucketStart(latest'))
             /\ \A b \in Buckets : BucketStart(latest') <= b => PathsAddUp(paths', b) /\ CodesAddUp(paths', b)
  <2>1. PICK at \in asks[r] : UNCHANGED <<paths, latest, overtaken>> \/ (paths' = Visited(at) /\ Comes(at))
    BY <1>4 DEF Answer
  <2>2. at \in Nat /\ PathsOK(paths)
    BY DEF HttpTypes, AsksOK
  <2>3. CASE paths' = Visited(at) /\ Comes(at)
    <3>1. StartsBy(Visited(at), BucketStart(at))
      BY <2>2, VisitedStarts
    <3>2. ASSUME NEW b \in Buckets, BucketStart(at) <= b PROVE PathsAddUp(Visited(at), b) /\ CodesAddUp(Visited(at), b)
      <4>1. BucketStart(at) \in Buckets /\ BucketStart(at) \in Nat
        BY <2>2, BucketsApart DEF Buckets
      <4>2. /\ StartsBy(paths, BucketStart(at)) /\ PathsAddUp(paths, BucketStart(at))
            /\ PathsAddUp(paths, b) /\ CodesAddUp(paths, b)
        BY <1>2, <2>2, <2>3, <3>2, <4>1
      <4> QED BY <2>2, <3>2, <4>2, VisitedAddsUp
    <3> QED BY <1>2, <2>2, <2>3, <3>1, <3>2
  <2> QED BY <1>1, <2>1, <2>3
<1>5. Tick \/ (\E c \in Calls, path \in Paths, code \in Codes : Finish(c, path, code))
        \/ (\E r \in Readers : Ask(r)) \/ UNCHANGED vars => UNCHANGED <<paths, latest, overtaken>>
  BY DEF Tick, Ask, Finish, vars
<1> QED BY <1>1, <1>3, <1>4, <1>5 DEF Next

LEMMA InTimeInit == Init => InTime
<1> SUFFICES ASSUME Init PROVE InTime
  OBVIOUS
<1>1. DOMAIN paths = {}
  BY DEF Init, None
<1>2. \A p, i, b, ago : Counted(paths, p, i, b, ago) = 0
  BY <1>1 DEF Counted
<1>3. \A p, k, b, ago : CodeCounted(paths, p, k, b, ago) = 0
  BY <1>1 DEF CodeCounted
<1>4. ASSUME NEW F, IsFiniteSet(F), NEW p, NEW i, NEW b, NEW ago
      PROVE  PathsSum(paths, F, i, b, ago) = 0 /\ CodesSum(paths, p, F, b, ago) = 0
  <2>1. \A x \in F : [q \in F |-> Counted(paths, q, i, b, ago)][x] = 0
    BY <1>2
  <2>2. \A x \in F : [k \in F |-> CodeCounted(paths, p, k, b, ago)][x] = 0
    BY <1>3
  <2> QED BY <1>4, <2>1, <2>2, TotalOfZeros DEF PathsSum, CodesSum
<1>5. \A b \in Buckets : PathsAddUp(paths, b) /\ CodesAddUp(paths, b)
  BY <1>2, <1>4 DEF PathsAddUp, CodesAddUp, FiniteIn
<1> QED BY <1>1, <1>5 DEF InTime, StartsBy

\* A snapshot taken in time adds up.
LEMMA ShownAddsUp ==
  ASSUME PathsOK(paths), NEW at \in Nat, StartsBy(paths, BucketStart(at)),
         PathsAddUp(paths, BucketStart(at)), CodesAddUp(paths, BucketStart(at)),
         NEW snap, snap = [at |-> at, shown |-> Shown(at)]
  PROVE  SnapAddsUp(snap)
<1> DEFINE s == BucketStart(at)
           shown == snap.shown
<1>0. s \in Buckets /\ 0 \in Ages /\ Span \in Ages
  BY DEF Buckets, Ages
<1>1. shown = Shown(at) /\ DOMAIN shown = DOMAIN Visited(at) /\ DOMAIN Visited(at) \subseteq DOMAIN paths
  BY VisitedIs
<1> HIDE DEF shown
<1>2. DOMAIN shown \subseteq AllPaths /\ IsFiniteSet(DOMAIN shown)
  BY <1>1, FS_Subset DEF PathsOK
<1>3. ASSUME NEW p, NEW i \in Slots
      PROVE  /\ Counted(paths, p, i, s, 0) \in Nat /\ Counted(paths, p, i, s, Span) \in Nat
             /\ p \in DOMAIN shown => shown[p].totals[i] =
                  Counted(paths, p, i, s, 0) + Faded(Counted(paths, p, i, s, Span), at)
             /\ p \notin DOMAIN shown =>
                  Counted(paths, p, i, s, 0) + Faded(Counted(paths, p, i, s, Span), at) = 0
  <2>1. Counted(paths, p, i, s, 0) \in Nat /\ Counted(paths, p, i, s, Span) \in Nat
    BY <1>0, CountedIsNat
  <2> QED BY <1>1, <2>1, VisitedCounts
<1>4. ASSUME NEW i \in Slots
      PROVE  MapThenSumSet(LAMBDA p : shown[p].totals[i], DOMAIN shown \ {Global}) <= ShownOf(snap, Global, i)
  <2> DEFINE D == DOMAIN shown \ {Global}
             f == [p \in D |-> Counted(paths, p, i, s, 0)]
             g == [p \in D |-> Counted(paths, p, i, s, Span)]
             h == [p \in D |-> shown[p].totals[i]]
  <2>1. D \in FiniteIn(Paths) /\ IsFiniteSet(D) /\ D \subseteq DOMAIN shown
    BY <1>2, FS_Subset DEF FiniteIn, AllPaths
  <2>2. ASSUME NEW p \in D PROVE f[p] \in Nat /\ g[p] \in Nat /\ h[p] = f[p] + Faded(g[p], at)
    BY <1>3, <2>1
  <2>3. ASSUME NEW p \in D PROVE shown[p].totals[i] \in Nat
    <3>1. PICK m \in Nat, n \in Nat : m = Counted(paths, p, i, s, 0) /\ n = Counted(paths, p, i, s, Span)
      BY <1>3
    <3>2. shown[p].totals[i] = m + Faded(n, at) /\ Faded(n, at) \in Nat
      BY <1>3, <2>1, <3>1, FadedFacts
    <3> QED BY <3>1, <3>2
  <2> HIDE DEF D
  <2>4. MapThenSumSet(LAMBDA p : shown[p].totals[i], D) = Total(h, D)
    BY <2>1, <2>3, SumOfSlotIs
  <2> HIDE DEF f, g, h
  <2>5. Total(h, D) <= Total(f, D) + Faded(Total(g, D), at)
    BY <2>1, <2>2, WindowOfTotal
  <2>6. Total(f, D) = PathsSum(paths, D, i, s, 0) /\ Total(g, D) = PathsSum(paths, D, i, s, Span)
    BY DEF PathsSum, f, g
  <2>7. PICK m \in Nat, n \in Nat : m = Counted(paths, Global, i, s, 0) /\ n = Counted(paths, Global, i, s, Span)
    BY <1>3
  <2>8. PICK x \in Nat, y \in Nat : x = Total(f, D) /\ y = Total(g, D)
    BY <1>0, <2>1, <2>6, SumsAreNat
  <2>9. x <= m /\ y <= n
    BY <1>0, <2>1, <2>6, <2>7, <2>8 DEF PathsAddUp
  <2>10. Faded(y, at) <= Faded(n, at) /\ Faded(y, at) \in Nat /\ Faded(n, at) \in Nat
    BY <2>9, FadedFacts
  <2>11. Total(h, D) \in Nat
    <3>1. \A p \in D : h[p] \in Nat
      BY <2>3 DEF h
    <3> QED BY <2>1, <3>1, TotalSplits
  <2>12. ShownOf(snap, Global, i) = m + Faded(n, at)
    BY <1>3, <2>7 DEF ShownOf, shown
  <2>13. Total(h, D) <= ShownOf(snap, Global, i)
    BY <2>5, <2>8, <2>9, <2>10, <2>11, <2>12
  <2> QED BY <2>4, <2>13 DEF D
<1>5. ASSUME NEW p \in DOMAIN shown, NEW K \in SUBSET Codes
      PROVE  LET sum == MapThenSumSet(LAMBDA k : shown[p].codes[k], DOMAIN shown[p].codes \cap K)
             IN  /\ sum <= shown[p].totals["requests"]
                 /\ K \subseteq ErrorCodes => sum <= shown[p].totals["errors"]
  <2> DEFINE c == shown[p].codes
             D == DOMAIN c \cap K
             f == [k \in D |-> CodeCounted(paths, p, k, s, 0)]
             g == [k \in D |-> CodeCounted(paths, p, k, s, Span)]
  <2>1. DOMAIN c \subseteq DOMAIN paths[p].statuses /\ p \in DOMAIN paths
    <3>1. p \in DOMAIN Visited(at)
      BY <1>1
    <3>2. p \in DOMAIN paths /\ DOMAIN Visited(at)[p].statuses \subseteq DOMAIN paths[p].statuses
      BY <3>1, VisitedIs
    <3>3. DOMAIN Shown(at)[p].codes = DOMAIN Visited(at)[p].statuses
      BY <3>1 DEF Shown
    <3> QED BY <1>1, <3>2, <3>3
  <2>2. D \in FiniteIn(Codes) /\ IsFiniteSet(D) /\ D \subseteq K
    <3>1. IsFiniteSet(DOMAIN paths[p].statuses)
      BY <2>1 DEF PathsOK
    <3> QED BY <2>1, <3>1, FS_Subset DEF FiniteIn
  <2>3. ASSUME NEW k \in D PROVE f[k] \in Nat /\ g[k] \in Nat /\ c[k] = f[k] + Faded(g[k], at)
    <3>1. CodeCounted(paths, p, k, s, 0) \in Nat /\ CodeCounted(paths, p, k, s, Span) \in Nat
      BY <1>0, CountedIsNat, SlotsAre
    <3>2. k \in DOMAIN Shown(at)[p].codes /\ p \in DOMAIN Visited(at)
      BY <1>1
    <3>3. Shown(at)[p].codes[k] = CodeCounted(paths, p, k, s, 0) + Faded(CodeCounted(paths, p, k, s, Span), at)
      BY <3>2, VisitedCodes
    <3> QED BY <1>1, <3>1, <3>3
  <2>4. ASSUME NEW k \in D PROVE c[k] \in Nat
    <3>1. PICK m \in Nat, n \in Nat : m = f[k] /\ n = g[k]
      BY <2>3
    <3>2. c[k] = m + Faded(n, at) /\ Faded(n, at) \in Nat
      BY <2>3, <3>1, FadedFacts
    <3> QED BY <3>1, <3>2
  <2> HIDE DEF D, c
  <2>5. MapThenSumSet(LAMBDA k : c[k], D) = Total(c, D)
    BY <2>2, <2>4, SumIs
  <2> HIDE DEF f, g
  <2>6. Total(c, D) <= Total(f, D) + Faded(Total(g, D), at)
    BY <2>2, <2>3, WindowOfTotal
  <2>7. Total(f, D) = CodesSum(paths, p, D, s, 0) /\ Total(g, D) = CodesSum(paths, p, D, s, Span)
    BY DEF CodesSum, f, g
  <2>8. PICK x \in Nat, y \in Nat : x = Total(f, D) /\ y = Total(g, D)
    BY <1>0, <2>2, <2>7, SumsAreNat, SlotsAre
  <2>9. Total(c, D) \in Nat
    BY <2>2, <2>4, TotalSplits
  <2>10. ASSUME NEW i \in {"requests", "errors"}, i = "errors" => K \subseteq ErrorCodes
         PROVE  Total(c, D) <= shown[p].totals[i]
    <3>1. i \in Slots
      BY SlotsAre
    <3>2. PICK m \in Nat, n \in Nat : m = Counted(paths, p, i, s, 0) /\ n = Counted(paths, p, i, s, Span)
      BY <1>3, <3>1
    <3>3. x <= m /\ y <= n
      <4>1. p \in AllPaths /\ (i = "errors" => D \subseteq ErrorCodes)
        BY <1>2, <2>2, <2>10
      <4> QED BY <1>0, <2>2, <2>7, <2>8, <3>2, <4>1 DEF CodesAddUp
    <3>4. Faded(y, at) <= Faded(n, at) /\ Faded(y, at) \in Nat /\ Faded(n, at) \in Nat
      BY <3>3, FadedFacts
    <3>5. shown[p].totals[i] = m + Faded(n, at)
      BY <1>3, <3>1, <3>2
    <3> QED BY <2>6, <2>8, <2>9, <3>3, <3>4, <3>5
  <2>11. /\ Total(c, D) <= shown[p].totals["requests"]
         /\ K \subseteq ErrorCodes => Total(c, D) <= shown[p].totals["errors"]
    BY <2>10
  <2> QED BY <2>5, <2>11 DEF D, c
<1>6. ErrorCodes \in SUBSET Codes /\ Codes \in SUBSET Codes /\ ErrorCodes \subseteq ErrorCodes
  BY HttpAssumption
<1>7. ASSUME NEW p \in DOMAIN shown
      PROVE  /\ MapThenSumSet(LAMBDA k : shown[p].codes[k], DOMAIN shown[p].codes \cap Codes) <= shown[p].totals["requests"]
             /\ MapThenSumSet(LAMBDA k : shown[p].codes[k], DOMAIN shown[p].codes \cap ErrorCodes) <= shown[p].totals["errors"]
  BY <1>5, <1>6
<1> QED BY <1>4, <1>7 DEF SnapAddsUp, shown

CoherentInv == HttpTypes /\ InTime /\ Coherent

LEMMA CoherentStep == CoherentInv /\ [Next]_vars => Coherent'
<1> SUFFICES ASSUME CoherentInv, [Next]_vars PROVE Coherent'
  OBVIOUS
<1>1. CASE cache' = cache /\ (overtaken => overtaken')
  <2>1. ~ overtaken' => ~ overtaken
    BY <1>1
  <2> QED BY <1>1, <2>1 DEF CoherentInv, Coherent
<1>2. ASSUME NEW c \in Calls, Observe(c) PROVE Coherent'
  <2>1. PICK call \in Call : Comes(call.at) /\ UNCHANGED <<now, asks, cache>>
    BY <1>2, ObserveIs DEF CoherentInv
  <2>2. overtaken => overtaken'
    BY <2>1, ComesFacts DEF CoherentInv, HttpTypes, CallsOK, Call
  <2> QED BY <1>1, <2>1, <2>2
<1>3. ASSUME NEW r \in Readers, Answer(r) PROVE Coherent'
  <2>1. PICK at \in asks[r] :
          IF Kept(at) # {}
          THEN UNCHANGED <<paths, cache, latest, overtaken>>
          ELSE /\ cache' = {[at |-> at, shown |-> Shown(at)]}
               /\ Comes(at)
    BY <1>3 DEF Answer
  <2>2. at \in Nat /\ latest \in Nat /\ overtaken \in BOOLEAN /\ PathsOK(paths)
    BY DEF CoherentInv, HttpTypes, AsksOK, CallsOK
  <2>3. CASE Kept(at) = {}
    <3>1. PICK snap : snap = [at |-> at, shown |-> Shown(at)]
      OBVIOUS
    <3>2. cache' = {snap}
      BY <2>1, <2>3, <3>1
    <3>3. ASSUME ~ overtaken' PROVE SnapAddsUp(snap)
      <4>1. ~ overtaken /\ BucketStart(latest) <= BucketStart(at)
        BY <2>1, <2>2, <2>3, <3>3, ComesFacts
      <4>2. BucketStart(at) \in Buckets /\ BucketStart(latest) \in Buckets
        BY <2>2 DEF Buckets
      <4>3. StartsBy(paths, BucketStart(at))
        BY <2>2, <4>1, <4>2, StartsLater DEF CoherentInv, InTime
      <4>4. PathsAddUp(paths, BucketStart(at)) /\ CodesAddUp(paths, BucketStart(at))
        BY <4>1, <4>2 DEF CoherentInv, InTime
      <4> QED BY <2>2, <3>1, <4>3, <4>4, ShownAddsUp
    <3>4. ~ overtaken' => \A t \in cache' : SnapAddsUp(t)
      BY <3>2, <3>3
    <3> QED BY <3>4 DEF Coherent
  <2>4. CASE Kept(at) # {}
    BY <1>1, <2>1, <2>4
  <2> QED BY <2>3, <2>4
<1>4. Tick \/ (\E c \in Calls, path \in Paths, code \in Codes : Finish(c, path, code))
        \/ (\E r \in Readers : Ask(r)) \/ UNCHANGED vars => cache' = cache /\ (overtaken => overtaken')
  BY DEF Tick, Ask, Finish, vars
<1> QED BY <1>1, <1>2, <1>3, <1>4 DEF Next

LEMMA CoherentInvariant == Spec => []CoherentInv
<1>1. Init => Coherent
  BY DEF Init, Coherent
<1>2. CoherentInv /\ [Next]_vars => CoherentInv'
  BY HttpTypesStep, InTimeStep, CoherentStep DEF CoherentInv
<1> QED BY <1>1, <1>2, HttpTypesInit, InTimeInit, PTL DEF Spec, CoherentInv

\* HttpMetrics.SnapshotIsRight: for any window, any interval of refreshing and any
\* requests and readers, a snapshot taken in time adds up, whatever paths and codes
\* were dropped before; and no path is kept without a request of the window
\* (Snapshot, http.go:234).
THEOREM SnapshotsAlwaysRight == Spec => []SnapshotIsRight
<1>1. HttpTypes => TypeOK
  <2> SUFFICES ASSUME HttpTypes PROVE TypeOK
    OBVIOUS
  <2>1. ASSUME NEW slots, NEW c \in CounterType(slots) PROVE CounterOK(c, slots)
    <3>1. c.start \in Buckets
      BY DEF CounterType
    <3>2. c.start \in Nat
      BY <3>1, BucketFacts
    <3> QED BY <3>2 DEF CounterType, CounterOK
  <2>2. \A p \in DOMAIN paths :
          /\ CounterOK(paths[p].totals, Slots)
          /\ DOMAIN paths[p].statuses \subseteq Codes
          /\ \A k \in DOMAIN paths[p].statuses : CounterOK(paths[p].statuses[k], {"requests"})
    BY <2>1 DEF HttpTypes, PathsOK
  <2>3. \A c \in Calls : calls[c] \subseteq Call
    BY DEF HttpTypes, CallsOK
  <2> QED BY <2>2, <2>3 DEF HttpTypes, CallsOK, AsksOK, CacheOK, PathsOK, AllPaths, TypeOK
<1>2. ActiveInv => OnlyActivePaths
  BY DEF ActiveInv, OnlyActivePaths, IsActive
<1>3. CoherentInv => TypeOK /\ Coherent
  BY <1>1 DEF CoherentInv
<1> QED BY <1>2, <1>3, ActiveInvariant, CoherentInvariant, PTL DEF SnapshotIsRight

-----------------------------------------------------------------------------
(* Answers are exact.                                                       *)

Counting == {"requests", "errors"}

LEMMA CountingSlots ==
  ASSUME NEW i \in Counting
  PROVE  i \in Slots /\ CodesOf(i) \subseteq Codes
BY SlotsAre, HttpAssumption DEF Counting, CodesOf

\* The requests recorded by some time, and the window they make.
RecordingsBy(cs, path, codes, b, until) ==
  {c \in Calls : \E call \in cs[c] :
     /\ call.recorded /\ call.recordedAt <= until
     /\ path \in {Global, call.path} /\ call.code \in codes
     /\ BucketStart(call.at) = b}

TallyBy(cs, path, codes, b, until) == Cardinality(RecordingsBy(cs, path, codes, b, until))

WindowBy(cs, path, codes, at, until) ==
  TallyBy(cs, path, codes, BucketStart(at), until)
    + Faded(TallyBy(cs, path, codes, BucketStart(at) - Span, until), at)

WindowOfAll(cs, path, codes, at) ==
  Tally(cs, path, codes, BucketStart(at)) + Faded(Tally(cs, path, codes, BucketStart(at) - Span), at)

LEMMA EstimateIs ==
  ASSUME NEW path, NEW codes, NEW at, NEW until
  PROVE  Estimate(path, codes, at, until) = WindowBy(calls, path, codes, at, until)
BY DEF Estimate, Recorded, WindowBy, TallyBy, RecordingsBy

LEMMA WindowGrows ==
  ASSUME NEW at \in Nat, NEW m \in Nat, NEW n \in Nat, NEW x \in Nat, NEW y \in Nat, m <= x, n <= y
  PROVE  m + Faded(n, at) \in Nat /\ m + Faded(n, at) <= x + Faded(y, at)
<1>1. Faded(n, at) \in Nat /\ Faded(y, at) \in Nat /\ Faded(n, at) <= Faded(y, at)
  BY FadedFacts
<1> QED BY <1>1

LEMMA TallyByFacts ==
  ASSUME NEW cs, NEW path, NEW codes, NEW b, NEW until
  PROVE  /\ TallyBy(cs, path, codes, b, until) \in Nat
         /\ TallyBy(cs, path, codes, b, until) <= Tally(cs, path, codes, b)
         /\ IsFiniteSet(RecordingsBy(cs, path, codes, b, until))
<1>1. RecordingsBy(cs, path, codes, b, until) \subseteq Recordings(cs, path, codes, b)
  BY DEF RecordingsBy, Recordings
<1>2. IsFiniteSet(Recordings(cs, path, codes, b)) /\ IsFiniteSet(RecordingsBy(cs, path, codes, b, until))
  BY <1>1, TallyFacts, FS_Subset
<1>3. Cardinality(RecordingsBy(cs, path, codes, b, until)) <= Cardinality(Recordings(cs, path, codes, b))
  BY <1>1, <1>2, FS_Subset
<1> QED BY <1>2, <1>3, FS_CardinalityType DEF TallyBy, Tally

LEMMA WindowByBelowAll ==
  ASSUME NEW cs, NEW path, NEW codes, NEW at \in Nat, NEW until
  PROVE  /\ WindowBy(cs, path, codes, at, until) \in Nat
         /\ WindowBy(cs, path, codes, at, until) <= WindowOfAll(cs, path, codes, at)
<1>1. PICK m \in Nat, n \in Nat :
        /\ m = TallyBy(cs, path, codes, BucketStart(at), until)
        /\ n = TallyBy(cs, path, codes, BucketStart(at) - Span, until)
  BY TallyByFacts
<1>2. PICK x \in Nat, y \in Nat :
        /\ x = Tally(cs, path, codes, BucketStart(at))
        /\ y = Tally(cs, path, codes, BucketStart(at) - Span)
  BY TallyFacts
<1>3. m <= x /\ n <= y
  BY <1>1, <1>2, TallyByFacts
<1>4. m + Faded(n, at) \in Nat /\ m + Faded(n, at) <= x + Faded(y, at)
  BY <1>3, WindowGrows
<1> QED BY <1>1, <1>2, <1>4 DEF WindowBy, WindowOfAll

\* What was recorded by one time was recorded by a later one.
LEMMA WindowByGrows ==
  ASSUME NEW cs, NEW more, NEW path, NEW codes, NEW at \in Nat, NEW s, NEW t,
         \A b : RecordingsBy(cs, path, codes, b, s) \subseteq RecordingsBy(more, path, codes, b, t)
  PROVE  WindowBy(cs, path, codes, at, s) <= WindowBy(more, path, codes, at, t)
<1>1. ASSUME NEW b
      PROVE  TallyBy(cs, path, codes, b, s) <= TallyBy(more, path, codes, b, t)
  <2>1. RecordingsBy(cs, path, codes, b, s) \subseteq RecordingsBy(more, path, codes, b, t)
    OBVIOUS
  <2>2. IsFiniteSet(RecordingsBy(more, path, codes, b, t))
    BY TallyByFacts
  <2> QED BY <2>1, <2>2, FS_Subset DEF TallyBy
<1>2. PICK m \in Nat, n \in Nat :
        /\ m = TallyBy(cs, path, codes, BucketStart(at), s)
        /\ n = TallyBy(cs, path, codes, BucketStart(at) - Span, s)
  BY TallyByFacts
<1>3. PICK x \in Nat, y \in Nat :
        /\ x = TallyBy(more, path, codes, BucketStart(at), t)
        /\ y = TallyBy(more, path, codes, BucketStart(at) - Span, t)
  BY TallyByFacts
<1>4. m <= x /\ n <= y
  BY <1>1, <1>2, <1>3
<1>5. m + Faded(n, at) <= x + Faded(y, at)
  BY <1>4, WindowGrows
<1> QED BY <1>2, <1>3, <1>5 DEF WindowBy

\* The snapshot kept tells of nothing that was not recorded.
AtMost(snap, cs) ==
  \A p \in AllPaths, i \in Counting : ShownOf(snap, p, i) \in 0..WindowOfAll(cs, p, CodesOf(i), snap.at)

\* It tells of all that was recorded before it was taken.
AtLeast(snap, cs) ==
  \A p \in AllPaths, i \in Counting :
    WindowBy(cs, p, CodesOf(i), snap.at, snap.at - 1) <= ShownOf(snap, p, i)

\* Seen from the latest bucket or a later one, all requests are counted, but for
\* those of which a snapshot, when it took their path away, found nothing left.
FoundFaded(n, b, snaps) == \E snap \in snaps : BucketStart(snap.at) = b /\ Faded(n, snap.at) = 0

ExactAt(ps, cs, snaps, p, i, b, ago) ==
  \/ Counted(ps, p, i, b, ago) = Tally(cs, p, CodesOf(i), b - ago)
  \/ /\ ago = Span /\ Counted(ps, p, i, b, ago) = 0
     /\ FoundFaded(Tally(cs, p, CodesOf(i), b - ago), b, snaps)

ExactFrom(ps, cs, snaps, from) ==
  \A p \in AllPaths, i \in Counting, b \in Buckets, ago \in Ages :
    from <= b => ExactAt(ps, cs, snaps, p, i, b, ago)

Exact ==
  ~ overtaken /\ Refresh > 0 =>
    /\ ExactFrom(paths, calls, cache, BucketStart(latest))
    /\ \A snap \in cache : AtLeast(snap, calls)

NoneTooMany == \A snap \in cache : AtMost(snap, calls)

\* What is recorded grows.
LEMMA AtMostStays ==
  ASSUME NEW cs, NEW more, NEW snap, snap.at \in Nat, AtMost(snap, cs),
         \A p, codes, b : Tally(cs, p, codes, b) <= Tally(more, p, codes, b)
  PROVE  AtMost(snap, more)
<1> SUFFICES ASSUME NEW p \in AllPaths, NEW i \in Counting
             PROVE  ShownOf(snap, p, i) \in 0..WindowOfAll(more, p, CodesOf(i), snap.at)
  BY DEF AtMost
<1>1. PICK at \in Nat : at = snap.at
  OBVIOUS
<1>2. PICK m \in Nat, n \in Nat :
        m = Tally(cs, p, CodesOf(i), BucketStart(at)) /\ n = Tally(cs, p, CodesOf(i), BucketStart(at) - Span)
  BY TallyFacts
<1>3. PICK x \in Nat, y \in Nat :
        x = Tally(more, p, CodesOf(i), BucketStart(at)) /\ y = Tally(more, p, CodesOf(i), BucketStart(at) - Span)
  BY TallyFacts
<1>4. m <= x /\ n <= y
  BY <1>2, <1>3
<1>5. m + Faded(n, at) \in Nat /\ x + Faded(y, at) \in Nat /\ m + Faded(n, at) <= x + Faded(y, at)
  <2>1. Faded(n, at) \in Nat /\ Faded(y, at) \in Nat
    BY FadedFacts
  <2>2. m + Faded(n, at) <= x + Faded(y, at)
    BY <1>4, WindowGrows
  <2> QED BY <2>1, <2>2
<1>6. ShownOf(snap, p, i) <= m + Faded(n, at) /\ ShownOf(snap, p, i) \in Nat
  BY <1>1, <1>2 DEF AtMost, WindowOfAll
<1> QED BY <1>1, <1>3, <1>5, <1>6 DEF WindowOfAll

\* What a snapshot tells of a path when it is taken: its window.
LEMMA ShownIs ==
  ASSUME PathsOK(paths), NEW at \in Nat, NEW p, NEW i \in Slots,
         NEW snap, snap = [at |-> at, shown |-> Shown(at)]
  PROVE  /\ ShownOf(snap, p, i) \in Nat
         /\ p \in DOMAIN Visited(at) =>
              /\ p \in DOMAIN paths /\ paths[p].totals.start <= BucketStart(at)
              /\ ShownOf(snap, p, i) =
                   Counted(paths, p, i, BucketStart(at), 0) + Faded(Counted(paths, p, i, BucketStart(at), Span), at)
         /\ p \notin DOMAIN Visited(at) => ShownOf(snap, p, i) = 0
<1>1. DOMAIN Shown(at) = DOMAIN Visited(at)
  BY VisitedIs
<1>2. CASE p \notin DOMAIN Visited(at)
  BY <1>1, <1>2 DEF ShownOf
<1>3. CASE p \in DOMAIN Visited(at)
  <2> DEFINE c == paths[p].totals
  <2>1. p \in DOMAIN paths /\ ~ Idle(c, at) /\ Shown(at)[p].totals = WindowValue(Rotated(c, at), at)
    BY <1>3, VisitedIs
  <2>2. c \in CounterType(Slots)
    BY <2>1 DEF PathsOK
  <2>3. /\ c.start <= BucketStart(at)
        /\ WindowValue(Rotated(c, at), at)[i] =
             CountOf(c, i, BucketStart(at), 0) + Faded(CountOf(c, i, BucketStart(at), Span), at)
    BY <2>1, <2>2, ActiveFacts
  <2>4. Rotated(c, at) \in CounterType(Slots)
    BY <2>2, RotatedFacts
  <2>5. WindowValue(Rotated(c, at), at)[i] \in Nat
    BY <2>4, WindowIs
  <2>6. ShownOf(snap, p, i) = WindowValue(Rotated(c, at), at)[i]
    BY <1>1, <1>3, <2>1 DEF ShownOf
  <2> QED BY <1>3, <2>1, <2>3, <2>5, <2>6 DEF Counted
<1> QED BY <1>2, <1>3

LEMMA TakenAtMost ==
  ASSUME SoundInv, NEW at \in Nat, NEW snap, snap = [at |-> at, shown |-> Shown(at)]
  PROVE  AtMost(snap, calls)
<1> SUFFICES ASSUME NEW p \in AllPaths, NEW i \in Counting
             PROVE  ShownOf(snap, p, i) \in 0..WindowOfAll(calls, p, CodesOf(i), at)
  BY DEF AtMost
<1>1. PathsOK(paths) /\ i \in Slots
  BY CountingSlots DEF SoundInv, HttpTypes
<1>2. PICK x \in Nat, y \in Nat :
        x = Tally(calls, p, CodesOf(i), BucketStart(at)) /\ y = Tally(calls, p, CodesOf(i), BucketStart(at) - Span)
  BY TallyFacts
<1>3. CASE p \notin DOMAIN Visited(at)
  <2>1. ShownOf(snap, p, i) = 0
    BY <1>1, <1>3, ShownIs
  <2>2. Faded(y, at) \in Nat
    BY FadedFacts
  <2>3. x + Faded(y, at) \in Nat
    BY <2>2
  <2> QED BY <1>2, <2>1, <2>3 DEF WindowOfAll
<1>4. CASE p \in DOMAIN Visited(at)
  <2>1. BucketStart(at) \in Buckets /\ 0 \in Ages /\ Span \in Ages /\ BucketStart(at) \in Nat
    BY BucketsApart DEF Buckets, Ages
  <2>2. p \in DOMAIN paths /\ paths[p].totals.start <= BucketStart(at)
    BY <1>1, <1>4, ShownIs
  <2>3. PICK m \in Nat, n \in Nat :
          m = Counted(paths, p, i, BucketStart(at), 0) /\ n = Counted(paths, p, i, BucketStart(at), Span)
    BY <1>1, <2>1, CountedIsNat
  <2>4. SoundAt(paths, calls, p, BucketStart(at), 0) /\ SoundAt(paths, calls, p, BucketStart(at), Span)
    BY <2>1, <2>2 DEF SoundInv, SoundPaths, Sound
  <2>5. BucketStart(at) - 0 = BucketStart(at)
    BY <2>1
  <2>6. m <= x /\ n <= y
    BY <1>2, <2>3, <2>4, <2>5 DEF SoundAt, Counting, CodesOf
  <2>7. m + Faded(n, at) \in 0..(x + Faded(y, at))
    <3>1. Faded(y, at) \in Nat
      BY FadedFacts
    <3>2. m + Faded(n, at) \in Nat /\ m + Faded(n, at) <= x + Faded(y, at)
      BY <2>6, WindowGrows
    <3> QED BY <3>1, <3>2
  <2>8. ShownOf(snap, p, i) = m + Faded(n, at)
    BY <1>1, <1>4, <2>3, ShownIs
  <2> QED BY <1>2, <2>7, <2>8 DEF WindowOfAll
<1> QED BY <1>3, <1>4

\* In time, a snapshot is exact when it is taken.
LEMMA TakenIsExact ==
  ASSUME PathsOK(paths), NEW at \in Nat, StartsBy(paths, BucketStart(at)),
         ExactFrom(paths, calls, cache, BucketStart(at)),
         \A kept \in cache : kept.at \in Nat /\ kept.at <= at,
         NEW snap, snap = [at |-> at, shown |-> Shown(at)],
         NEW p \in AllPaths, NEW i \in Counting
  PROVE  ShownOf(snap, p, i) = WindowOfAll(calls, p, CodesOf(i), at)
<1> DEFINE s == BucketStart(at)
<1>1. s \in Buckets /\ s \in Nat /\ 0 \in Ages /\ Span \in Ages /\ Span > 0 /\ Span \in Nat /\ i \in Slots
  BY BucketsApart, CountingSlots, SpanAssumption DEF Buckets, Ages
<1> HIDE DEF s
<1>2. PICK m \in Nat, n \in Nat : m = Counted(paths, p, i, s, 0) /\ n = Counted(paths, p, i, s, Span)
  BY <1>1, CountedIsNat
<1>3. PICK x \in Nat, y \in Nat : x = Tally(calls, p, CodesOf(i), s) /\ y = Tally(calls, p, CodesOf(i), s - Span)
  BY TallyFacts
<1>4. ShownOf(snap, p, i) = m + Faded(n, at)
  <2>1. p \notin DOMAIN Visited(at) => m = 0 /\ Faded(n, at) = 0
    BY <1>1, <1>2, VisitedCounts DEF s
  <2>2. p \in DOMAIN Visited(at) => ShownOf(snap, p, i) = m + Faded(n, at)
    BY <1>1, <1>2, ShownIs DEF s
  <2>3. p \notin DOMAIN Visited(at) => ShownOf(snap, p, i) = 0
    BY <1>1, ShownIs
  <2> QED BY <2>1, <2>2, <2>3
<1>5. ExactAt(paths, calls, cache, p, i, s, 0) /\ ExactAt(paths, calls, cache, p, i, s, Span)
  BY <1>1 DEF ExactFrom, s
<1>6. m = x
  <2>1. s - 0 = s
    BY <1>1
  <2> QED BY <1>1, <1>2, <1>3, <1>5, <2>1 DEF ExactAt
<1>7. Faded(n, at) = Faded(y, at)
  <2>1. n = y \/ (n = 0 /\ FoundFaded(y, s, cache))
    BY <1>2, <1>3, <1>5 DEF ExactAt
  <2>2. ASSUME n = 0, FoundFaded(y, s, cache) PROVE Faded(n, at) = Faded(y, at)
    <3>1. PICK kept \in cache : BucketStart(kept.at) = s /\ Faded(y, kept.at) = 0
      BY <2>2 DEF FoundFaded
    <3>2. kept.at \in Nat /\ kept.at <= at /\ BucketStart(kept.at) = BucketStart(at)
      BY <3>1 DEF s
    <3>3. Faded(y, at) <= 0
      BY <3>1, <3>2, FadesOn
    <3>4. Faded(y, at) \in Nat /\ Faded(0, at) = 0
      BY FadedFacts
    <3> QED BY <2>2, <3>3, <3>4
  <2> QED BY <2>1, <2>2
<1> QED BY <1>3, <1>4, <1>6, <1>7 DEF WindowOfAll, s

\* A counter seen from a later bucket.
LEMMA CountedLater ==
  ASSUME NEW ps, PathsOK(ps), NEW s \in Buckets, StartsBy(ps, s), NEW b \in Buckets, s < b,
         NEW p, NEW i \in Slots, NEW ago \in Ages
  PROVE  Counted(ps, p, i, b, ago) \in {0, Counted(ps, p, i, s, 0)}
<1>1. CASE p \notin DOMAIN ps
  BY <1>1 DEF Counted
<1>2. CASE p \in DOMAIN ps
  <2> DEFINE c == ps[p].totals
  <2>1. c \in CounterType(Slots) /\ c.start <= s
    BY <1>2 DEF PathsOK, StartsBy
  <2>2. c.start \in Buckets
    BY <2>1 DEF CounterType
  <2> HIDE DEF c
  <2>3. b \in Nat /\ s \in Nat /\ c.start \in Nat /\ Span \in Nat /\ Span > 0
    BY <2>2, BucketFacts
  <2>4. s + Span <= b /\ (c.start < s => c.start + Span <= s)
    BY <2>2, BucketFacts
  <2>5. c.start # b /\ (c.start + Span = b => c.start = s)
    BY <2>1, <2>3, <2>4
  <2>6. CurrOf(c, i, b) = 0 /\ (c.start = s => PrevOf(c, i, b) \in {0, c.curr[i]})
    BY <2>5 DEF CurrOf, PrevOf
  <2>7. c.start # s => PrevOf(c, i, b) = 0
    BY <2>5 DEF PrevOf
  <2>8. c.start = s => CurrOf(c, i, s) = c.curr[i]
    BY DEF CurrOf
  <2>9. CountOf(c, i, s, 0) = CurrOf(c, i, s) /\ CountOf(c, i, b, ago) \in {CurrOf(c, i, b), PrevOf(c, i, b)}
    BY DEF CountOf
  <2> QED BY <1>2, <2>6, <2>7, <2>8, <2>9 DEF Counted, c
<1> QED BY <1>1, <1>2

\* What a request adds to a slot, it adds to the tally of its codes.
LEMMA ObservationCounts ==
  ASSUME NEW call \in Call, NEW i \in Counting, NEW p, NEW b
  PROVE  (IF p \in {Global, call.path} /\ b = BucketStart(call.at) THEN Observation(call)[i] ELSE 0)
           = IF Matches(call, p, CodesOf(i), b) THEN 1 ELSE 0
<1>1. call.code \in Codes
  BY DEF Call
<1>2. Observation(call)[i] = IF call.code \in CodesOf(i) THEN 1 ELSE 0
  BY <1>1, ObservationType DEF Counting, CodesOf
<1> QED BY <1>2 DEF Matches

LEMMA ExactRecorded ==
  ASSUME HttpTypes, ~ overtaken, InTime, NEW c \in Calls, NEW call \in Call,
         RecordedIn(calls, c, call, calls'),
         paths' = Observed(Observed(paths, Global, call), call.path, call),
         PathsOK(Observed(paths, Global, call)),
         BucketStart(latest) <= BucketStart(call.at),
         ExactFrom(paths, calls, cache, BucketStart(latest))
  PROVE  ExactFrom(paths', calls', cache, BucketStart(call.at))
<1>1. PICK new, told : new = paths' /\ told = calls'
  OBVIOUS
<1> SUFFICES ASSUME NEW p \in AllPaths, NEW i \in Counting, NEW b \in Buckets, NEW ago \in Ages,
                    BucketStart(call.at) <= b
             PROVE  ExactAt(new, told, cache, p, i, b, ago)
  BY <1>1 DEF ExactFrom
<1>2. /\ PathsOK(paths) /\ calls \in [Calls -> SUBSET Call] /\ latest \in Nat /\ i \in Slots
      /\ call.at \in Nat /\ BucketStart(call.at) \in Buckets /\ BucketStart(latest) \in Buckets
      /\ BucketStart(call.at) \in Nat /\ BucketStart(latest) \in Nat /\ b \in Nat
  BY CountingSlots, BucketsApart, BucketFacts DEF HttpTypes, CallsOK, Call, Buckets
<1>3. StartsBy(paths, BucketStart(call.at))
  BY <1>2, StartsLater DEF InTime
<1>4. PICK more \in {0, 1} : more = IF Matches(call, p, CodesOf(i), b - ago) THEN 1 ELSE 0
  OBVIOUS
<1>5. Counted(new, p, i, b, ago) = Counted(paths, p, i, b, ago) + more
  <2>1. Counted(new, p, i, b, ago) =
          Counted(paths, p, i, b, ago)
            + (IF p \in {Global, call.path} /\ b - ago = BucketStart(call.at) THEN Observation(call)[i] ELSE 0)
    BY <1>1, <1>2, <1>3, RecordedCounts
  <2> QED BY <1>4, <2>1, ObservationCounts
<1>6. Tally(told, p, CodesOf(i), b - ago) = Tally(calls, p, CodesOf(i), b - ago) + more
  BY <1>1, <1>2, <1>4, TallyGrows
<1>7. ExactAt(paths, calls, cache, p, i, b, ago)
  BY <1>2 DEF ExactFrom
<1>8. CASE Counted(paths, p, i, b, ago) = Tally(calls, p, CodesOf(i), b - ago)
  BY <1>5, <1>6, <1>8 DEF ExactAt
<1>9. CASE /\ ago = Span /\ Counted(paths, p, i, b, ago) = 0
           /\ FoundFaded(Tally(calls, p, CodesOf(i), b - ago), b, cache)
  <2>1. PICK snap \in cache : BucketStart(snap.at) = b
    BY <1>9 DEF FoundFaded
  <2>2. PICK t \in Nat : t = snap.at /\ (t = latest \/ t < latest)
    BY <1>2, <2>1 DEF HttpTypes, CacheOK
  <2>3. b <= BucketStart(latest)
    BY <1>2, <2>1, <2>2, BucketsApart
  <2>4. b - ago # BucketStart(call.at)
    BY <1>2, <1>9, <2>3, SpanAssumption
  <2>5. more = 0
    BY <1>4, <2>4 DEF Matches
  <2>6. Tally(calls, p, CodesOf(i), b - ago) \in Nat
    BY TallyFacts
  <2> QED BY <1>5, <1>6, <1>9, <2>5, <2>6 DEF ExactAt
<1> QED BY <1>7, <1>8, <1>9 DEF ExactAt

LEMMA ExactVisited ==
  ASSUME PathsOK(paths), NEW at \in Nat, StartsBy(paths, BucketStart(at)),
         ExactFrom(paths, calls, cache, BucketStart(at)),
         \A kept \in cache : kept.at \in Nat /\ kept.at <= at,
         NEW snap, snap.at = at
  PROVE  ExactFrom(Visited(at), calls, {snap}, BucketStart(at))
<1> DEFINE s == BucketStart(at)
           v == Visited(at)
<1> SUFFICES ASSUME NEW p \in AllPaths, NEW i \in Counting, NEW b \in Buckets, NEW ago \in Ages, s <= b
             PROVE  ExactAt(v, calls, {snap}, p, i, b, ago)
  BY DEF ExactFrom
<1>1. s \in Buckets /\ s \in Nat /\ b \in Nat /\ i \in Slots /\ 0 \in Ages /\ Span > 0
  BY CountingSlots, BucketsApart, BucketFacts DEF Buckets, Ages
<1>2. Counted(v, p, i, b, ago) = IF p \in DOMAIN v THEN Counted(paths, p, i, b, ago) ELSE 0
  BY <1>1, VisitedCounts
<1>3. p \notin DOMAIN v => Counted(paths, p, i, s, 0) = 0 /\ Faded(Counted(paths, p, i, s, Span), at) = 0
  BY <1>1, VisitedCounts
<1> HIDE DEF v, s
<1>4. PICK x \in Nat : x = Tally(calls, p, CodesOf(i), b - ago)
  BY TallyFacts
<1>5. /\ Counted(paths, p, i, b, ago) = x
      \/ (ago = Span /\ Counted(paths, p, i, b, ago) = 0 /\ FoundFaded(x, b, cache))
  BY <1>1, <1>4 DEF ExactFrom, ExactAt, s
<1>6. ASSUME FoundFaded(x, b, cache)
      PROVE  b = s /\ Faded(x, at) = 0
  <2>1. PICK kept \in cache : BucketStart(kept.at) = b /\ Faded(x, kept.at) = 0
    BY <1>6 DEF FoundFaded
  <2>2. PICK t \in Nat : t = kept.at /\ t <= at /\ (t = at \/ t < at)
    BY <2>1
  <2>3. b <= s
    BY <1>1, <2>1, <2>2, BucketsApart DEF s
  <2>4. b = s
    BY <1>1, <2>3
  <2>5. Faded(x, at) <= 0
    BY <2>1, <2>2, <2>4, FadesOn DEF s
  <2>6. Faded(x, at) \in Nat
    BY FadedFacts
  <2> QED BY <2>4, <2>5, <2>6
<1>7. ASSUME b = s, Faded(x, at) = 0 PROVE FoundFaded(x, b, {snap})
  BY <1>7 DEF FoundFaded, s
<1>8. CASE ago = Span /\ Counted(paths, p, i, b, ago) = 0 /\ FoundFaded(x, b, cache)
  <2>1. Counted(v, p, i, b, ago) = 0
    BY <1>2, <1>8
  <2> QED BY <1>4, <1>6, <1>7, <1>8, <2>1 DEF ExactAt
<1>9. CASE Counted(paths, p, i, b, ago) = x /\ p \in DOMAIN v
  BY <1>2, <1>4, <1>9 DEF ExactAt
<1>10. CASE Counted(paths, p, i, b, ago) = x /\ p \notin DOMAIN v
  <2>1. Counted(v, p, i, b, ago) = 0
    BY <1>2, <1>10
  <2>2. CASE s < b
    <3>1. Counted(paths, p, i, b, ago) \in {0, Counted(paths, p, i, s, 0)}
      BY <1>1, <2>2, CountedLater DEF s
    <3>2. x = 0
      BY <1>3, <1>10, <3>1
    <3> QED BY <1>4, <2>1, <3>2 DEF ExactAt
  <2>3. CASE s = b /\ ago = 0
    <3>1. x = 0
      BY <1>3, <1>10, <2>3
    <3> QED BY <1>4, <2>1, <3>1 DEF ExactAt
  <2>4. CASE s = b /\ ago = Span
    <3>1. Faded(x, at) = 0
      BY <1>3, <1>10, <2>4
    <3>2. FoundFaded(x, b, {snap})
      BY <1>7, <2>4, <3>1
    <3> QED BY <1>4, <2>1, <2>4, <3>2 DEF ExactAt
  <2> QED BY <1>1, <2>2, <2>3, <2>4 DEF Ages
<1> QED BY <1>5, <1>8, <1>9, <1>10

\* What was recorded before the snapshot was taken is not changed by what comes later.
LEMMA AtLeastStays ==
  ASSUME NEW cs, NEW more, NEW snap, snap.at \in Nat, AtLeast(snap, cs),
         \A p, codes, b : RecordingsBy(more, p, codes, b, snap.at - 1)
                            \subseteq RecordingsBy(cs, p, codes, b, snap.at - 1),
         \A p \in AllPaths, i \in Counting : ShownOf(snap, p, i) \in Nat
  PROVE  AtLeast(snap, more)
<1> SUFFICES ASSUME NEW p \in AllPaths, NEW i \in Counting
             PROVE  WindowBy(more, p, CodesOf(i), snap.at, snap.at - 1) <= ShownOf(snap, p, i)
  BY DEF AtLeast
<1>1. PICK at \in Nat : at = snap.at
  OBVIOUS
<1>2. PICK m \in Nat, n \in Nat :
        m = WindowBy(more, p, CodesOf(i), at, at - 1) /\ n = WindowBy(cs, p, CodesOf(i), at, at - 1)
  BY WindowByBelowAll
<1>3. m <= n
  BY <1>1, <1>2, WindowByGrows
<1>4. n <= ShownOf(snap, p, i) /\ ShownOf(snap, p, i) \in Nat
  BY <1>1, <1>2 DEF AtLeast
<1> QED BY <1>1, <1>2, <1>3, <1>4

ExactInv == SoundInv /\ InTime /\ NoneTooMany /\ Exact

\* The step of Answer, by its parts.
LEMMA AnswerIs ==
  ASSUME HttpTypes, NEW r \in Readers, Answer(r)
  PROVE  \E at \in asks[r] :
           /\ at \in Nat /\ at <= now
           /\ \/ Kept(at) # {} /\ UNCHANGED <<paths, cache, latest, overtaken>>
              \/ /\ Kept(at) = {} /\ paths' = Visited(at) /\ Comes(at)
                 /\ cache' = {[at |-> at, shown |-> Shown(at)]}
           /\ UNCHANGED <<now, calls>>
<1>1. PICK at \in asks[r] :
        /\ IF Kept(at) # {}
           THEN UNCHANGED <<paths, cache, latest, overtaken>>
           ELSE /\ paths' = Visited(at)
                /\ cache' = {[at |-> at, shown |-> Shown(at)]}
                /\ Comes(at)
        /\ UNCHANGED <<now, calls>>
  BY DEF Answer
<1>2. at \in Nat /\ at <= now
  BY <1>1 DEF HttpTypes, AsksOK
<1> QED BY <1>1, <1>2

\* With a cache, one who takes a snapshot is later than the one kept.
LEMMA KeptIsEarlier ==
  ASSUME HttpTypes, Refresh > 0, NEW at \in Nat, Kept(at) = {}
  PROVE  \A snap \in cache : snap.at \in Nat /\ snap.at <= at
<1> SUFFICES ASSUME NEW snap \in cache PROVE snap.at \in Nat /\ snap.at <= at
  OBVIOUS
<1>1. snap.at \in Nat /\ ~ (at - snap.at < Refresh)
  BY DEF HttpTypes, CacheOK, Kept
<1> QED BY <1>1, HttpAssumption

\* Observe changes the recordings thus.
LEMMA ObserveRecords ==
  ASSUME HttpTypes, NEW c \in Calls, Observe(c)
  PROVE  /\ \A p, codes, b : Tally(calls, p, codes, b) <= Tally(calls', p, codes, b)
         /\ \A snap \in cache : \A p, codes, b :
              RecordingsBy(calls', p, codes, b, snap.at - 1) \subseteq RecordingsBy(calls, p, codes, b, snap.at - 1)
<1>1. PICK call \in Call :
        /\ RecordedIn(calls, c, call, calls')
        /\ calls' = [calls EXCEPT ![c] = {[call EXCEPT !.recorded = TRUE, !.recordedAt = now]}]
  BY ObserveIs
<1>a. PICK new, told : new = calls' /\ told = [call EXCEPT !.recorded = TRUE, !.recordedAt = now]
  OBVIOUS
<1>2. now \in Nat /\ calls \in [Calls -> SUBSET Call]
  BY DEF HttpTypes, CallsOK
<1>3. ASSUME NEW p, NEW codes, NEW b
      PROVE  Tally(calls, p, codes, b) <= Tally(new, p, codes, b)
  <2>1. PICK m \in {0, 1} : m = IF Matches(call, p, codes, b) THEN 1 ELSE 0
    OBVIOUS
  <2>2. Tally(new, p, codes, b) = Tally(calls, p, codes, b) + m
    BY <1>1, <1>a, <1>2, <2>1, TallyGrows
  <2>3. Tally(calls, p, codes, b) \in Nat
    BY TallyFacts
  <2> QED BY <2>1, <2>2, <2>3
<1>4. told.recordedAt = now /\ new[c] = {told} /\ \A d \in Calls : d # c => new[d] = calls[d]
  BY <1>1, <1>a, <1>2 DEF Call
<1>5. ASSUME NEW snap \in cache, NEW p, NEW codes, NEW b, NEW d \in RecordingsBy(new, p, codes, b, snap.at - 1)
      PROVE  d \in RecordingsBy(calls, p, codes, b, snap.at - 1)
  <2>1. PICK t \in Nat : t = snap.at /\ t <= now
    BY DEF HttpTypes, CacheOK
  <2>2. PICK x \in new[d] :
          /\ d \in Calls /\ x.recorded /\ x.recordedAt <= t - 1
          /\ p \in {Global, x.path} /\ x.code \in codes /\ BucketStart(x.at) = b
    BY <2>1 DEF RecordingsBy
  <2>3. d # c
    BY <1>2, <1>4, <2>1, <2>2
  <2> QED BY <1>4, <2>1, <2>2, <2>3 DEF RecordingsBy
<1> QED BY <1>a, <1>3, <1>5

LEMMA FinishRecords ==
  ASSUME HttpTypes, NEW c \in Calls, NEW path \in Paths, NEW code \in Codes, Finish(c, path, code)
  PROVE  /\ \A p, codes, b : Tally(calls', p, codes, b) = Tally(calls, p, codes, b)
         /\ \A p, codes, b, until : RecordingsBy(calls', p, codes, b, until) \subseteq RecordingsBy(calls, p, codes, b, until)
<1>1. PICK told, new :
        /\ told = [path |-> path, code |-> code, at |-> now, recorded |-> FALSE, recordedAt |-> 0]
        /\ new = calls' /\ new = [calls EXCEPT ![c] = {told}]
  BY DEF Finish
<1>2. ~ told.recorded /\ new[c] = {told} /\ \A d \in Calls : d # c => new[d] = calls[d]
  BY <1>1 DEF HttpTypes, CallsOK
<1>3. ASSUME NEW p, NEW codes, NEW b, NEW until, NEW d \in RecordingsBy(new, p, codes, b, until)
      PROVE  d \in RecordingsBy(calls, p, codes, b, until)
  <2>1. PICK x \in new[d] : d \in Calls /\ x.recorded
    BY DEF RecordingsBy
  <2>2. d # c
    BY <1>2, <2>1
  <2> QED BY <1>2, <2>2 DEF RecordingsBy
<1>4. \A p, codes, b : Tally(calls', p, codes, b) = Tally(calls, p, codes, b)
  BY TallyUnrecorded
<1> QED BY <1>1, <1>3, <1>4

LEMMA NoneTooManyStep == ExactInv /\ [Next]_vars => NoneTooMany'
<1> SUFFICES ASSUME ExactInv, [Next]_vars PROVE NoneTooMany'
  OBVIOUS
<1>1. HttpTypes /\ SoundInv /\ \A snap \in cache : snap.at \in Nat
  BY DEF ExactInv, SoundInv, HttpTypes, CacheOK
<1>2. CASE cache' = cache /\ \A p, codes, b : Tally(calls, p, codes, b) <= Tally(calls', p, codes, b)
  <2>1. PICK more : more = calls'
    OBVIOUS
  <2>2. ASSUME NEW snap \in cache PROVE AtMost(snap, more)
    BY <1>1, <1>2, <2>1, AtMostStays DEF ExactInv, NoneTooMany
  <2> QED BY <1>2, <2>1, <2>2 DEF NoneTooMany
<1>3. CASE calls' = calls /\ cache' = cache
  BY <1>3 DEF ExactInv, NoneTooMany
<1>4. ASSUME NEW c \in Calls, Observe(c) PROVE NoneTooMany'
  <2>1. cache' = cache
    BY <1>4 DEF Observe
  <2> QED BY <1>1, <1>2, <1>4, <2>1, ObserveRecords
<1>5. ASSUME NEW c \in Calls, NEW path \in Paths, NEW code \in Codes, Finish(c, path, code)
      PROVE  NoneTooMany'
  <2>1. cache' = cache
    BY <1>5 DEF Finish
  <2>2. ASSUME NEW p, NEW codes, NEW b PROVE Tally(calls, p, codes, b) <= Tally(calls', p, codes, b)
    <3>1. Tally(calls', p, codes, b) = Tally(calls, p, codes, b)
      BY <1>1, <1>5, FinishRecords
    <3>2. Tally(calls, p, codes, b) \in Nat
      BY TallyFacts
    <3> QED BY <3>1, <3>2
  <2> QED BY <1>2, <2>1, <2>2
<1>6. ASSUME NEW r \in Readers, Answer(r) PROVE NoneTooMany'
  <2>1. PICK at \in asks[r] :
           /\ at \in Nat /\ at <= now
           /\ \/ Kept(at) # {} /\ UNCHANGED <<paths, cache, latest, overtaken>>
              \/ /\ Kept(at) = {} /\ paths' = Visited(at) /\ Comes(at)
                 /\ cache' = {[at |-> at, shown |-> Shown(at)]}
           /\ UNCHANGED <<now, calls>>
    BY <1>1, <1>6, AnswerIs
  <2>2. CASE Kept(at) = {} /\ cache' = {[at |-> at, shown |-> Shown(at)]}
    <3>1. PICK snap : snap = [at |-> at, shown |-> Shown(at)]
      OBVIOUS
    <3>2. AtMost(snap, calls)
      BY <1>1, <2>1, <3>1, TakenAtMost
    <3> QED BY <2>1, <2>2, <3>1, <3>2 DEF NoneTooMany
  <2> QED BY <1>3, <2>1, <2>2
<1>7. Tick \/ (\E r \in Readers : Ask(r)) \/ UNCHANGED vars => calls' = calls /\ cache' = cache
  BY DEF Tick, Ask, vars
<1> QED BY <1>3, <1>4, <1>5, <1>6, <1>7 DEF Next

\* With a cache that is taken in time, all is counted.
LEMMA ExactStep == ExactInv /\ [Next]_vars => Exact'
<1> SUFFICES ASSUME ExactInv, [Next]_vars, ~ overtaken', Refresh > 0
             PROVE  /\ ExactFrom(paths, calls, cache, BucketStart(latest))'
                    /\ (\A snap \in cache : AtLeast(snap, calls))'
  BY DEF Exact
<1>1. /\ HttpTypes /\ PathsOK(paths) /\ latest \in Nat /\ overtaken \in BOOLEAN
      /\ \A snap \in cache : snap.at \in Nat /\ snap.at <= latest
      /\ \A snap \in cache : \A p \in AllPaths, i \in Counting : ShownOf(snap, p, i) \in Nat
  BY DEF ExactInv, SoundInv, HttpTypes, CallsOK, CacheOK, NoneTooMany, AtMost
<1>2. ~ overtaken => /\ ExactFrom(paths, calls, cache, BucketStart(latest))
                     /\ \A snap \in cache : AtLeast(snap, calls)
  BY DEF ExactInv, Exact
<1>3. CASE UNCHANGED <<calls, paths, cache, latest, overtaken>>
  BY <1>2, <1>3
<1>4. ASSUME NEW c \in Calls, Observe(c)
      PROVE  /\ ExactFrom(paths, calls, cache, BucketStart(latest))'
             /\ (\A snap \in cache : AtLeast(snap, calls))'
  <2>1. PICK call \in Call :
           /\ RecordedIn(calls, c, call, calls') /\ Comes(call.at)
           /\ paths' = Observed(Observed(paths, Global, call), call.path, call)
           /\ PathsOK(Observed(paths, Global, call))
           /\ UNCHANGED <<now, asks, cache>>
    BY <1>1, <1>4, ObserveIs
  <2>2. /\ ~ overtaken /\ BucketStart(latest) <= BucketStart(call.at)
        /\ BucketStart(latest') = BucketStart(call.at)
    BY <1>1, <2>1, ComesFacts DEF Call
  <2>3. ExactFrom(paths', calls', cache, BucketStart(call.at))
    BY <1>1, <1>2, <2>1, <2>2, ExactRecorded DEF ExactInv
  <2>4. PICK more : more = calls'
    OBVIOUS
  <2>5. ASSUME NEW snap \in cache PROVE AtLeast(snap, more)
    BY <1>1, <1>2, <1>4, <2>2, <2>4, ObserveRecords, AtLeastStays
  <2> QED BY <2>1, <2>2, <2>3, <2>4, <2>5
<1>5. ASSUME NEW c \in Calls, NEW path \in Paths, NEW code \in Codes, Finish(c, path, code)
      PROVE  /\ ExactFrom(paths, calls, cache, BucketStart(latest))'
             /\ (\A snap \in cache : AtLeast(snap, calls))'
  <2>1. PICK more : more = calls'
    OBVIOUS
  <2>2. ~ overtaken /\ UNCHANGED <<paths, cache, latest>>
    BY <1>5 DEF Finish
  <2>3. /\ \A p, codes, b : Tally(more, p, codes, b) = Tally(calls, p, codes, b)
        /\ \A p, codes, b, until : RecordingsBy(more, p, codes, b, until) \subseteq RecordingsBy(calls, p, codes, b, until)
    BY <1>1, <1>5, <2>1, FinishRecords
  <2>4. ExactFrom(paths, more, cache, BucketStart(latest))
    BY <1>2, <2>2, <2>3 DEF ExactFrom, ExactAt
  <2>5. ASSUME NEW snap \in cache PROVE AtLeast(snap, more)
    BY <1>1, <1>2, <2>2, <2>3, AtLeastStays
  <2> QED BY <2>1, <2>2, <2>4, <2>5
<1>6. ASSUME NEW r \in Readers, Answer(r)
      PROVE  /\ ExactFrom(paths, calls, cache, BucketStart(latest))'
             /\ (\A snap \in cache : AtLeast(snap, calls))'
  <2>1. PICK at \in asks[r] :
           /\ at \in Nat /\ at <= now
           /\ \/ Kept(at) # {} /\ UNCHANGED <<paths, cache, latest, overtaken>>
              \/ /\ Kept(at) = {} /\ paths' = Visited(at) /\ Comes(at)
                 /\ cache' = {[at |-> at, shown |-> Shown(at)]}
           /\ UNCHANGED <<now, calls>>
    BY <1>1, <1>6, AnswerIs
  <2>2. CASE Kept(at) = {} /\ paths' = Visited(at) /\ Comes(at) /\ cache' = {[at |-> at, shown |-> Shown(at)]}
    <3>a. PICK snap : snap = [at |-> at, shown |-> Shown(at)]
      OBVIOUS
    <3>1. snap = [at |-> at, shown |-> Shown(at)] /\ snap.at = at
      BY <3>a
    <3>2. ~ overtaken /\ BucketStart(latest) <= BucketStart(at) /\ BucketStart(latest') = BucketStart(at)
      BY <1>1, <2>1, <2>2, ComesFacts
    <3>3. /\ BucketStart(at) \in Buckets /\ BucketStart(latest) \in Buckets
          /\ BucketStart(at) \in Nat /\ BucketStart(latest) \in Nat
      BY <1>1, <2>1, BucketsApart DEF Buckets
    <3>4. StartsBy(paths, BucketStart(at))
      BY <1>1, <3>2, <3>3, StartsLater DEF ExactInv, InTime
    <3>5. ExactFrom(paths, calls, cache, BucketStart(at))
      <4>1. ASSUME NEW b \in Buckets, BucketStart(at) <= b PROVE BucketStart(latest) <= b
        <5>1. b \in Nat
          BY BucketFacts
        <5> QED BY <3>2, <3>3, <4>1, <5>1
      <4> QED BY <1>2, <3>2, <4>1 DEF ExactFrom
    <3>6. \A kept \in cache : kept.at \in Nat /\ kept.at <= at
      BY <1>1, <2>1, <2>2, KeptIsEarlier
    <3>7. ExactFrom(Visited(at), calls, {snap}, BucketStart(at))
      BY <1>1, <2>1, <3>1, <3>4, <3>5, <3>6, ExactVisited
    <3>8. AtLeast(snap, calls)
      <4> SUFFICES ASSUME NEW p \in AllPaths, NEW i \in Counting
                   PROVE  WindowBy(calls, p, CodesOf(i), at, at - 1) <= ShownOf(snap, p, i)
        BY <3>1 DEF AtLeast
      <4>1. ShownOf(snap, p, i) = WindowOfAll(calls, p, CodesOf(i), at)
        BY <1>1, <2>1, <3>1, <3>4, <3>5, <3>6, TakenIsExact
      <4>2. WindowBy(calls, p, CodesOf(i), at, at - 1) <= WindowOfAll(calls, p, CodesOf(i), at)
        BY <2>1, WindowByBelowAll
      <4> QED BY <4>1, <4>2
    <3>9. cache' = {snap} /\ paths' = Visited(at) /\ calls' = calls
      BY <2>1, <2>2, <3>1
    <3> QED BY <3>2, <3>7, <3>8, <3>9
  <2>3. CASE UNCHANGED <<paths, cache, latest, overtaken>>
    BY <1>3, <2>1, <2>3
  <2> QED BY <2>1, <2>2, <2>3
<1>7. Tick \/ (\E r \in Readers : Ask(r)) \/ UNCHANGED vars => UNCHANGED <<calls, paths, cache, latest, overtaken>>
  BY DEF Tick, Ask, vars
<1> QED BY <1>3, <1>4, <1>5, <1>6, <1>7 DEF Next

LEMMA ExactInvariant == Spec => []ExactInv
<1>1. Init => NoneTooMany /\ Exact
  <2> SUFFICES ASSUME Init PROVE NoneTooMany /\ Exact
    OBVIOUS
  <2>1. cache = {} /\ DOMAIN paths = {}
    BY DEF Init, None
  <2>2. ASSUME NEW p, NEW codes, NEW b PROVE Tally(calls, p, codes, b) = 0
    <3>1. Recordings(calls, p, codes, b) = {}
      BY DEF Recordings, Init, NoCall
    <3> QED BY <3>1, FS_EmptySet DEF Tally
  <2>3. ExactFrom(paths, calls, cache, BucketStart(latest))
    BY <2>1, <2>2 DEF ExactFrom, ExactAt, Counted
  <2> QED BY <2>1, <2>3 DEF NoneTooMany, Exact
<1>2. SoundInv' /\ ExactInv /\ [Next]_vars => ExactInv'
  BY NoneTooManyStep, ExactStep, InTimeStep DEF ExactInv, SoundInv
<1> QED BY <1>1, <1>2, SoundInvariant, InTimeInit, PTL DEF Spec, ExactInv

\* HttpMetrics.AnswersAreExact: for any window and any interval of refreshing, a
\* reader is told of no request that was not recorded and, with a cache, of all
\* that were recorded that interval ago, as long as nobody comes to the lock with
\* the time of a bucket that is over (Snapshot, http.go:227; observe, http.go:157).
THEOREM AnswersAlwaysExact == Spec => AnswersAreExact
<1>1. ASSUME ExactInv, ExactInv', [Next]_vars, NEW r \in Readers, NEW at \in asks[r],
             asks'[r] = {}, ~ overtaken',
             NEW snap \in cache', NEW p \in Paths \cup {Global}, NEW i \in {"requests", "errors"}
      PROVE  /\ Refresh > 0 => ShownOf(snap, p, i) >= Estimate(p, CodesOf(i), snap.at, at - Refresh)
             /\ ShownOf(snap, p, i) <= Estimate(p, CodesOf(i), snap.at, now)
  <2>1. HttpTypes /\ p \in AllPaths /\ i \in Counting
    BY <1>1 DEF ExactInv, SoundInv, AllPaths, Counting
  <2>2. asks \in [Readers -> SUBSET Nat] /\ \A s, t \in asks[r] : s = t
    BY <2>1 DEF HttpTypes, AsksOK
  <2>3. Answer(r)
    <3>1. CASE \E c \in Calls : Observe(c)
      <4>1. asks' = asks
        BY <3>1 DEF Observe
      <4> QED BY <1>1, <4>1
    <3>2. CASE \E c \in Calls, path \in Paths, code \in Codes : Finish(c, path, code)
      <4>1. asks' = asks
        BY <3>2 DEF Finish
      <4> QED BY <1>1, <4>1
    <3>3. ASSUME NEW q \in Readers, Ask(q) PROVE FALSE
      <4>1. asks' = [asks EXCEPT ![q] = {now}]
        BY <3>3 DEF Ask
      <4> QED BY <1>1, <2>2, <4>1
    <3>4. ASSUME NEW q \in Readers, Answer(q) PROVE q = r
      <4>1. asks' = [asks EXCEPT ![q] = {}]
        BY <3>4 DEF Answer
      <4> QED BY <1>1, <2>2, <4>1
    <3>5. Tick \/ UNCHANGED vars => asks' = asks
      BY DEF Tick, vars
    <3> QED BY <1>1, <3>1, <3>2, <3>3, <3>4, <3>5 DEF Next
  <2>4. /\ at \in Nat
        /\ \/ Kept(at) # {} /\ cache' = cache
           \/ cache' = {[at |-> at, shown |-> Shown(at)]}
        /\ UNCHANGED <<now, calls>>
    <3>1. PICK t \in asks[r] :
           /\ t \in Nat
           /\ \/ Kept(t) # {} /\ UNCHANGED <<paths, cache, latest, overtaken>>
              \/ /\ Kept(t) = {} /\ paths' = Visited(t) /\ Comes(t)
                 /\ cache' = {[at |-> t, shown |-> Shown(t)]}
           /\ UNCHANGED <<now, calls>>
      BY <2>1, <2>3, AnswerIs
    <3>2. t = at
      BY <2>2
    <3> QED BY <3>1, <3>2
  <2>5. snap.at \in Nat /\ AtMost(snap, calls) /\ (Refresh > 0 => AtLeast(snap, calls))
    <3>1. snap.at \in Nat
      BY <1>1 DEF ExactInv, SoundInv, HttpTypes, CacheOK
    <3>2. AtMost(snap, calls')
      BY <1>1 DEF ExactInv, NoneTooMany
    <3>3. Refresh > 0 => AtLeast(snap, calls')
      BY <1>1 DEF ExactInv, Exact
    <3> QED BY <2>4, <3>1, <3>2, <3>3
  <2>6. ShownOf(snap, p, i) <= Estimate(p, CodesOf(i), snap.at, now)
    <3>1. \A b : Recorded(p, CodesOf(i), b, now) = Recordings(calls, p, CodesOf(i), b)
      BY <2>1, RecordedByNow
    <3>2. Estimate(p, CodesOf(i), snap.at, now) = WindowOfAll(calls, p, CodesOf(i), snap.at)
      BY <3>1 DEF Estimate, WindowOfAll, Tally
    <3>3. ShownOf(snap, p, i) \in 0..WindowOfAll(calls, p, CodesOf(i), snap.at)
      BY <2>1, <2>5 DEF AtMost
    <3> QED BY <3>2, <3>3
  <2>7. ASSUME Refresh > 0 PROVE ShownOf(snap, p, i) >= Estimate(p, CodesOf(i), snap.at, at - Refresh)
    <3>1. at - Refresh <= snap.at - 1
      <4>1. CASE cache' = {[at |-> at, shown |-> Shown(at)]}
        <5>1. snap.at = at
          BY <4>1
        <5> QED BY <2>4, <2>7, <5>1, HttpAssumption
      <4>2. CASE Kept(at) # {} /\ cache' = cache
        <5>1. PICK kept \in cache : at - kept.at < Refresh
          BY <4>2 DEF Kept
        <5>2. snap = kept
          BY <2>1, <4>2 DEF HttpTypes, CacheOK
        <5> QED BY <2>4, <2>5, <5>1, <5>2, HttpAssumption
      <4> QED BY <2>4, <4>1, <4>2
    <3>2. PICK s \in Int, u \in Int : s = at - Refresh /\ u = snap.at - 1 /\ s <= u
      BY <2>4, <2>5, <3>1, HttpAssumption
    <3>3. ASSUME NEW b, NEW d \in RecordingsBy(calls, p, CodesOf(i), b, s)
          PROVE  d \in RecordingsBy(calls, p, CodesOf(i), b, u)
      <4>1. PICK x \in calls[d] :
              /\ d \in Calls /\ x.recorded /\ x.recordedAt <= s
              /\ p \in {Global, x.path} /\ x.code \in CodesOf(i) /\ BucketStart(x.at) = b
        BY DEF RecordingsBy
      <4>2. x.recordedAt \in Nat
        BY <2>1, <4>1 DEF HttpTypes, CallsOK, Call
      <4> QED BY <3>2, <4>1, <4>2 DEF RecordingsBy
    <3>4. WindowBy(calls, p, CodesOf(i), snap.at, s) <= WindowBy(calls, p, CodesOf(i), snap.at, u)
      BY <2>5, <3>3, WindowByGrows
    <3>5. WindowBy(calls, p, CodesOf(i), snap.at, s) \in Nat /\ WindowBy(calls, p, CodesOf(i), snap.at, u) \in Nat
      BY <2>5, WindowByBelowAll
    <3>6. WindowBy(calls, p, CodesOf(i), snap.at, u) <= ShownOf(snap, p, i)
      BY <2>1, <2>5, <2>7, <3>2 DEF AtLeast
    <3>7. ShownOf(snap, p, i) \in Int
      BY <2>1, <2>5 DEF AtMost
    <3>8. Estimate(p, CodesOf(i), snap.at, at - Refresh) = WindowBy(calls, p, CodesOf(i), snap.at, s)
      BY <3>2, EstimateIs
    <3> QED BY <3>4, <3>5, <3>6, <3>7, <3>8
  <2> QED BY <2>6, <2>7
<1>2. ExactInv /\ ExactInv' /\ [Next]_vars =>
        [\A r \in Readers : \A at \in asks[r] :
           asks'[r] = {} /\ ~ overtaken' =>
             \A snap \in cache' : \A p \in Paths \cup {Global} : \A i \in {"requests", "errors"} :
               /\ Refresh > 0 => ShownOf(snap, p, i) >= Estimate(p, CodesOf(i), snap.at, at - Refresh)
               /\ ShownOf(snap, p, i) <= Estimate(p, CodesOf(i), snap.at, now)]_vars
  BY <1>1
<1> QED BY <1>2, ExactInvariant, PTL DEF Spec, AnswersAreExact
=============================================================================
