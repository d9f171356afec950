------------------------------ MODULE MetricsProofs ------------------------------
(****************************************************************************)
(* What holds of the metrics store for every cap, retention, dictionary and *)
(* clock, whatever is scraped and read.                                     *)
(*                                                                          *)
(* The invariant behind it: every id in the tree and among the descriptions *)
(* is one of the dictionary, the postings of a series are those of a label  *)
(* set, two series never mean the same, and the columns of a series are     *)
(* sorted, of one length, with the run of equal values that ends them.      *)
(* Each operation is reduced to what it does to the points, a set of        *)
(* series, seconds and values without any ids; a compaction keeps the       *)
(* points and leaves the strings that are in use.  What a call does to the  *)
(* points, metric by metric, is one step of SeriesStore.                    *)
(****************************************************************************)
EXTENDS ScrapedMetrics, FiniteSetTheorems, SequenceTheorems, WellFoundedInduction, TLAPS

-----------------------------------------------------------------------------
(* Numbers, and sets of them.                                               *)

LEMMA LeastOfNats ==
  ASSUME NEW S \in SUBSET Nat, S # {}
  PROVE  Min(S) \in S /\ \A k \in S : Min(S) <= k
<1> DEFINE T == {0..k : k \in S}
<1>1. T \subseteq FiniteSubsetsOf(Nat) /\ T # {}
  <2>1. ASSUME NEW k \in S PROVE 0..k \in FiniteSubsetsOf(Nat)
    <3>1. k \in Int /\ 0 \in Int /\ 0..k \in SUBSET Nat
      OBVIOUS
    <3> QED BY <3>1, FS_Interval DEF FiniteSubsetsOf
  <2> QED BY <2>1
<1>2. IsWellFoundedOn(StrictSubsetOrdering(Nat), FiniteSubsetsOf(Nat))
  BY FS_StrictSubsetOrderingWellFounded
<1> HIDE DEF T
<1>3. \E x \in T : \A y \in T : ~ (<<y, x>> \in StrictSubsetOrdering(Nat))
  BY <1>1, <1>2, WFMin
<1>4. PICK x \in S : \A y \in T : ~ (<<y, 0..x>> \in StrictSubsetOrdering(Nat))
  BY <1>3 DEF T
<1>5. ASSUME NEW y \in S, ~(x <= y) PROVE FALSE
  <2>1. x \in Nat /\ y \in Nat /\ y < x
    BY <1>5
  <2>2. 0..y \subseteq 0..x /\ 0..x \in SUBSET Nat /\ x \in 0..x /\ x \notin 0..y
    BY <2>1
  <2>3. <<0..y, 0..x>> \in StrictSubsetOrdering(Nat)
    BY <2>2 DEF StrictSubsetOrdering
  <2> QED BY <1>4, <2>3 DEF T
<1>6. \A y \in S : x <= y
  BY <1>5
<1>7. \A y \in S : (\A z \in S : y <= z) => y = x
  BY <1>6
<1> QED BY <1>6, <1>7 DEF Min

\* Counting up from zero.
LEMMA NatsGrow ==
  ASSUME NEW n \in Nat, NEW G, 0 \in G, \A i \in 0..(n - 1) : i \in G => i + 1 \in G
  PROVE  \A i \in 0..n : i \in G
<1> DEFINE T == {i \in 0..n : i \notin G}
<1> SUFFICES ASSUME T # {} PROVE FALSE
  OBVIOUS
<1>1. T \in SUBSET Nat
  OBVIOUS
<1> DEFINE i == Min(T)
<1>2. i \in T /\ \A k \in T : i <= k
  <2> HIDE DEF T
  <2> QED BY <1>1, LeastOfNats
<1> HIDE DEF i
<1>3. i \in 0..n /\ i \notin G /\ i # 0
  BY <1>2
<1>4. i - 1 \in 0..(n - 1) /\ (i - 1) + 1 = i /\ i - 1 \in 0..n /\ ~(i <= i - 1)
  BY <1>3
<1>5. i - 1 \in G
  BY <1>2, <1>4
<1> QED BY <1>3, <1>4, <1>5

\* The least and the greatest member of a set are those that are less and greater.
LEMMA LeastIsMin ==
  ASSUME NEW S \in SUBSET Int, NEW a \in S, \A k \in S : a <= k
  PROVE  Min(S) = a
<1>1. \A x \in S : (\A y \in S : x <= y) => x = a
  OBVIOUS
<1> QED BY <1>1 DEF Min

LEMMA GreatestIsMax ==
  ASSUME NEW S \in SUBSET Int, NEW b \in S, \A k \in S : k <= b
  PROVE  Max(S) = b
<1>1. \A x \in S : (\A y \in S : x >= y) => x = b
  OBVIOUS
<1> QED BY <1>1 DEF Max

LEMMA FirstNumbers ==
  ASSUME NEW n \in Nat, NEW i \in 1..n
  PROVE  1..i \in SUBSET (1..n) /\ 1..i # {} /\ (1..i) \ {i} = 1..(i - 1) /\ i - 1 \in 0..n /\ i \in 0..n
<1>1. 1..i \in SUBSET (1..n) /\ i \in 1..i /\ i - 1 \in 0..n /\ i \in 0..n
  OBVIOUS
<1>2. \A x : x \in (1..i) \ {i} <=> x \in 1..(i - 1)
  OBVIOUS
<1>3. (1..i) \ {i} = 1..(i - 1)
  BY <1>2, Zenon
<1> QED BY <1>1, <1>3

\* Some of the first numbers have a greatest.
LEMMA GreatestOfFirst ==
  ASSUME NEW n \in Nat, NEW S \in SUBSET (1..n), S # {}
  PROVE  Max(S) \in S /\ \A k \in S : k <= Max(S)
<1> DEFINE T == {n - k : k \in S}
<1>1. T \in SUBSET Nat /\ T # {}
  OBVIOUS
<1>2. Min(T) \in T /\ \A k \in T : Min(T) <= k
  <2> HIDE DEF T
  <2> QED BY <1>1, LeastOfNats
<1>3. PICK k \in S : Min(T) = n - k
  BY <1>2
<1>4. ASSUME NEW j \in S PROVE j <= k
  <2>1. n - k <= n - j
    BY <1>2, <1>3
  <2> QED BY <2>1
<1>5. S \in SUBSET Int
  OBVIOUS
<1>6. Max(S) = k
  BY <1>4, <1>5, GreatestIsMax
<1> QED BY <1>4, <1>6

\* A set of subsets that has {} and, with a set less one member, the set.
LEMMA SubsetsGrow ==
  ASSUME NEW D, IsFiniteSet(D), NEW G, {} \in G,
         \A s \in SUBSET D : s # {} /\ (\A x \in s : s \ {x} \in G) => s \in G
  PROVE  D \in G
<1> DEFINE T == {s \in SUBSET D : s \notin G}
<1>1. T \subseteq FiniteSubsetsOf(D)
  BY FS_Subset DEF FiniteSubsetsOf
<1>2. T = {}
  <2> SUFFICES ASSUME T # {} PROVE FALSE
    OBVIOUS
  <2>1. IsWellFoundedOn(StrictSubsetOrdering(D), FiniteSubsetsOf(D))
    BY FS_StrictSubsetOrderingWellFounded
  <2> HIDE DEF T
  <2>2. PICK s \in T : \A r \in T : ~ (<<r, s>> \in StrictSubsetOrdering(D))
    BY <1>1, <2>1, WFMin
  <2> USE DEF T
  <2>3. ASSUME NEW x \in s PROVE s \ {x} \in G
    <3>1. s \in SUBSET D /\ s \ {x} \in SUBSET D /\ s \ {x} # s /\ s \ {x} \subseteq s
      OBVIOUS
    <3>2. <<s \ {x}, s>> \in StrictSubsetOrdering(D)
      BY <3>1 DEF StrictSubsetOrdering
    <3> QED BY <2>2, <3>1, <3>2
  <2> QED BY <2>2, <2>3
<1> QED BY <1>2

-----------------------------------------------------------------------------
(* Finite orders.                                                           *)

\* A strict order of all the members of a set.
Orders(before, set) ==
  /\ \A x \in set : <<x, x>> \notin before
  /\ \A x, y, z \in set : <<x, y>> \in before /\ <<y, z>> \in before => <<x, z>> \in before
  /\ \A x, y \in set : x = y \/ <<x, y>> \in before \/ <<y, x>> \in before

\* How many come before one of them.
Place(x, set, before) == Cardinality({y \in set : <<y, x>> \in before})

LEMMA PlacesRise ==
  ASSUME NEW set, IsFiniteSet(set), NEW before, Orders(before, set)
  PROVE  /\ \A x \in set : Place(x, set, before) \in 0..(Cardinality(set) - 1)
         /\ \A x, y \in set : <<x, y>> \in before => Place(x, set, before) < Place(y, set, before)
<1> DEFINE Of(x) == {y \in set : <<y, x>> \in before}
<1>1. ASSUME NEW x \in set PROVE Cardinality(Of(x)) \in 0..(Cardinality(set) - 1)
  <2>1. Of(x) \in SUBSET (set \ {x})
    BY DEF Orders
  <2>2. IsFiniteSet(set \ {x}) /\ Cardinality(set \ {x}) = Cardinality(set) - 1
    BY FS_RemoveElement
  <2>3. IsFiniteSet(Of(x)) /\ Cardinality(Of(x)) <= Cardinality(set \ {x})
    <3> HIDE DEF Of
    <3> QED BY <2>1, <2>2, FS_Subset
  <2>4. Cardinality(Of(x)) \in Nat /\ Cardinality(set) \in Nat
    BY <2>3, FS_CardinalityType
  <2> HIDE DEF Of
  <2> QED BY <2>2, <2>3, <2>4
<1>2. ASSUME NEW x \in set, NEW y \in set, <<x, y>> \in before PROVE Cardinality(Of(x)) < Cardinality(Of(y))
  <2>1. Of(x) \in SUBSET Of(y)
    BY <1>2 DEF Orders
  <2>2. x \in Of(y) /\ x \notin Of(x)
    BY <1>2 DEF Orders
  <2>3. Of(y) \in SUBSET set
    OBVIOUS
  <2> HIDE DEF Of
  <2>4. IsFiniteSet(Of(y))
    BY <2>3, FS_Subset
  <2>5. IsFiniteSet(Of(x)) /\ Cardinality(Of(x)) <= Cardinality(Of(y)) /\ Cardinality(Of(x)) # Cardinality(Of(y))
    BY <2>1, <2>2, <2>4, FS_Subset
  <2>6. Cardinality(Of(x)) \in Nat /\ Cardinality(Of(y)) \in Nat
    BY <2>4, <2>5, FS_CardinalityType
  <2> QED BY <2>5, <2>6
<1> QED BY <1>1, <1>2 DEF Place

\* Every place is taken, by one member.
LEMMA PlacesAreTaken ==
  ASSUME NEW set, IsFiniteSet(set), NEW before, Orders(before, set)
  PROVE  /\ \A n \in 0..(Cardinality(set) - 1) : \E x \in set : Place(x, set, before) = n
         /\ \A x, y \in set : Place(x, set, before) = Place(y, set, before) => x = y
         /\ \A x, y \in set : Place(x, set, before) < Place(y, set, before) => <<x, y>> \in before
<1> DEFINE P(x) == Place(x, set, before)
           top == 0..(Cardinality(set) - 1)
           f == [x \in set |-> P(x)]
<1>0. Cardinality(set) \in Nat
  BY FS_CardinalityType
<1>1. \A x \in set : P(x) \in top
  BY PlacesRise
<1>2. \A x, y \in set : <<x, y>> \in before => P(x) < P(y)
  BY PlacesRise
<1> HIDE DEF P
<1>3. \A x, y \in set : P(x) = P(y) => x = y
  <2> SUFFICES ASSUME NEW x \in set, NEW y \in set, P(x) = P(y), x # y PROVE FALSE
    OBVIOUS
  <2>1. <<x, y>> \in before \/ <<y, x>> \in before
    BY DEF Orders
  <2>2. P(x) < P(y) \/ P(y) < P(x)
    BY <1>2, <2>1
  <2>3. P(x) \in Int /\ P(y) \in Int
    BY <1>0, <1>1
  <2> QED BY <2>2, <2>3
<1>4. f \in Injection(set, top)
  BY <1>1, <1>3 DEF Injection, IsInjective
<1>5. IsFiniteSet(top) /\ Cardinality(top) = Cardinality(set)
  <2>1. Cardinality(set) - 1 \in Int /\ 0 \in Int
    BY <1>0
  <2>2. IsFiniteSet(top) /\ Cardinality(top) = IF 0 > Cardinality(set) - 1 THEN 0 ELSE Cardinality(set) - 1 - 0 + 1
    BY <2>1, FS_Interval
  <2> HIDE DEF top
  <2> QED BY <1>0, <2>2
<1> HIDE DEF top
<1>6. f \in Surjection(set, top)
  <2> HIDE DEF f
  <2> QED BY <1>4, <1>5, FS_Injection
<1>7. \A n \in top : \E x \in set : P(x) = n
  BY <1>6 DEF Surjection
<1>8. \A x, y \in set : P(x) < P(y) => <<x, y>> \in before
  <2> SUFFICES ASSUME NEW x \in set, NEW y \in set, P(x) < P(y), <<x, y>> \notin before PROVE FALSE
    OBVIOUS
  <2>1. x = y \/ <<y, x>> \in before
    BY DEF Orders
  <2>2. P(x) = P(y) \/ P(y) < P(x)
    BY <1>2, <2>1
  <2> QED BY <1>0, <1>1, <2>2 DEF top
<1> QED BY <1>3, <1>7, <1>8 DEF P, top

\* A set put in order is a sequence of all its members, each once.
InOrder(list, set, before) ==
  /\ list \in Seq(set) /\ Len(list) = Cardinality(set)
  /\ \A i, j \in 1..Len(list) : i < j => <<list[i], list[j]>> \in before
  /\ \A x \in set : \E i \in 1..Len(list) : list[i] = x

LEMMA RankedInOrder ==
  ASSUME NEW set, IsFiniteSet(set), NEW before, Orders(before, set)
  PROVE  InOrder(Ranked(set, before), set, before)
<1> DEFINE P(x) == Place(x, set, before)
           list == Ranked(set, before)
<1>0. Cardinality(set) \in Nat
  BY FS_CardinalityType
<1>1. \A x \in set : P(x) \in 0..(Cardinality(set) - 1)
  BY PlacesRise
<1>2. /\ \A n \in 0..(Cardinality(set) - 1) : \E x \in set : P(x) = n
      /\ \A x, y \in set : P(x) = P(y) => x = y
      /\ \A x, y \in set : P(x) < P(y) => <<x, y>> \in before
  BY PlacesAreTaken
<1>3. list = [n \in 1..Cardinality(set) |-> CHOOSE x \in set : P(x) = n - 1]
  BY DEF Ranked, Place
<1> HIDE DEF P, list
<1>4. ASSUME NEW n \in 1..Cardinality(set) PROVE list[n] \in set /\ P(list[n]) = n - 1
  <2>1. n - 1 \in 0..(Cardinality(set) - 1)
    BY <1>0
  <2>2. \E x \in set : P(x) = n - 1
    BY <1>2, <2>1
  <2> QED BY <1>3, <2>2
<1>5. list \in Seq(set) /\ Len(list) = Cardinality(set)
  BY <1>0, <1>3, <1>4
<1>6. \A i, j \in 1..Len(list) : i < j => <<list[i], list[j]>> \in before
  BY <1>0, <1>2, <1>4, <1>5
<1>7. ASSUME NEW x \in set PROVE \E i \in 1..Len(list) : list[i] = x
  <2>1. P(x) + 1 \in 1..Len(list) /\ P(x) + 1 - 1 = P(x)
    BY <1>0, <1>1, <1>5
  <2> DEFINE i == P(x) + 1
  <2>2. i \in 1..Cardinality(set) /\ i - 1 = P(x)
    BY <1>0, <1>1, <1>5, <2>1
  <2> HIDE DEF i
  <2>3. P(list[i]) = P(x) /\ list[i] \in set
    BY <1>4, <2>2
  <2> QED BY <1>2, <1>5, <2>2, <2>3
<1> QED BY <1>5, <1>6, <1>7 DEF InOrder, list

-----------------------------------------------------------------------------
(* Folds over lists.                                                        *)

\* What the fold of Intern passes through, by the items that it has come past.
InternPasses(base, list, set, w) ==
  w = [s \in SUBSET set |-> IF s = {} THEN base ELSE Intern(w[s \ {Max(s)}], list[Max(s)])]

LEMMA InternPassesExist ==
  ASSUME NEW base, NEW list, NEW n \in Nat
  PROVE  \E w : InternPasses(base, list, 1..n, w)
<1> DEFINE G == {s \in SUBSET (1..n) : \E w : InternPasses(base, list, s, w)}
<1>1. {} \in G
  <2> DEFINE none == [s \in SUBSET {} |-> base]
  <2>1. none = [s \in SUBSET {} |-> IF s = {} THEN base ELSE Intern(none[s \ {Max(s)}], list[Max(s)])]
    OBVIOUS
  <2>2. InternPasses(base, list, {}, none)
    BY <2>1, Zenon DEF InternPasses
  <2> HIDE DEF none
  <2> QED BY <2>2
<1>2. ASSUME NEW s \in SUBSET (1..n), s # {}, \A x \in s : s \ {x} \in G PROVE s \in G
  <2> DEFINE x == Max(s)
  <2>1. x \in s /\ \A k \in s : k <= x
    BY <1>2, GreatestOfFirst
  <2> HIDE DEF x
  <2>2. PICK w : InternPasses(base, list, s \ {x}, w)
    BY <1>2, <2>1
  <2> DEFINE Step(r) == IF r = {} THEN base ELSE Intern(w[r \ {Max(r)}], list[Max(r)])
             more == [r \in SUBSET s |-> Step(r)]
  <2>3. \A r \in SUBSET (s \ {x}) : w[r] = Step(r)
    BY <2>2, Zenon DEF InternPasses
  <2>4. ASSUME NEW r \in SUBSET s
        PROVE  more[r] = IF r = {} THEN base ELSE Intern(more[r \ {Max(r)}], list[Max(r)])
    <3>1. CASE r = {}
      BY <3>1
    <3>2. CASE r # {}
      <4> DEFINE y == Max(r)
      <4>1. r \in SUBSET (1..n)
        OBVIOUS
      <4>2. y \in r /\ \A k \in r : k <= y
        BY <3>2, <4>1, GreatestOfFirst
      <4> HIDE DEF y
      <4>3. x \in r => x = y
        <5>1. y \in s /\ x \in Int /\ y \in Int
          BY <2>1, <4>2
        <5> QED BY <2>1, <4>2, <5>1
      <4>4. r \ {y} \in SUBSET (s \ {x}) /\ r \ {y} \in SUBSET s
        BY <4>3
      <4>5. more[r \ {y}] = w[r \ {y}]
        BY <2>3, <4>4
      <4>6. more[r] = Intern(w[r \ {y}], list[y])
        BY <3>2 DEF y
      <4> HIDE DEF more
      <4>7. more[r] = Intern(more[r \ {y}], list[y])
        BY <4>5, <4>6
      <4> QED BY <3>2, <4>7 DEF y
    <3> QED BY <3>1, <3>2
  <2>5. more = [r \in SUBSET s |-> IF r = {} THEN base ELSE Intern(more[r \ {Max(r)}], list[Max(r)])]
    <3>1. more = [r \in SUBSET s |-> more[r]]
      OBVIOUS
    <3> HIDE DEF more
    <3> QED BY <2>4, <3>1
  <2> HIDE DEF more
  <2>6. InternPasses(base, list, s, more)
    BY <2>5, Zenon DEF InternPasses
  <2> QED BY <2>6
<1> HIDE DEF G
<1>3. IsFiniteSet(1..n)
  BY FS_Interval
<1>4. 1..n \in G
  BY <1>1, <1>2, <1>3, SubsetsGrow
<1> QED BY <1>4 DEF G

\* The results of a fold from item to item.
InternSteps(base, list, f) ==
  /\ f[0] = base
  /\ \A i \in 1..Len(list) : f[i] = Intern(f[i - 1], list[i])

LEMMA InternFolds ==
  ASSUME NEW base, NEW list, Len(list) \in Nat, DOMAIN list = 1..Len(list)
  PROVE  \E f : InternSteps(base, list, f) /\ InternAll(base, list) = f[Len(list)]
<1> DEFINE n == Len(list)
           Fits(w) == w = [s \in SUBSET (1..n) |-> IF s = {} THEN base ELSE Intern(w[s \ {Max(s)}], list[Max(s)])]
           c == CHOOSE w : Fits(w)
<1>1. InternAll(base, list) = c[1..n]
  BY DEF InternAll, FoldLeft, MapThenFoldSet
<1>2. \A v : Fits(v) <=> InternPasses(base, list, 1..n, v)
  BY DEF InternPasses
<1>3. \E v : InternPasses(base, list, 1..n, v)
  BY InternPassesExist
<1> HIDE DEF Fits
<1>4. Fits(c)
  BY <1>2, <1>3, Zenon
<1> HIDE DEF c
<1> DEFINE f == [i \in 0..n |-> c[1..i]]
<1>5. \A s \in SUBSET (1..n) : c[s] = IF s = {} THEN base ELSE Intern(c[s \ {Max(s)}], list[Max(s)])
  BY <1>4, Zenon DEF Fits
<1>6. f[0] = base
  <2>1. 1..0 = {} /\ {} \in SUBSET (1..n) /\ 0 \in 0..n
    OBVIOUS
  <2>2. f[0] = c[{}]
    BY <2>1
  <2> QED BY <1>5, <2>1, <2>2, Zenon
<1>7. ASSUME NEW i \in 1..n PROVE f[i] = Intern(f[i - 1], list[i])
  <2>0. n \in Nat
    OBVIOUS
  <2> HIDE DEF n
  <2>1. 1..i \in SUBSET (1..n) /\ 1..i # {} /\ (1..i) \ {i} = 1..(i - 1) /\ i - 1 \in 0..n /\ i \in 0..n
    BY <2>0, FirstNumbers
  <2>2. Max(1..i) = i
    <3>1. 1..i \in SUBSET Int /\ i \in 1..i /\ \A k \in 1..i : k <= i
      OBVIOUS
    <3> QED BY <3>1, GreatestIsMax
  <2>3. c[1..i] = Intern(c[(1..i) \ {Max(1..i)}], list[Max(1..i)])
    BY <1>5, <2>1
  <2>4. c[1..i] = Intern(c[1..(i - 1)], list[i])
    BY <2>1, <2>2, <2>3
  <2>5. f[i] = c[1..i] /\ f[i - 1] = c[1..(i - 1)]
    BY <2>1
  <2> HIDE DEF f
  <2> QED BY <2>4, <2>5
<1>8. f[n] = c[1..n]
  OBVIOUS
<1> HIDE DEF f
<1>9. InternSteps(base, list, f)
  BY <1>6, <1>7 DEF InternSteps
<1> QED BY <1>1, <1>8, <1>9

\* What the fold of AddSample passes through.
SamplesPasses(at, k, id, base, list, set, w) ==
  w = [s \in SUBSET set |-> IF s = {} THEN base ELSE AddSample(w[s \ {Max(s)}], at, list[Max(s)], k, id)]

LEMMA SamplesPassesExist ==
  ASSUME NEW base, NEW list, NEW n \in Nat, NEW at, NEW k, NEW id
  PROVE  \E w : SamplesPasses(at, k, id, base, list, 1..n, w)
<1> DEFINE G == {s \in SUBSET (1..n) : \E w : SamplesPasses(at, k, id, base, list, s, w)}
<1>1. {} \in G
  <2> DEFINE none == [s \in SUBSET {} |-> base]
  <2>1. none = [s \in SUBSET {} |-> IF s = {} THEN base ELSE AddSample(none[s \ {Max(s)}], at, list[Max(s)], k, id)]
    OBVIOUS
  <2>2. SamplesPasses(at, k, id, base, list, {}, none)
    BY <2>1, Zenon DEF SamplesPasses
  <2> HIDE DEF none
  <2> QED BY <2>2
<1>2. ASSUME NEW s \in SUBSET (1..n), s # {}, \A x \in s : s \ {x} \in G PROVE s \in G
  <2> DEFINE x == Max(s)
  <2>1. x \in s /\ \A j \in s : j <= x
    BY <1>2, GreatestOfFirst
  <2> HIDE DEF x
  <2>2. PICK w : SamplesPasses(at, k, id, base, list, s \ {x}, w)
    BY <1>2, <2>1
  <2> DEFINE Step(r) == IF r = {} THEN base ELSE AddSample(w[r \ {Max(r)}], at, list[Max(r)], k, id)
             more == [r \in SUBSET s |-> Step(r)]
  <2>3. \A r \in SUBSET (s \ {x}) : w[r] = Step(r)
    BY <2>2, Zenon DEF SamplesPasses
  <2>4. ASSUME NEW r \in SUBSET s
        PROVE  more[r] = IF r = {} THEN base ELSE AddSample(more[r \ {Max(r)}], at, list[Max(r)], k, id)
    <3>1. CASE r = {}
      BY <3>1
    <3>2. CASE r # {}
      <4> DEFINE y == Max(r)
      <4>1. r \in SUBSET (1..n)
        OBVIOUS
      <4>2. y \in r /\ \A j \in r : j <= y
        BY <3>2, <4>1, GreatestOfFirst
      <4> HIDE DEF y
      <4>3. x \in r => x = y
        <5>1. y \in s /\ x \in Int /\ y \in Int
          BY <2>1, <4>2
        <5> QED BY <2>1, <4>2, <5>1
      <4>4. r \ {y} \in SUBSET (s \ {x}) /\ r \ {y} \in SUBSET s
        BY <4>3
      <4>5. more[r \ {y}] = w[r \ {y}]
        BY <2>3, <4>4
      <4>6. more[r] = AddSample(w[r \ {y}], at, list[y], k, id)
        BY <3>2 DEF y
      <4> HIDE DEF more
      <4>7. more[r] = AddSample(more[r \ {y}], at, list[y], k, id)
        BY <4>5, <4>6
      <4> QED BY <3>2, <4>7 DEF y
    <3> QED BY <3>1, <3>2
  <2>5. more = [r \in SUBSET s |-> IF r = {} THEN base ELSE AddSample(more[r \ {Max(r)}], at, list[Max(r)], k, id)]
    <3>1. more = [r \in SUBSET s |-> more[r]]
      OBVIOUS
    <3> HIDE DEF more
    <3> QED BY <2>4, <3>1
  <2> HIDE DEF more
  <2>6. SamplesPasses(at, k, id, base, list, s, more)
    BY <2>5, Zenon DEF SamplesPasses
  <2> QED BY <2>6
<1> HIDE DEF G
<1>3. IsFiniteSet(1..n)
  BY FS_Interval
<1>4. 1..n \in G
  BY <1>1, <1>2, <1>3, SubsetsGrow
<1> QED BY <1>4 DEF G

\* The results of a fold from item to item.
SamplesSteps(at, k, id, base, list, f) ==
  /\ f[0] = base
  /\ \A i \in 1..Len(list) : f[i] = AddSample(f[i - 1], at, list[i], k, id)

LEMMA SamplesFolds ==
  ASSUME NEW base, NEW list, Len(list) \in Nat, DOMAIN list = 1..Len(list), NEW at, NEW k, NEW id
  PROVE  \E f : SamplesSteps(at, k, id, base, list, f) /\ AddSamples(base, at, list, k, id) = f[Len(list)]
<1> DEFINE n == Len(list)
           Fits(w) == w = [s \in SUBSET (1..n) |-> IF s = {} THEN base ELSE AddSample(w[s \ {Max(s)}], at, list[Max(s)], k, id)]
           c == CHOOSE w : Fits(w)
<1>1. AddSamples(base, at, list, k, id) = c[1..n]
  BY DEF AddSamples, FoldLeft, MapThenFoldSet
<1>2. \A v : Fits(v) <=> SamplesPasses(at, k, id, base, list, 1..n, v)
  BY DEF SamplesPasses
<1>3. \E v : SamplesPasses(at, k, id, base, list, 1..n, v)
  BY SamplesPassesExist
<1> HIDE DEF Fits
<1>4. Fits(c)
  BY <1>2, <1>3, Zenon
<1> HIDE DEF c
<1> DEFINE f == [i \in 0..n |-> c[1..i]]
<1>5. \A s \in SUBSET (1..n) : c[s] = IF s = {} THEN base ELSE AddSample(c[s \ {Max(s)}], at, list[Max(s)], k, id)
  BY <1>4, Zenon DEF Fits
<1>6. f[0] = base
  <2>1. 1..0 = {} /\ {} \in SUBSET (1..n) /\ 0 \in 0..n
    OBVIOUS
  <2>2. f[0] = c[{}]
    BY <2>1
  <2> QED BY <1>5, <2>1, <2>2, Zenon
<1>7. ASSUME NEW i \in 1..n PROVE f[i] = AddSample(f[i - 1], at, list[i], k, id)
  <2>0. n \in Nat
    OBVIOUS
  <2> HIDE DEF n
  <2>1. 1..i \in SUBSET (1..n) /\ 1..i # {} /\ (1..i) \ {i} = 1..(i - 1) /\ i - 1 \in 0..n /\ i \in 0..n
    BY <2>0, FirstNumbers
  <2>2. Max(1..i) = i
    <3>1. 1..i \in SUBSET Int /\ i \in 1..i /\ \A j \in 1..i : j <= i
      OBVIOUS
    <3> QED BY <3>1, GreatestIsMax
  <2>3. c[1..i] = AddSample(c[(1..i) \ {Max(1..i)}], at, list[Max(1..i)], k, id)
    BY <1>5, <2>1
  <2>4. c[1..i] = AddSample(c[1..(i - 1)], at, list[i], k, id)
    BY <2>1, <2>2, <2>3
  <2>5. f[i] = c[1..i] /\ f[i - 1] = c[1..(i - 1)]
    BY <2>1
  <2> HIDE DEF f
  <2> QED BY <2>4, <2>5
<1>8. f[n] = c[1..n]
  OBVIOUS
<1> HIDE DEF f
<1>9. SamplesSteps(at, k, id, base, list, f)
  BY <1>6, <1>7 DEF SamplesSteps
<1> QED BY <1>1, <1>8, <1>9

\* What the fold of AddMetric passes through.
MetricsPasses(call, base, list, set, w) ==
  w = [s \in SUBSET set |-> IF s = {} THEN base ELSE AddMetric(w[s \ {Max(s)}], call, list[Max(s)])]

LEMMA MetricsPassesExist ==
  ASSUME NEW base, NEW list, NEW n \in Nat, NEW call
  PROVE  \E w : MetricsPasses(call, base, list, 1..n, w)
<1> DEFINE G == {s \in SUBSET (1..n) : \E w : MetricsPasses(call, base, list, s, w)}
<1>1. {} \in G
  <2> DEFINE none == [s \in SUBSET {} |-> base]
  <2>1. none = [s \in SUBSET {} |-> IF s = {} THEN base ELSE AddMetric(none[s \ {Max(s)}], call, list[Max(s)])]
    OBVIOUS
  <2>2. MetricsPasses(call, base, list, {}, none)
    BY <2>1, Zenon DEF MetricsPasses
  <2> HIDE DEF none
  <2> QED BY <2>2
<1>2. ASSUME NEW s \in SUBSET (1..n), s # {}, \A x \in s : s \ {x} \in G PROVE s \in G
  <2> DEFINE x == Max(s)
  <2>1. x \in s /\ \A k \in s : k <= x
    BY <1>2, GreatestOfFirst
  <2> HIDE DEF x
  <2>2. PICK w : MetricsPasses(call, base, list, s \ {x}, w)
    BY <1>2, <2>1
  <2> DEFINE Step(r) == IF r = {} THEN base ELSE AddMetric(w[r \ {Max(r)}], call, list[Max(r)])
             more == [r \in SUBSET s |-> Step(r)]
  <2>3. \A r \in SUBSET (s \ {x}) : w[r] = Step(r)
    BY <2>2, Zenon DEF MetricsPasses
  <2>4. ASSUME NEW r \in SUBSET s
        PROVE  more[r] = IF r = {} THEN base ELSE AddMetric(more[r \ {Max(r)}], call, list[Max(r)])
    <3>1. CASE r = {}
      BY <3>1
    <3>2. CASE r # {}
      <4> DEFINE y == Max(r)
      <4>1. r \in SUBSET (1..n)
        OBVIOUS
      <4>2. y \in r /\ \A k \in r : k <= y
        BY <3>2, <4>1, GreatestOfFirst
      <4> HIDE DEF y
      <4>3. x \in r => x = y
        <5>1. y \in s /\ x \in Int /\ y \in Int
          BY <2>1, <4>2
        <5> QED BY <2>1, <4>2, <5>1
      <4>4. r \ {y} \in SUBSET (s \ {x}) /\ r \ {y} \in SUBSET s
        BY <4>3
      <4>5. more[r \ {y}] = w[r \ {y}]
        BY <2>3, <4>4
      <4>6. more[r] = AddMetric(w[r \ {y}], call, list[y])
        BY <3>2 DEF y
      <4> HIDE DEF more
      <4>7. more[r] = AddMetric(more[r \ {y}], call, list[y])
        BY <4>5, <4>6
      <4> QED BY <3>2, <4>7 DEF y
    <3> QED BY <3>1, <3>2
  <2>5. more = [r \in SUBSET s |-> IF r = {} THEN base ELSE AddMetric(more[r \ {Max(r)}], call, list[Max(r)])]
    <3>1. more = [r \in SUBSET s |-> more[r]]
      OBVIOUS
    <3> HIDE DEF more
    <3> QED BY <2>4, <3>1
  <2> HIDE DEF more
  <2>6. MetricsPasses(call, base, list, s, more)
    BY <2>5, Zenon DEF MetricsPasses
  <2> QED BY <2>6
<1> HIDE DEF G
<1>3. IsFiniteSet(1..n)
  BY FS_Interval
<1>4. 1..n \in G
  BY <1>1, <1>2, <1>3, SubsetsGrow
<1> QED BY <1>4 DEF G

\* The results of a fold from item to item.
MetricsSteps(call, base, list, f) ==
  /\ f[0] = base
  /\ \A i \in 1..Len(list) : f[i] = AddMetric(f[i - 1], call, list[i])

LEMMA MetricsFolds ==
  ASSUME NEW base, NEW list, Len(list) \in Nat, DOMAIN list = 1..Len(list), NEW call
  PROVE  \E f : MetricsSteps(call, base, list, f) /\ AddMetrics(base, call, list) = f[Len(list)]
<1> DEFINE n == Len(list)
           Fits(w) == w = [s \in SUBSET (1..n) |-> IF s = {} THEN base ELSE AddMetric(w[s \ {Max(s)}], call, list[Max(s)])]
           c == CHOOSE w : Fits(w)
<1>1. AddMetrics(base, call, list) = c[1..n]
  BY DEF AddMetrics, FoldLeft, MapThenFoldSet
<1>2. \A v : Fits(v) <=> MetricsPasses(call, base, list, 1..n, v)
  BY DEF MetricsPasses
<1>3. \E v : MetricsPasses(call, base, list, 1..n, v)
  BY MetricsPassesExist
<1> HIDE DEF Fits
<1>4. Fits(c)
  BY <1>2, <1>3, Zenon
<1> HIDE DEF c
<1> DEFINE f == [i \in 0..n |-> c[1..i]]
<1>5. \A s \in SUBSET (1..n) : c[s] = IF s = {} THEN base ELSE AddMetric(c[s \ {Max(s)}], call, list[Max(s)])
  BY <1>4, Zenon DEF Fits
<1>6. f[0] = base
  <2>1. 1..0 = {} /\ {} \in SUBSET (1..n) /\ 0 \in 0..n
    OBVIOUS
  <2>2. f[0] = c[{}]
    BY <2>1
  <2> QED BY <1>5, <2>1, <2>2, Zenon
<1>7. ASSUME NEW i \in 1..n PROVE f[i] = AddMetric(f[i - 1], call, list[i])
  <2>0. n \in Nat
    OBVIOUS
  <2> HIDE DEF n
  <2>1. 1..i \in SUBSET (1..n) /\ 1..i # {} /\ (1..i) \ {i} = 1..(i - 1) /\ i - 1 \in 0..n /\ i \in 0..n
    BY <2>0, FirstNumbers
  <2>2. Max(1..i) = i
    <3>1. 1..i \in SUBSET Int /\ i \in 1..i /\ \A k \in 1..i : k <= i
      OBVIOUS
    <3> QED BY <3>1, GreatestIsMax
  <2>3. c[1..i] = AddMetric(c[(1..i) \ {Max(1..i)}], call, list[Max(1..i)])
    BY <1>5, <2>1
  <2>4. c[1..i] = AddMetric(c[1..(i - 1)], call, list[i])
    BY <2>1, <2>2, <2>3
  <2>5. f[i] = c[1..i] /\ f[i - 1] = c[1..(i - 1)]
    BY <2>1
  <2> HIDE DEF f
  <2> QED BY <2>4, <2>5
<1>8. f[n] = c[1..n]
  OBVIOUS
<1> HIDE DEF f
<1>9. MetricsSteps(call, base, list, f)
  BY <1>6, <1>7 DEF MetricsSteps
<1> QED BY <1>1, <1>8, <1>9


\* Lists, one after the other.
FlatSteps(lists, f) ==
  f = [i \in 1..Len(lists) |-> IF i = 1 THEN lists[i] ELSE f[i - 1] \o lists[i]]

LEMMA FlatStepsExist ==
  ASSUME NEW S, NEW lists \in Seq(Seq(S)), lists # <<>>
  PROVE  \E f : FlatSteps(lists, f)
<1> DEFINE n == Len(lists)
           Partly(m, f) == f = [i \in 1..m |-> IF i = 1 THEN lists[i] ELSE f[i - 1] \o lists[i]]
           G == {m \in 0..n : \E f : Partly(m, f)}
<1>0. n \in Nat
  OBVIOUS
<1>1. 0 \in G
  <2> DEFINE none == [i \in 1..0 |-> lists[i]]
  <2>1. Partly(0, none)
    <3>1. 1..0 = {}
      OBVIOUS
    <3> QED BY <3>1
  <2> HIDE DEF Partly
  <2> QED BY <1>0, <2>1
<1>2. ASSUME NEW m \in 0..(n - 1), m \in G PROVE m + 1 \in G
  <2> HIDE DEF n
  <2>1. PICK f : Partly(m, f)
    BY <1>2
  <2> DEFINE Step(i) == IF i = 1 THEN lists[i] ELSE f[i - 1] \o lists[i]
             more == [i \in 1..(m + 1) |-> Step(i)]
  <2>2. \A i \in 1..m : f[i] = Step(i)
    BY <2>1, Zenon
  <2>3. 1..m \subseteq 1..(m + 1) /\ m \in Int
    BY <1>0
  <2>4. \A i \in 1..(m + 1) : more[i] = Step(i)
    OBVIOUS
  <2>5. more = [i \in 1..(m + 1) |-> more[i]]
    OBVIOUS
  <2> HIDE DEF more
  <2>6. \A i \in 1..m : f[i] = more[i]
    BY <2>2, <2>3, <2>4, Zenon
  <2>7. ASSUME NEW i \in 1..(m + 1) PROVE more[i] = IF i = 1 THEN lists[i] ELSE more[i - 1] \o lists[i]
    <3>1. i = 1 \/ i - 1 \in 1..m
      BY <2>3
    <3>2. i = 1 \/ f[i - 1] = more[i - 1]
      BY <2>6, <3>1, Zenon
    <3> QED BY <2>4, <3>2, Zenon
  <2>8. more = [i \in 1..(m + 1) |-> IF i = 1 THEN lists[i] ELSE more[i - 1] \o lists[i]]
    BY <2>5, <2>7, Zenon
  <2>9. m + 1 \in 0..n
    BY <1>0
  <2> QED BY <2>8, <2>9, Zenon
<1> HIDE DEF G
<1>3. \A i \in 0..n : i \in G
  <2> HIDE DEF n
  <2> QED BY <1>0, <1>1, <1>2, NatsGrow
<1>4. n \in G
  BY <1>0, <1>3
<1> QED BY <1>4 DEF FlatSteps, G

\* The flat list has the items of all of the lists.
LEMMA Flattened ==
  ASSUME NEW S, NEW lists \in Seq(Seq(S))
  PROVE  /\ FlattenSeq(lists) \in Seq(S)
         /\ \A i \in DOMAIN lists : \A j \in DOMAIN lists[i] :
              \E h \in DOMAIN FlattenSeq(lists) : FlattenSeq(lists)[h] = lists[i][j]
         /\ \A h \in DOMAIN FlattenSeq(lists) :
              \E i \in DOMAIN lists : \E j \in DOMAIN lists[i] : FlattenSeq(lists)[h] = lists[i][j]
<1> DEFINE n == Len(lists)
<1>1. CASE lists = <<>>
  <2>1. FlattenSeq(lists) = <<>>
    BY <1>1 DEF FlattenSeq
  <2>2. <<>> \in Seq(S) /\ DOMAIN <<>> = {}
    OBVIOUS
  <2> QED BY <1>1, <2>1, <2>2
<1>2. CASE lists # <<>>
  <2> DEFINE Fits(f) == f = [i \in 1..n |-> IF i = 1 THEN lists[i] ELSE f[i - 1] \o lists[i]]
             c == CHOOSE f : Fits(f)
  <2>1. n \in Nat \ {0} /\ DOMAIN lists = 1..n
    BY <1>2
  <2>2. FlattenSeq(lists) = c[n]
    BY <2>1 DEF FlattenSeq
  <2>3. Fits(c)
    <3>1. \E f : Fits(f)
      BY <1>2, FlatStepsExist DEF FlatSteps
    <3> HIDE DEF Fits
    <3> QED BY <3>1
  <2> HIDE DEF c
  <2>4. \A i \in 1..n : c[i] = IF i = 1 THEN lists[i] ELSE c[i - 1] \o lists[i]
    BY <2>3
  <2> HIDE DEF Fits, n
  <2> DEFINE Has(m) == /\ c[m] \in Seq(S)
                       /\ \A i \in 1..m : \A j \in DOMAIN lists[i] : \E h \in DOMAIN c[m] : c[m][h] = lists[i][j]
                       /\ \A h \in DOMAIN c[m] : \E i \in 1..m : \E j \in DOMAIN lists[i] : c[m][h] = lists[i][j]
             G == {m \in 0..n : m # 0 => Has(m)}
  <2>5. 0 \in G
    BY <2>1
  <2>6. ASSUME NEW m \in 0..(n - 1), m \in G PROVE m + 1 \in G
    <3>1. m + 1 \in 1..n /\ m + 1 \in 0..n /\ (m + 1) - 1 = m
      BY <2>1
    <3>2. CASE m = 0
      <4>1. c[1] = lists[1] /\ lists[1] \in Seq(S) /\ m + 1 = 1
        BY <2>1, <2>4, <3>1, <3>2
      <4>2. \A i \in 1..1 : i = 1
        OBVIOUS
      <4>3. Has(1)
        BY <4>1, <4>2
      <4> HIDE DEF Has
      <4> QED BY <3>1, <4>1, <4>3
    <3>3. CASE m # 0
      <4>1. Has(m)
        BY <2>6, <3>3
      <4>2. c[m + 1] = c[m] \o lists[m + 1]
        <5>1. m + 1 # 1
          BY <3>3, <2>1
        <5>2. c[m + 1] = c[(m + 1) - 1] \o lists[m + 1]
          BY <2>4, <3>1, <5>1, Zenon
        <5> QED BY <3>1, <5>2
      <4>3. c[m] \in Seq(S) /\ lists[m + 1] \in Seq(S)
        BY <2>1, <3>1, <4>1
      <4> DEFINE a == c[m]
                 b == lists[m + 1]
                 d == c[m + 1]
      <4>4. a \in Seq(S) /\ b \in Seq(S) /\ d = a \o b
        BY <4>2, <4>3
      <4>5. ASSUME NEW i \in 1..(m + 1), NEW j \in DOMAIN lists[i] PROVE \E h \in DOMAIN d : d[h] = lists[i][j]
        <5>1. CASE i = m + 1
          <6>0. j \in DOMAIN b
            BY <5>1
          <6> HIDE DEF a, b, d
          <6>1. Len(a) + j \in DOMAIN d /\ d[Len(a) + j] = b[j]
            BY <4>4, <6>0
          <6> QED BY <5>1, <6>1 DEF b
        <5>2. CASE i # m + 1
          <6>1. i \in 1..m
            BY <2>1, <5>2
          <6>2. PICK h \in DOMAIN a : a[h] = lists[i][j]
            BY <4>1, <6>1
          <6> HIDE DEF a, b, d, Has
          <6>3. h \in DOMAIN d /\ d[h] = a[h]
            BY <4>4, <6>2
          <6> QED BY <6>2, <6>3
        <5> QED BY <5>1, <5>2
      <4>6. ASSUME NEW h \in DOMAIN d PROVE \E i \in 1..(m + 1) : \E j \in DOMAIN lists[i] : d[h] = lists[i][j]
        <5>1. CASE h <= Len(a)
          <6>1. h \in DOMAIN a /\ d[h] = a[h]
            <7> HIDE DEF a, b, d
            <7> QED BY <4>4, <5>1
          <6>2. \E i \in 1..m : \E j \in DOMAIN lists[i] : a[h] = lists[i][j]
            BY <4>1, <6>1
          <6>3. 1..m \subseteq 1..(m + 1)
            BY <2>1
          <6> HIDE DEF a, b, d
          <6> QED BY <6>1, <6>2, <6>3
        <5>2. CASE ~(h <= Len(a))
          <6>1. h - Len(a) \in DOMAIN b /\ d[h] = b[h - Len(a)]
            <7> HIDE DEF a, b, d
            <7> QED BY <4>4, <5>2
          <6>2. m + 1 \in 1..(m + 1)
            BY <2>1
          <6> QED BY <6>1, <6>2
        <5> QED BY <5>1, <5>2
      <4>7. d \in Seq(S)
        <5> HIDE DEF a, b, d
        <5> QED BY <4>4
      <4>8. Has(m + 1)
        BY <4>5, <4>6, <4>7
      <4> HIDE DEF Has
      <4> QED BY <3>1, <4>8
    <3> QED BY <3>2, <3>3
  <2> HIDE DEF G
  <2>7. \A i \in 0..n : i \in G
    BY <2>1, <2>5, <2>6, NatsGrow
  <2>8. Has(n)
    BY <2>1, <2>7 DEF G
  <2> HIDE DEF Has
  <2>9. FlattenSeq(lists) = c[n] /\ DOMAIN lists = 1..n
    BY <2>1, <2>2
  <2> DEFINE flat == FlattenSeq(lists)
  <2>10. flat = c[n] /\ DOMAIN lists = 1..n
    BY <2>9
  <2> HIDE DEF flat
  <2>11. /\ flat \in Seq(S)
         /\ \A i \in 1..n : \A j \in DOMAIN lists[i] : \E h \in DOMAIN flat : flat[h] = lists[i][j]
         /\ \A h \in DOMAIN flat : \E i \in 1..n : \E j \in DOMAIN lists[i] : flat[h] = lists[i][j]
    BY <2>8, <2>10 DEF Has
  <2> QED BY <2>10, <2>11 DEF flat
<1> QED BY <1>1, <1>2

-----------------------------------------------------------------------------
(* The dictionary.                                                          *)

\* Strings, the empty one with the others.
Texts == STRING

Strings == Texts \cup {NoString}

Dicts == {d \in Seq(Texts) : IsInjective(d) /\ NoString \notin Range(d)}

\* A string has an id; the empty string always does.
Knows(d, string) == string = NoString \/ string \in Range(d)

\* A dictionary becomes another one by getting more strings.
Extends(d, e) ==
  d \in Dicts /\ e \in Dicts /\ Len(d) <= Len(e) /\ \A i \in 1..Len(d) : e[i] = d[i]

LEMMA AppendIs ==
  ASSUME NEW S, NEW list \in Seq(S), NEW x \in S
  PROVE  /\ Append(list, x) \in Seq(S) /\ Len(list) \in Nat
         /\ Len(Append(list, x)) = Len(list) + 1
         /\ DOMAIN list = 1..Len(list) /\ DOMAIN Append(list, x) = 1..(Len(list) + 1)
         /\ Append(list, x)[Len(list) + 1] = x
         /\ \A i \in 1..Len(list) : Append(list, x)[i] = list[i]
<1>1. Append(list, x) \in Seq(S) /\ Len(list) \in Nat
  OBVIOUS
<1>2. Len(Append(list, x)) = Len(list) + 1
  OBVIOUS
<1>3. DOMAIN list = 1..Len(list) /\ DOMAIN Append(list, x) = 1..Len(Append(list, x))
  BY <1>1
<1>4. Append(list, x)[Len(list) + 1] = x
  OBVIOUS
<1>5. \A i \in 1..Len(list) : Append(list, x)[i] = list[i]
  OBVIOUS
<1> QED BY <1>1, <1>2, <1>3, <1>4, <1>5

LEMMA EmptyDict == <<>> \in Dicts /\ Range(<<>>) = {}
BY DEF Dicts, Range, IsInjective

LEMMA InternIs ==
  ASSUME NEW d \in Dicts, NEW string \in Strings
  PROVE  /\ Extends(d, Intern(d, string))
         /\ Range(Intern(d, string)) = Range(d) \cup ({string} \ {NoString})
<1>0. d \in Seq(Texts) /\ DOMAIN d = 1..Len(d) /\ Len(d) \in Nat
  BY DEF Dicts
<1>1. Contains(d, string) <=> string \in Range(d)
  BY <1>0 DEF Contains, Range
<1>2. CASE string = NoString \/ Contains(d, string)
  <2>1. Intern(d, string) = d
    BY <1>2 DEF Intern
  <2>2. Range(d) = Range(d) \cup ({string} \ {NoString})
    BY <1>1, <1>2
  <2>3. Extends(d, d)
    BY <1>0 DEF Extends
  <2> QED BY <2>1, <2>2, <2>3
<1>3. CASE ~(string = NoString \/ Contains(d, string))
  <2> DEFINE e == Append(d, string)
  <2>1. Intern(d, string) = e
    BY <1>3 DEF Intern
  <2>2. e \in Seq(Texts) /\ Len(e) = Len(d) + 1 /\ DOMAIN e = 1..(Len(d) + 1) /\ e[Len(d) + 1] = string
        /\ \A i \in 1..Len(d) : e[i] = d[i]
    <3>1. string \in Texts
      BY <1>3 DEF Strings
    <3>2. e \in Seq(Texts) /\ Len(e) = Len(d) + 1 /\ DOMAIN e = 1..(Len(d) + 1) /\ e[Len(d) + 1] = string
      BY <1>0, <3>1, AppendIs
    <3>3. \A i \in 1..Len(d) : e[i] = d[i]
      BY <1>0, <3>1, AppendIs
    <3> QED BY <3>2, <3>3
  <2> HIDE DEF e
  <2>3. \A i \in DOMAIN e : i \in 1..Len(d) \/ i = Len(d) + 1
    BY <1>0, <2>2
  <2>4. \A i \in 1..Len(d) : i \in DOMAIN e
    BY <1>0, <2>2
  <2>5. Range(e) = Range(d) \cup {string}
    <3>1. Len(d) + 1 \in DOMAIN e
      BY <1>0, <2>2
    <3> QED BY <1>0, <2>2, <2>3, <2>4, <3>1 DEF Range
  <2>6. IsInjective(e)
    <3>1. \A i \in 1..Len(d) : d[i] # string
      BY <1>0, <1>1, <1>3 DEF Range
    <3>2. \A i, j \in 1..Len(d) : d[i] = d[j] => i = j
      BY <1>0 DEF Dicts, IsInjective
    <3> SUFFICES ASSUME NEW i \in DOMAIN e, NEW j \in DOMAIN e, e[i] = e[j] PROVE i = j
      BY DEF IsInjective
    <3> QED BY <2>2, <2>3, <3>1, <3>2
  <2>7. NoString \notin Range(e)
    BY <1>3, <2>5 DEF Dicts
  <2>8. Len(d) <= Len(e)
    BY <1>0, <2>2
  <2> QED BY <1>3, <2>1, <2>2, <2>5, <2>6, <2>7, <2>8 DEF Extends, Dicts
<1> QED BY <1>2, <1>3

LEMMA ExtendsOn ==
  ASSUME NEW d, NEW e, NEW f, Extends(d, e), Extends(e, f)
  PROVE  Extends(d, f)
<1>1. d \in Dicts /\ e \in Dicts /\ f \in Dicts /\ Len(d) <= Len(e) /\ Len(e) <= Len(f)
  BY DEF Extends
<1>2. Len(d) \in Nat /\ Len(e) \in Nat /\ Len(f) \in Nat
  BY <1>1 DEF Dicts
<1>3. Len(d) <= Len(f) /\ \A i \in 1..Len(d) : i \in 1..Len(e)
  BY <1>1, <1>2
<1> QED BY <1>1, <1>3 DEF Extends

LEMMA InternAllIs ==
  ASSUME NEW d \in Dicts, NEW strings \in Seq(Strings)
  PROVE  /\ Extends(d, InternAll(d, strings))
         /\ Range(InternAll(d, strings)) = Range(d) \cup (Range(strings) \ {NoString})
<1> DEFINE n == Len(strings)
<1>0. n \in Nat /\ DOMAIN strings = 1..n
  OBVIOUS
<1>1. PICK f : InternSteps(d, strings, f) /\ InternAll(d, strings) = f[n]
  BY <1>0, InternFolds
<1>2. f[0] = d /\ \A i \in 1..n : f[i] = Intern(f[i - 1], strings[i])
  BY <1>1 DEF InternSteps
<1> DEFINE Met(m) == {strings[i] : i \in 1..m} \ {NoString}
           G == {m \in 0..n : Extends(d, f[m]) /\ Range(f[m]) = Range(d) \cup Met(m)}
<1>3. 0 \in G
  <2>1. Met(0) = {}
    OBVIOUS
  <2>2. Extends(d, d)
    BY DEF Extends, Dicts
  <2> HIDE DEF Met
  <2> QED BY <1>0, <1>2, <2>1, <2>2
<1>4. ASSUME NEW m \in 0..(n - 1), m \in G PROVE m + 1 \in G
  <2>1. m + 1 \in 1..n /\ m + 1 \in 0..n /\ (m + 1) - 1 = m
    BY <1>0
  <2>2. f[m + 1] = Intern(f[m], strings[m + 1]) /\ strings[m + 1] \in Strings
    BY <1>2, <2>1
  <2>3. Extends(d, f[m]) /\ Range(f[m]) = Range(d) \cup Met(m) /\ f[m] \in Dicts
    BY <1>4 DEF Extends
  <2>4. Met(m + 1) = Met(m) \cup ({strings[m + 1]} \ {NoString})
    <3>1. \A i : i \in 1..(m + 1) <=> i \in 1..m \/ i = m + 1
      BY <1>0
    <3> QED BY <3>1
  <2> HIDE DEF Met
  <2>5. Extends(f[m], f[m + 1]) /\ Range(f[m + 1]) = Range(f[m]) \cup ({strings[m + 1]} \ {NoString})
    BY <2>2, <2>3, InternIs
  <2>6. Extends(d, f[m + 1])
    BY <2>3, <2>5, ExtendsOn
  <2>7. Range(f[m + 1]) = Range(d) \cup Met(m + 1)
    BY <2>3, <2>4, <2>5
  <2> QED BY <2>1, <2>6, <2>7
<1>5. Met(n) = Range(strings) \ {NoString}
  BY <1>0 DEF Range
<1>6. \A i \in 0..n : i \in G
  <2> HIDE DEF G, n
  <2> QED BY <1>0, <1>3, <1>4, NatsGrow
<1>7. n \in G
  BY <1>0, <1>6
<1> QED BY <1>1, <1>5, <1>7

LEMMA IdIs ==
  ASSUME NEW d \in Dicts, NEW string, Knows(d, string)
  PROVE  /\ Id(d, string) \in 0..Len(d)
         /\ Lookup(d, Id(d, string)) = string
         /\ Id(d, string) = 0 <=> string = NoString
         /\ string # NoString => Id(d, string) \in 1..Len(d) /\ d[Id(d, string)] = string
<1>0. d \in Seq(Texts) /\ DOMAIN d = 1..Len(d) /\ Len(d) \in Nat
  BY DEF Dicts
<1>1. CASE string = NoString
  <2>1. Id(d, string) = 0
    BY <1>1 DEF Id
  <2>2. 0 \notin DOMAIN d /\ 0 \in 0..Len(d)
    BY <1>0
  <2> QED BY <1>1, <2>1, <2>2 DEF Lookup
<1>2. CASE string # NoString
  <2>1. \E i \in DOMAIN d : d[i] = string
    BY <1>2 DEF Knows, Range
  <2>2. Id(d, string) \in DOMAIN d /\ d[Id(d, string)] = string
    BY <1>2, <2>1 DEF Id
  <2>3. Id(d, string) \in 0..Len(d) /\ Id(d, string) # 0
    BY <1>0, <2>2
  <2> QED BY <1>0, <1>2, <2>2, <2>3 DEF Lookup
<1> QED BY <1>1, <1>2

LEMMA LookupIs ==
  ASSUME NEW d \in Dicts, NEW i \in 0..Len(d)
  PROVE  /\ Lookup(d, i) \in Strings /\ Knows(d, Lookup(d, i))
         /\ Id(d, Lookup(d, i)) = i
         /\ Lookup(d, i) = NoString <=> i = 0
<1>0. d \in Seq(Texts) /\ DOMAIN d = 1..Len(d) /\ Len(d) \in Nat
  BY DEF Dicts
<1>1. CASE i = 0
  <2>1. i \notin DOMAIN d
    BY <1>0, <1>1
  <2> QED BY <1>1, <2>1 DEF Lookup, Id, Knows, Strings
<1>2. CASE i # 0
  <2>1. i \in DOMAIN d
    BY <1>0, <1>2
  <2>2. Lookup(d, i) = d[i] /\ d[i] \in Texts /\ d[i] \in Range(d)
    BY <1>0, <2>1 DEF Lookup, Range
  <2>3. d[i] # NoString
    BY <2>2 DEF Dicts
  <2>4. \A j \in DOMAIN d : d[j] = d[i] => j = i
    BY <2>1 DEF Dicts, IsInjective
  <2>5. Id(d, d[i]) = i
    BY <2>1, <2>3, <2>4 DEF Id
  <2> QED BY <1>2, <2>2, <2>3, <2>5 DEF Knows, Strings
<1> QED BY <1>1, <1>2

\* More strings change no ids.
LEMMA IdsStay ==
  ASSUME NEW d, NEW e, Extends(d, e)
  PROVE  /\ Len(d) \in Nat /\ Len(e) \in Nat /\ 0..Len(d) \subseteq 0..Len(e) /\ 1..Len(d) \subseteq 1..Len(e)
         /\ \A i \in 0..Len(d) : Lookup(e, i) = Lookup(d, i)
         /\ \A string : Knows(d, string) => Knows(e, string) /\ Id(e, string) = Id(d, string)
<1>0. d \in Dicts /\ e \in Dicts /\ Len(d) <= Len(e)
  BY DEF Extends
<1>1. Len(d) \in Nat /\ Len(e) \in Nat /\ DOMAIN d = 1..Len(d) /\ DOMAIN e = 1..Len(e)
  BY <1>0 DEF Dicts
<1>2. 0..Len(d) \subseteq 0..Len(e) /\ 1..Len(d) \subseteq 1..Len(e)
  BY <1>0, <1>1
<1>3. ASSUME NEW i \in 0..Len(d) PROVE Lookup(e, i) = Lookup(d, i)
  <2>1. CASE i = 0
    <3>1. i \notin DOMAIN d /\ i \notin DOMAIN e
      BY <1>1, <2>1
    <3> QED BY <3>1 DEF Lookup
  <2>2. CASE i # 0
    <3>1. i \in 1..Len(d) /\ i \in 1..Len(e)
      BY <1>1, <1>2, <2>2
    <3> QED BY <1>1, <3>1 DEF Lookup, Extends
  <2> QED BY <2>1, <2>2
<1>4. ASSUME NEW string, Knows(d, string) PROVE Knows(e, string) /\ Id(e, string) = Id(d, string)
  <2>1. Id(d, string) \in 0..Len(d) /\ Lookup(d, Id(d, string)) = string
    BY <1>0, <1>4, IdIs
  <2>2. Lookup(e, Id(d, string)) = string /\ Id(d, string) \in 0..Len(e)
    BY <1>2, <1>3, <2>1
  <2> QED BY <1>0, <2>2, LookupIs
<1> QED BY <1>1, <1>2, <1>3, <1>4

-----------------------------------------------------------------------------
(* Labels.                                                                  *)

LabelSets == Range(Canonical)

HasLabels(d, labels) == \A name \in DOMAIN labels : Knows(d, name) /\ Knows(d, labels[name])

\* Every label is one of the pairs, once.
PairsOf(labels, pairs) ==
  /\ pairs \in Seq(Texts \X Texts)
  /\ \A i \in 1..Len(pairs) : pairs[i][1] \in DOMAIN labels /\ pairs[i][2] = labels[pairs[i][1]]
  /\ \A i, j \in 1..Len(pairs) : pairs[i][1] = pairs[j][1] => i = j
  /\ \A name \in DOMAIN labels : \E i \in 1..Len(pairs) : pairs[i][1] = name

LEMMA LabelSetsAre ==
  ASSUME NEW labels \in LabelSets
  PROVE  /\ DOMAIN labels \subseteq Range(NameOrder)
         /\ labels = [name \in DOMAIN labels |-> labels[name]]
         /\ \A name \in DOMAIN labels : name \in Texts /\ labels[name] \in Texts
<1>1. labels \in [DOMAIN labels -> Texts] /\ DOMAIN labels \subseteq Range(NameOrder)
  BY StoreAssumption DEF LabelSets, Texts
<1>2. NameOrder \in Seq(Texts)
  BY StoreAssumption DEF Texts
<1>3. \A name \in Range(NameOrder) : name \in Texts
  BY <1>2 DEF Range
<1> QED BY <1>1, <1>3

LEMMA LabelPairsAre ==
  ASSUME NEW labels \in LabelSets
  PROVE  PairsOf(labels, LabelPairs(labels))
<1> DEFINE place(name) == CHOOSE i \in DOMAIN NameOrder : NameOrder[i] = name
           set == DOMAIN labels
           before == {pair \in set \X set : place(pair[1]) < place(pair[2])}
           names == Ranked(set, before)
<1>0. /\ NameOrder \in Seq(Texts) /\ DOMAIN NameOrder = 1..Len(NameOrder) /\ Len(NameOrder) \in Nat
  <2>1. NameOrder \in Seq(Texts)
    BY StoreAssumption DEF Texts
  <2> QED BY <2>1
<1>1. \A name \in set : name \in Texts /\ labels[name] \in Texts /\ name \in Range(NameOrder)
  BY LabelSetsAre
<1>2. ASSUME NEW name \in set PROVE place(name) \in 1..Len(NameOrder) /\ NameOrder[place(name)] = name
  <2>1. \E i \in DOMAIN NameOrder : NameOrder[i] = name
    BY <1>1 DEF Range
  <2> QED BY <1>0, <2>1
<1> HIDE DEF place
<1>3. \A x, y \in set : <<x, y>> \in before <=> place(x) < place(y)
  OBVIOUS
<1> HIDE DEF before
<1>4. Orders(before, set)
  <2>1. \A x \in set : place(x) \in Int
    BY <1>0, <1>2
  <2>2. \A x, y \in set : place(x) = place(y) => x = y
    BY <1>2
  <2>3. \A x, y \in set : x = y \/ place(x) < place(y) \/ place(y) < place(x)
    BY <2>1, <2>2
  <2>4. \A x \in set : <<x, x>> \notin before
    BY <1>3, <2>1
  <2>5. \A x, y, z \in set : <<x, y>> \in before /\ <<y, z>> \in before => <<x, z>> \in before
    <3>1. ASSUME NEW x \in set, NEW y \in set, NEW z \in set, <<x, y>> \in before, <<y, z>> \in before
          PROVE  <<x, z>> \in before
      <4>1. place(x) < place(y) /\ place(y) < place(z) /\ place(x) \in Int /\ place(y) \in Int /\ place(z) \in Int
        BY <1>3, <2>1, <3>1
      <4>2. place(x) < place(z)
        BY <4>1
      <4> QED BY <1>3, <4>2
    <3> QED BY <3>1
  <2>6. \A x, y \in set : x = y \/ <<x, y>> \in before \/ <<y, x>> \in before
    <3>1. ASSUME NEW x \in set, NEW y \in set PROVE x = y \/ <<x, y>> \in before \/ <<y, x>> \in before
      <4>1. (<<x, y>> \in before <=> place(x) < place(y)) /\ (<<y, x>> \in before <=> place(y) < place(x))
        BY <1>3
      <4>2. x = y \/ place(x) < place(y) \/ place(y) < place(x)
        BY <2>3
      <4> QED BY <4>1, <4>2, Zenon
    <3> QED BY <3>1, Zenon
  <2> QED BY <2>4, <2>5, <2>6 DEF Orders
<1>5. IsFiniteSet(set)
  <2> DEFINE f == [name \in set |-> place(name)]
  <2>1. \A x, y \in set : place(x) = place(y) => x = y
    BY <1>2
  <2>2. f \in Injection(set, 1..Len(NameOrder))
    BY <1>2, <2>1 DEF Injection, IsInjective
  <2>3. IsFiniteSet(1..Len(NameOrder))
    BY <1>0, FS_Interval
  <2> HIDE DEF f
  <2> QED BY <2>2, <2>3, FS_Injection
<1>6. InOrder(names, set, before)
  <2> HIDE DEF names, set
  <2>1. InOrder(Ranked(set, before), set, before)
    BY <1>4, <1>5, RankedInOrder
  <2> QED BY <2>1 DEF names
<1>7. LabelPairs(labels) = [i \in DOMAIN names |-> <<names[i], labels[names[i]]>>]
  BY DEF LabelPairs, names, before, place
<1> DEFINE pairs == LabelPairs(labels)
<1> HIDE DEF names
<1>8. names \in Seq(set) /\ DOMAIN names = 1..Len(names) /\ Len(names) \in Nat
  BY <1>6 DEF InOrder
<1>9. \A i \in 1..Len(names) : names[i] \in set
  BY <1>8
<1>10. pairs \in Seq(Texts \X Texts) /\ Len(pairs) = Len(names)
  BY <1>1, <1>7, <1>8, <1>9
<1>11. \A i \in 1..Len(names) : pairs[i] = <<names[i], labels[names[i]]>>
  BY <1>7, <1>8
<1> HIDE DEF pairs
<1>12. \A i \in 1..Len(names) : pairs[i][1] = names[i] /\ pairs[i][2] = labels[names[i]]
  BY <1>11
<1>13. \A i, j \in 1..Len(names) : names[i] = names[j] => i = j
  <2>1. \A i, j \in 1..Len(names) : i < j => <<names[i], names[j]>> \in before
    BY <1>6 DEF InOrder
  <2>2. \A i, j \in 1..Len(names) : i < j => names[i] # names[j]
    BY <1>4, <1>9, <2>1 DEF Orders
  <2>3. \A i, j \in 1..Len(names) : i = j \/ i < j \/ j < i
    BY <1>8
  <2> QED BY <2>2, <2>3
<1>14. \A name \in set : \E i \in 1..Len(names) : names[i] = name
  BY <1>6 DEF InOrder
<1>15. PairsOf(labels, pairs)
  BY <1>9, <1>10, <1>12, <1>13, <1>14 DEF PairsOf
<1> QED BY <1>15 DEF pairs

LEMMA PostingsTyped ==
  ASSUME NEW labels \in LabelSets, NEW d \in Dicts, HasLabels(d, labels)
  PROVE  /\ Postings(d, labels) \in Seq((0..Len(d)) \X (0..Len(d)))
         /\ Len(Postings(d, labels)) = Len(LabelPairs(labels))
         /\ \A i \in 1..Len(LabelPairs(labels)) :
              /\ Lookup(d, Postings(d, labels)[i][1]) = LabelPairs(labels)[i][1]
              /\ Lookup(d, Postings(d, labels)[i][2]) = LabelPairs(labels)[i][2]
<1> DEFINE pairs == LabelPairs(labels)
           ids == Postings(d, labels)
<1>1. PairsOf(labels, pairs)
  BY LabelPairsAre
<1>2. ids = [i \in DOMAIN pairs |-> <<Id(d, pairs[i][1]), Id(d, pairs[i][2])>>]
  BY DEF Postings
<1> HIDE DEF ids, pairs
<1>3. pairs \in Seq(Texts \X Texts) /\ DOMAIN pairs = 1..Len(pairs) /\ Len(pairs) \in Nat
  BY <1>1 DEF PairsOf
<1>4. ASSUME NEW i \in 1..Len(pairs)
      PROVE  /\ Id(d, pairs[i][1]) \in 0..Len(d) /\ Lookup(d, Id(d, pairs[i][1])) = pairs[i][1]
             /\ Id(d, pairs[i][2]) \in 0..Len(d) /\ Lookup(d, Id(d, pairs[i][2])) = pairs[i][2]
  <2>1. pairs[i][1] \in DOMAIN labels /\ pairs[i][2] = labels[pairs[i][1]]
    BY <1>1 DEF PairsOf
  <2>2. Knows(d, pairs[i][1]) /\ Knows(d, pairs[i][2])
    BY <2>1 DEF HasLabels
  <2> QED BY <2>2, IdIs
<1>5. ids \in Seq((0..Len(d)) \X (0..Len(d))) /\ Len(ids) = Len(pairs)
  BY <1>2, <1>3, <1>4
<1>6. \A i \in 1..Len(pairs) : ids[i] = <<Id(d, pairs[i][1]), Id(d, pairs[i][2])>>
  BY <1>2, <1>3
<1>7. \A i \in 1..Len(pairs) : ids[i][1] = Id(d, pairs[i][1]) /\ ids[i][2] = Id(d, pairs[i][2])
  BY <1>6
<1> QED BY <1>4, <1>5, <1>7 DEF ids, pairs

\* What is decoded is what was encoded.
LEMMA LabelsAgain ==
  ASSUME NEW labels \in LabelSets, NEW d \in Dicts, HasLabels(d, labels)
  PROVE  Labels(d, Postings(d, labels)) = labels
<1> DEFINE pairs == LabelPairs(labels)
           ids == Postings(d, labels)
           n == Len(pairs)
           of(name) == {i \in DOMAIN ids : Lookup(d, ids[i][1]) = name}
           all == {Lookup(d, ids[i][1]) : i \in DOMAIN ids}
<1>1. PairsOf(labels, pairs)
  BY LabelPairsAre
<1>2. /\ ids \in Seq((0..Len(d)) \X (0..Len(d))) /\ Len(ids) = n
      /\ \A i \in 1..n : Lookup(d, ids[i][1]) = pairs[i][1] /\ Lookup(d, ids[i][2]) = pairs[i][2]
  BY PostingsTyped
<1>3. Labels(d, ids) = [name \in all |-> Lookup(d, ids[Max(of(name))][2])]
  BY DEF Labels
<1> HIDE DEF ids, pairs, n
<1>4. DOMAIN ids = 1..n
  BY <1>2
<1>5. n \in Nat
  BY <1>2
<1>6. all = DOMAIN labels
  <2>1. \A i \in 1..n : pairs[i][1] \in DOMAIN labels
    BY <1>1 DEF PairsOf, n
  <2>2. \A name \in DOMAIN labels : \E i \in 1..n : pairs[i][1] = name
    BY <1>1 DEF PairsOf, n
  <2>3. \A i \in DOMAIN ids : Lookup(d, ids[i][1]) = pairs[i][1]
    BY <1>2, <1>4
  <2>4. all = {pairs[i][1] : i \in 1..n}
    BY <1>4, <2>3, Zenon
  <2> HIDE DEF all
  <2> QED BY <2>1, <2>2, <2>4
<1>7. ASSUME NEW name \in DOMAIN labels PROVE Lookup(d, ids[Max(of(name))][2]) = labels[name]
  <2>1. PICK i \in 1..n : pairs[i][1] = name
    BY <1>1 DEF PairsOf, n
  <2>2. \A j \in 1..n : pairs[j][1] = name => j = i
    BY <1>1, <2>1 DEF PairsOf, n
  <2>3. of(name) = {i}
    BY <1>2, <1>4, <2>1, <2>2
  <2> HIDE DEF of
  <2>4. Max(of(name)) = i
    <3>1. {i} \in SUBSET Int /\ i \in {i} /\ \A k \in {i} : k <= i
      BY <1>5
    <3> QED BY <2>3, <3>1, GreatestIsMax
  <2>5. pairs[i][2] = labels[name]
    BY <1>1, <2>1 DEF PairsOf, n
  <2> QED BY <1>2, <2>4, <2>5
<1> HIDE DEF all, of
<1>8. labels = [name \in DOMAIN labels |-> labels[name]]
  BY LabelSetsAre
<1> QED BY <1>3, <1>6, <1>7, <1>8 DEF ids

LEMMA PostingsStay ==
  ASSUME NEW labels \in LabelSets, NEW d, NEW e, Extends(d, e), HasLabels(d, labels)
  PROVE  HasLabels(e, labels) /\ Postings(e, labels) = Postings(d, labels)
<1> DEFINE pairs == LabelPairs(labels)
<1>1. PairsOf(labels, pairs)
  BY LabelPairsAre
<1>2. \A string : Knows(d, string) => Knows(e, string) /\ Id(e, string) = Id(d, string)
  BY IdsStay
<1>3. HasLabels(e, labels)
  BY <1>2 DEF HasLabels
<1> HIDE DEF pairs
<1>4. pairs \in Seq(Texts \X Texts) /\ DOMAIN pairs = 1..Len(pairs)
  BY <1>1 DEF PairsOf
<1>5. ASSUME NEW i \in DOMAIN pairs PROVE Id(e, pairs[i][1]) = Id(d, pairs[i][1]) /\ Id(e, pairs[i][2]) = Id(d, pairs[i][2])
  <2>1. pairs[i][1] \in DOMAIN labels /\ pairs[i][2] = labels[pairs[i][1]]
    BY <1>1, <1>4 DEF PairsOf
  <2> QED BY <1>2, <2>1 DEF HasLabels
<1>6. Postings(e, labels) = Postings(d, labels)
  BY <1>5 DEF Postings, pairs
<1> QED BY <1>3, <1>6

\* Interning labels makes them known, and more strings that are not among them are not.
LEMMA LabelsInterned ==
  ASSUME NEW labels \in LabelSets, NEW d \in Dicts
  PROVE  /\ Extends(d, InternAll(d, FlattenSeq(LabelPairs(labels))))
         /\ HasLabels(InternAll(d, FlattenSeq(LabelPairs(labels))), labels)
<1> DEFINE pairs == LabelPairs(labels)
           flat == FlattenSeq(pairs)
           e == InternAll(d, flat)
<1>1. PairsOf(labels, pairs)
  BY LabelPairsAre
<1> HIDE DEF pairs
<1>2. pairs \in Seq(Texts \X Texts) /\ DOMAIN pairs = 1..Len(pairs) /\ Len(pairs) \in Nat
  BY <1>1 DEF PairsOf
<1>3. ASSUME NEW i \in 1..Len(pairs) PROVE pairs[i] \in Seq(Strings) /\ DOMAIN pairs[i] = 1..2
  <2>1. PICK a \in Texts, b \in Texts : pairs[i] = <<a, b>>
    BY <1>2
  <2>2. a \in Strings /\ b \in Strings
    BY DEF Strings
  <2> QED BY <2>1, <2>2
<1>4. pairs \in Seq(Seq(Strings))
  BY <1>2, <1>3
<1>5. /\ flat \in Seq(Strings)
      /\ \A i \in DOMAIN pairs : \A j \in DOMAIN pairs[i] : \E h \in DOMAIN flat : flat[h] = pairs[i][j]
  BY <1>4, Flattened
<1> HIDE DEF flat
<1>6. Extends(d, e) /\ Range(e) = Range(d) \cup (Range(flat) \ {NoString})
  BY <1>5, InternAllIs
<1> HIDE DEF e
<1>7. ASSUME NEW name \in DOMAIN labels PROVE Knows(e, name) /\ Knows(e, labels[name])
  <2>1. PICK i \in 1..Len(pairs) : pairs[i][1] = name
    BY <1>1 DEF PairsOf
  <2>2. pairs[i][2] = labels[name]
    BY <1>1, <2>1 DEF PairsOf
  <2>3. 1 \in DOMAIN pairs[i] /\ 2 \in DOMAIN pairs[i]
    BY <1>3
  <2>4. i \in DOMAIN pairs
    BY <1>2
  <2>5. PICK a \in DOMAIN flat : flat[a] = pairs[i][1]
    BY <1>5, <2>3, <2>4
  <2>6. PICK b \in DOMAIN flat : flat[b] = pairs[i][2]
    BY <1>5, <2>3, <2>4
  <2>7. name \in Range(flat) /\ labels[name] \in Range(flat)
    BY <2>1, <2>2, <2>5, <2>6, Zenon DEF Range
  <2> QED BY <1>6, <2>7 DEF Knows
<1> QED BY <1>6, <1>7 DEF HasLabels, e, flat, pairs

-----------------------------------------------------------------------------
(* Series.                                                                  *)

SeriesKind == [timestamps : Seq(Int), values : Seq(Int), constantValue : Int, constantCount : Nat]

SeriesOK(s) ==
  /\ s \in SeriesKind
  /\ Len(s.timestamps) = Len(s.values)
  /\ \A i, j \in 1..Len(s.timestamps) : i < j => s.timestamps[i] < s.timestamps[j]
  /\ s.constantCount = RunOf(s.values)
  /\ s.values # <<>> => s.constantValue = Last(s.values)

PointsOf(s) == {<<s.timestamps[j], s.values[j]>> : j \in DOMAIN s.timestamps}

\* The last n of some values are the same, and no more.
EndsInRun(values, n) ==
  /\ n \in 1..Len(values)
  /\ \A i \in (Len(values) - n + 1)..Len(values) : values[i] = values[Len(values)]
  /\ n = Len(values) \/ values[Len(values) - n] # values[Len(values)]

LEMMA RunIs ==
  ASSUME NEW values \in Seq(Int), NEW n, EndsInRun(values, n)
  PROVE  RunOf(values) = n
<1> DEFINE len == Len(values)
           Same(m) == \A i \in (len - m + 1)..len : values[i] = values[len]
           S == {m \in 1..len : Same(m)}
<1>0. len \in Nat /\ n \in 1..len /\ values # <<>>
  BY DEF EndsInRun
<1>1. RunOf(values) = Max(S)
  BY <1>0 DEF RunOf, Last
<1>2. n \in S
  BY DEF EndsInRun
<1>3. ASSUME NEW m \in S, ~(m <= n) PROVE FALSE
  <2>1. m \in 1..len /\ n < m /\ Same(m)
    BY <1>0, <1>3
  <2>2. len - n \in (len - m + 1)..len /\ n # len
    BY <1>0, <2>1
  <2>3. values[len - n] = values[len]
    BY <2>1, <2>2
  <2> QED BY <2>2, <2>3 DEF EndsInRun
<1>4. S \in SUBSET Int
  OBVIOUS
<1> HIDE DEF S
<1>5. Max(S) = n
  BY <1>2, <1>3, <1>4, GreatestIsMax
<1> QED BY <1>1, <1>5

LEMMA RunHas ==
  ASSUME NEW values \in Seq(Int), values # <<>>
  PROVE  EndsInRun(values, RunOf(values))
<1> DEFINE len == Len(values)
           Same(m) == \A i \in (len - m + 1)..len : values[i] = values[len]
           S == {m \in 1..len : Same(m)}
           n == Max(S)
<1>0. len \in Nat \ {0}
  OBVIOUS
<1>1. RunOf(values) = n
  BY <1>0 DEF RunOf, Last
<1>2. 1 \in S
  <2>1. \A i \in (len - 1 + 1)..len : i = len
    BY <1>0
  <2> QED BY <1>0, <2>1
<1>3. S \in SUBSET (1..len) /\ S # {}
  BY <1>2
<1>4. n \in S /\ \A k \in S : k <= n
  <2> HIDE DEF S
  <2> QED BY <1>0, <1>3, GreatestOfFirst
<1> HIDE DEF n
<1>5. n \in 1..len /\ Same(n)
  BY <1>4
<1>6. ASSUME n # len, values[len - n] = values[len] PROVE FALSE
  <2>1. n + 1 \in 1..len
    BY <1>0, <1>5, <1>6
  <2>2. \A i \in (len - (n + 1) + 1)..len : i = len - n \/ i \in (len - n + 1)..len
    BY <1>0, <1>5
  <2>3. Same(n + 1)
    BY <1>5, <1>6, <2>2
  <2>4. n + 1 \in S
    BY <2>1, <2>3
  <2> QED BY <1>4, <1>5, <2>4
<1> QED BY <1>1, <1>5, <1>6 DEF EndsInRun

\* One value more.
LEMMA RunGrows ==
  ASSUME NEW values \in Seq(Int), NEW value \in Int
  PROVE  RunOf(Append(values, value)) =
           IF values # <<>> /\ Last(values) = value THEN RunOf(values) + 1 ELSE 1
<1> DEFINE more == Append(values, value)
           len == Len(values)
<1>0. more \in Seq(Int) /\ Len(more) = len + 1 /\ len \in Nat /\ more[len + 1] = value /\ \A i \in 1..len : more[i] = values[i]
  BY AppendIs
<1> HIDE DEF more
<1>1. CASE values # <<>> /\ Last(values) = value
  <2> DEFINE n == RunOf(values)
  <2>1. EndsInRun(values, n) /\ values[len] = value /\ len # 0
    BY <1>1, RunHas DEF Last
  <2> HIDE DEF n
  <2>2. n \in 1..len
    BY <2>1 DEF EndsInRun
  <2>3. \A i \in (len + 1 - (n + 1) + 1)..(len + 1) : i = len + 1 \/ (i \in (len - n + 1)..len /\ i \in 1..len)
    <3>1. len \in Int /\ n \in Int /\ 1 <= n /\ n <= len
      BY <1>0, <2>2
    <3> HIDE DEF len
    <3>2. len + 1 - (n + 1) + 1 = len - n + 1
      BY <3>1
    <3> SUFFICES ASSUME NEW i \in (len - n + 1)..(len + 1) PROVE i = len + 1 \/ (i \in (len - n + 1)..len /\ i \in 1..len)
      BY <3>2
    <3> QED BY <3>1
  <2>4. \A i \in (len - n + 1)..len : values[i] = value
    BY <2>1 DEF EndsInRun
  <2>5. \A i \in (len + 1 - (n + 1) + 1)..(len + 1) : more[i] = value
    BY <1>0, <2>3, <2>4
  <2>6. n + 1 = len + 1 \/ (len + 1 - (n + 1) = len - n /\ len - n \in 1..len /\ values[len - n] # value)
    <3>1. len \in Int /\ n \in Int /\ 1 <= n /\ n <= len
      BY <1>0, <2>2
    <3>2. n = len \/ values[len - n] # value
      BY <2>1 DEF EndsInRun
    <3> HIDE DEF len
    <3> QED BY <3>1, <3>2
  <2>7. n + 1 = len + 1 \/ more[len + 1 - (n + 1)] # value
    BY <1>0, <2>6
  <2>8. EndsInRun(more, n + 1)
    <3>1. n + 1 \in 1..(len + 1)
      BY <1>0, <2>2
    <3>2. Len(more) = len + 1 /\ more[Len(more)] = value
      BY <1>0
    <3>0. len \in Int /\ n \in Int
      BY <1>0, <2>2
    <3> HIDE DEF len
    <3> DEFINE m == Len(more)
               k == n + 1
    <3>3. m = len + 1 /\ more[m] = value /\ k = n + 1
      BY <3>2
    <3> HIDE DEF m, k
    <3>4. /\ k \in 1..m
          /\ \A i \in (m - k + 1)..m : more[i] = value
          /\ k = m \/ more[m - k] # value
      <4>1. \A i \in (m - k + 1)..m : more[i] = value
        BY <2>5, <3>0, <3>3
      <4>2. k = m \/ more[m - k] # value
        BY <2>7, <3>0, <3>3
      <4> QED BY <3>1, <3>3, <4>1, <4>2
    <3>5. /\ k \in 1..m
          /\ \A i \in (m - k + 1)..m : more[i] = more[m]
          /\ k = m \/ more[m - k] # more[m]
      BY <3>3, <3>4
    <3> QED BY <3>5 DEF EndsInRun, k, m
  <2>9. RunOf(more) = n + 1
    BY <1>0, <2>8, RunIs
  <2> QED BY <1>1, <2>9 DEF n, more
<1>2. CASE ~(values # <<>> /\ Last(values) = value)
  <2>1. len = 0 \/ values[len] # value
    BY <1>2 DEF Last
  <2>2. \A i \in (len + 1 - 1 + 1)..(len + 1) : i = len + 1
    BY <1>0
  <2>3. 1 = len + 1 \/ (len + 1 - 1 = len /\ len \in 1..len)
    BY <1>0
  <2>4. EndsInRun(more, 1)
    BY <1>0, <2>1, <2>2, <2>3 DEF EndsInRun
  <2>5. RunOf(more) = 1
    BY <1>0, <2>4, RunIs
  <2> QED BY <1>2, <2>5 DEF more
<1> QED BY <1>1, <1>2

\* The length of the run that ends some of the values, and begins after the first of them.
LEMMA RunOfRest ==
  ASSUME NEW values \in Seq(Int), NEW n \in 0..(Len(values) - 1)
  PROVE  RunOf(SubSeq(values, n + 1, Len(values))) = Min({RunOf(values), Len(values) - n})
<1> DEFINE len == Len(values)
           rest == SubSeq(values, n + 1, len)
           run == RunOf(values)
           least == Min({run, len - n})
<1>0. len \in Nat \ {0} /\ values # <<>>
  OBVIOUS
<1>1. EndsInRun(values, run)
  BY <1>0, RunHas
<1>2. rest \in Seq(Int) /\ Len(rest) = len - n /\ \A i \in 1..(len - n) : rest[i] = values[n + i]
  <2>1. n + 1 \in Int /\ len \in Int /\ \A i \in (n + 1)..len : values[i] \in Int
    BY <1>0
  <2>2. /\ rest \in Seq(Int) /\ Len(rest) = IF n + 1 <= len THEN len - (n + 1) + 1 ELSE 0
        /\ \A i \in 1..(len - (n + 1) + 1) : rest[i] = values[(n + 1) + i - 1]
    <3> HIDE DEF len
    <3> QED BY <2>1, SubSeqProperties
  <2>3. n + 1 <= len /\ len - (n + 1) + 1 = len - n /\ \A i \in 1..(len - n) : (n + 1) + i - 1 = n + i
    BY <1>0
  <2> QED BY <2>2, <2>3
<1> HIDE DEF rest, run, least
<1>3. run \in 1..len
  BY <1>1 DEF EndsInRun
<1>4. least = IF run <= len - n THEN run ELSE len - n
  <2>1. {run, len - n} \in SUBSET Int
    BY <1>0, <1>3
  <2>2. CASE run <= len - n
    <3>1. \A k \in {run, len - n} : run <= k
      BY <1>3, <2>2
    <3> QED BY <2>1, <2>2, <3>1, LeastIsMin DEF least
  <2>3. CASE ~(run <= len - n)
    <3>1. \A k \in {run, len - n} : len - n <= k
      BY <1>0, <1>3, <2>3
    <3> QED BY <2>1, <2>3, <3>1, LeastIsMin DEF least
  <2> QED BY <2>2, <2>3
<1>5. least \in 1..(len - n) /\ least <= run
  BY <1>0, <1>3, <1>4
<1>6. \A i \in ((len - n) - least + 1)..(len - n) : rest[i] = rest[len - n]
  <2>1. \A i \in ((len - n) - least + 1)..(len - n) : i \in 1..(len - n) /\ n + i \in (len - run + 1)..len
    <3>1. len \in Int /\ n \in Int /\ run \in Int /\ least \in Int /\ 0 <= n /\ n < len /\ 1 <= run /\ run <= len
          /\ 1 <= least /\ least <= len - n /\ least <= run
      BY <1>0, <1>3, <1>5
    <3> HIDE DEF len
    <3> QED BY <3>1
  <2>2. \A i \in (len - run + 1)..len : values[i] = values[len]
    BY <1>1 DEF EndsInRun
  <2>3. rest[len - n] = values[len]
    <3>1. len - n \in 1..(len - n) /\ n + (len - n) = len
      BY <1>0
    <3> QED BY <1>2, <3>1
  <2> QED BY <1>2, <2>1, <2>2, <2>3
<1>7. least = len - n \/ rest[(len - n) - least] # rest[len - n]
  <2> SUFFICES ASSUME least # len - n PROVE rest[(len - n) - least] # rest[len - n]
    OBVIOUS
  <2>1. least = run /\ run < len - n
    BY <1>0, <1>3, <1>4
  <2>2. values[len - run] # values[len]
    BY <1>0, <1>1, <1>3, <2>1 DEF EndsInRun
  <2>3. (len - n) - least \in 1..(len - n) /\ n + ((len - n) - least) = len - run /\ len - n \in 1..(len - n) /\ n + (len - n) = len
    <3>1. len \in Int /\ n \in Int /\ run \in Int /\ 0 <= n /\ n < len /\ 1 <= run /\ run < len - n
      BY <1>0, <1>3, <2>1
    <3> HIDE DEF len
    <3> QED BY <2>1, <3>1
  <2> QED BY <1>2, <2>2, <2>3
<1>8. EndsInRun(rest, least)
  BY <1>2, <1>5, <1>6, <1>7 DEF EndsInRun
<1> QED BY <1>2, <1>8, RunIs DEF rest, least, run

\* A series of some points: nothing is late, and a value takes the place of one of its second.
LEMMA NewSeriesOK == SeriesOK(NewSeries) /\ NewSeries.timestamps = <<>> /\ NewSeries.values = <<>>
<1>1. NewSeries = [timestamps |-> <<>>, values |-> <<>>, constantValue |-> 0, constantCount |-> 0]
  BY DEF NewSeries
<1>2. RunOf(<<>>) = 0
  BY DEF RunOf
<1>3. NewSeries \in SeriesKind
  BY <1>1 DEF SeriesKind
<1> QED BY <1>1, <1>2, <1>3 DEF SeriesOK

\* How the points of a series change when a sample is added to it.
PointAdded(old, new, at, value) ==
  IF \E x \in old : x[1] > at THEN new = old
  ELSE new = {x \in old : x[1] # at} \cup {<<at, value>>}

LEMMA SeriesFacts ==
  ASSUME NEW s, SeriesOK(s)
  PROVE  /\ s.timestamps \in Seq(Int) /\ s.values \in Seq(Int) /\ s.constantValue \in Int /\ s.constantCount \in Nat
         /\ Len(s.timestamps) \in Nat /\ Len(s.values) = Len(s.timestamps)
         /\ DOMAIN s.timestamps = 1..Len(s.timestamps) /\ DOMAIN s.values = 1..Len(s.timestamps)
         /\ s = [timestamps |-> s.timestamps, values |-> s.values, constantValue |-> s.constantValue, constantCount |-> s.constantCount]
         /\ \A i \in 1..Len(s.timestamps) : s.timestamps[i] \in Int /\ s.values[i] \in Int
<1>1. s \in SeriesKind /\ Len(s.values) = Len(s.timestamps)
  BY DEF SeriesOK
<1>2. s.timestamps \in Seq(Int) /\ s.values \in Seq(Int) /\ s.constantValue \in Int /\ s.constantCount \in Nat
      /\ s = [timestamps |-> s.timestamps, values |-> s.values, constantValue |-> s.constantValue, constantCount |-> s.constantCount]
  BY <1>1 DEF SeriesKind
<1> DEFINE t == s.timestamps
           v == s.values
<1>3. t \in Seq(Int) /\ v \in Seq(Int) /\ Len(v) = Len(t)
  BY <1>1, <1>2
<1> HIDE DEF t, v
<1>4. /\ Len(t) \in Nat /\ DOMAIN t = 1..Len(t) /\ DOMAIN v = 1..Len(t)
      /\ \A i \in 1..Len(t) : t[i] \in Int /\ v[i] \in Int
  BY <1>3
<1> QED BY <1>1, <1>2, <1>4 DEF t, v

LEMMA AddIs ==
  ASSUME NEW s, SeriesOK(s), NEW at \in Int, NEW value \in Int
  PROVE  /\ SeriesOK(Add(s, at, value))
         /\ Add(s, at, value).values # <<>>
         /\ PointAdded(PointsOf(s), PointsOf(Add(s, at, value)), at, value)
<1> DEFINE t == s.timestamps
           v == s.values
           len == Len(t)
           new == Add(s, at, value)
<1>0. /\ t \in Seq(Int) /\ v \in Seq(Int) /\ s.constantValue \in Int /\ s.constantCount \in Nat
      /\ len \in Nat /\ Len(v) = len /\ DOMAIN t = 1..len /\ DOMAIN v = 1..len
      /\ s = [timestamps |-> t, values |-> v, constantValue |-> s.constantValue, constantCount |-> s.constantCount]
      /\ \A i \in 1..len : t[i] \in Int /\ v[i] \in Int
  BY SeriesFacts
<1>1. /\ \A i, j \in 1..len : i < j => t[i] < t[j]
      /\ s.constantCount = RunOf(v)
      /\ v # <<>> => s.constantValue = Last(v)
  BY DEF SeriesOK
<1>2. PointsOf(s) = {<<t[j], v[j]>> : j \in 1..len}
  BY <1>0 DEF PointsOf
<1>3. t # <<>> <=> len # 0
  BY <1>0
<1>4. v # <<>> <=> len # 0
  BY <1>0
<1>5. Last(t) = t[len] /\ Last(v) = v[len]
  BY <1>0 DEF Last
<1>6. CASE len # 0 /\ at < t[len]
  <2>1. new = s
    BY <1>3, <1>5, <1>6 DEF Add
  <2>2. len \in 1..len /\ t[len] > at
    BY <1>0, <1>6
  <2>3. <<t[len], v[len]>> \in PointsOf(s) /\ <<t[len], v[len]>>[1] > at
    BY <1>2, <2>2
  <2>4. PointAdded(PointsOf(s), PointsOf(s), at, value)
    BY <2>3 DEF PointAdded
  <2>5. s.values # <<>>
    BY <1>4, <1>6
  <2> HIDE DEF new
  <2> QED BY <2>1, <2>4, <2>5 DEF new
<1>7. \A x \in PointsOf(s) : \E j \in 1..len : x = <<t[j], v[j]>> /\ x[1] = t[j]
  BY <1>2
<1>8. ASSUME len = 0 \/ t[len] <= at PROVE ~ (\E x \in PointsOf(s) : x[1] > at)
  <2>1. \A j \in 1..len : t[j] <= at
    <3>1. ASSUME NEW j \in 1..len PROVE t[j] <= at
      <4>1. j = len \/ (j < len /\ len \in 1..len)
        <5>1. len \in Nat
          BY <1>0
        <5> HIDE DEF len
        <5> QED BY <5>1
      <4>2. j = len \/ t[j] < t[len]
        BY <1>1, <4>1
      <4>3. len # 0 /\ len \in 1..len
        BY <1>0
      <4>4. t[len] \in Int /\ t[j] \in Int
        BY <1>0, <4>3
      <4> QED BY <1>8, <4>2, <4>3, <4>4
    <3> QED BY <3>1
  <2> SUFFICES ASSUME NEW x \in PointsOf(s), x[1] > at PROVE FALSE
    OBVIOUS
  <2>2. PICK j \in 1..len : x[1] = t[j]
    BY <1>7
  <2>3. t[j] \in Int /\ t[j] <= at /\ t[j] > at
    BY <1>0, <2>1, <2>2
  <2> QED BY <2>3
<1>9. CASE len # 0 /\ at = t[len]
  <2>0. len \in 1..len
    BY <1>0, <1>9
  <2>1. ~ (\E x \in PointsOf(s) : x[1] > at)
    BY <1>0, <1>8, <1>9, <2>0
  <2>2. \A j \in 1..len : t[j] = at <=> j = len
    <3>1. ASSUME NEW j \in 1..len, j # len PROVE t[j] # at
      <4>1. j < len
        BY <1>0, <3>1
      <4>2. t[j] < t[len] /\ t[j] \in Int /\ t[len] \in Int
        BY <1>0, <1>1, <2>0, <4>1
      <4> QED BY <1>9, <4>2
    <3> QED BY <1>9, <3>1
  <2>3. CASE v[len] = value
    <3>1. new = s
      BY <1>3, <1>5, <1>9, <2>3, <1>0 DEF Add
    <3>2. <<at, value>> \in PointsOf(s)
      BY <1>2, <1>9, <2>0, <2>3
    <3>3. ASSUME NEW x \in PointsOf(s), x[1] = at PROVE x = <<at, value>>
      <4>1. PICK j \in 1..len : x = <<t[j], v[j]>> /\ x[1] = t[j]
        BY <1>7
      <4> QED BY <2>2, <2>3, <3>3, <4>1
    <3>4. PointsOf(s) = {x \in PointsOf(s) : x[1] # at} \cup {<<at, value>>}
      BY <3>2, <3>3
    <3>5. PointAdded(PointsOf(s), PointsOf(s), at, value)
      BY <2>1, <3>4 DEF PointAdded
    <3>6. s.values # <<>>
      BY <1>4, <1>9
    <3> HIDE DEF new
    <3> QED BY <3>1, <3>5, <3>6 DEF new
  <2>4. CASE v[len] # value
    <3> DEFINE w == [v EXCEPT ![len] = value]
    <3>1. w \in Seq(Int) /\ Len(w) = len /\ \A j \in 1..len : w[j] = IF j = len THEN value ELSE v[j]
      BY <1>0, <2>0, ExceptSeq
    <3>2. Last(w) = value /\ DOMAIN w = 1..len
      BY <2>0, <3>1 DEF Last
    <3> DEFINE made == [timestamps |-> t, values |-> w, constantValue |-> value, constantCount |-> RunOf(w)]
               mid == [s EXCEPT !.values[Len(s.values)] = value]
    <3>3. new = UpdateConstantRun(mid)
      <4>1. ~(t # <<>> /\ at < Last(t)) /\ t # <<>> /\ at = Last(t) /\ Last(v) # value
        BY <1>0, <1>3, <1>5, <1>9, <2>4
      <4> HIDE DEF mid
      <4> QED BY <4>1 DEF Add, mid
    <3>4. mid = [timestamps |-> t, values |-> w, constantValue |-> s.constantValue, constantCount |-> s.constantCount]
      <4>1. mid = [s EXCEPT !.values = [@ EXCEPT ![len] = value]]
        BY <1>0, Zenon
      <4>2. s \in SeriesKind
        BY DEF SeriesOK
      <4>3. mid = [s EXCEPT !.values = w]
        BY <4>1
      <4> HIDE DEF mid, w
      <4> QED BY <4>2, <4>3 DEF SeriesKind
    <3> HIDE DEF mid, w
    <3>5. new = made
      BY <3>2, <3>3, <3>4 DEF UpdateConstantRun
    <3> HIDE DEF new
    <3>6. w # <<>>
      BY <1>9, <3>1
    <3>7. RunOf(w) \in Nat
      BY <3>1, <3>6, RunHas DEF EndsInRun
    <3>8. SeriesOK(made)
      <4>1. made \in SeriesKind
        BY <1>0, <3>1, <3>7 DEF SeriesKind
      <4> QED BY <1>0, <1>1, <3>1, <3>2, <4>1 DEF SeriesOK
    <3>9. PointsOf(made) = {<<t[j], w[j]>> : j \in 1..len}
      BY <1>0 DEF PointsOf
    <3>10. PointsOf(made) = {x \in PointsOf(s) : x[1] # at} \cup {<<at, value>>}
      <4>1. ASSUME NEW x \in PointsOf(made) PROVE x \in {y \in PointsOf(s) : y[1] # at} \cup {<<at, value>>}
        <5>1. PICK j \in 1..len : x = <<t[j], w[j]>>
          BY <3>9
        <5>2. CASE j = len
          BY <1>9, <3>1, <5>1, <5>2
        <5>3. CASE j # len
          <6>1. x = <<t[j], v[j]>> /\ x[1] = t[j] /\ t[j] # at
            BY <2>2, <3>1, <5>1, <5>3
          <6> QED BY <1>2, <6>1
        <5> QED BY <5>2, <5>3
      <4>2. <<at, value>> \in PointsOf(made)
        BY <1>9, <2>0, <3>1, <3>9
      <4>3. ASSUME NEW x \in PointsOf(s), x[1] # at PROVE x \in PointsOf(made)
        <5>1. PICK j \in 1..len : x = <<t[j], v[j]>> /\ x[1] = t[j]
          BY <1>7
        <5>2. w[j] = v[j]
          BY <1>9, <3>1, <4>3, <5>1
        <5> QED BY <3>9, <5>1, <5>2
      <4> QED BY <4>1, <4>2, <4>3
    <3>11. PointAdded(PointsOf(s), PointsOf(made), at, value)
      BY <2>1, <3>10 DEF PointAdded
    <3>12. made.values # <<>>
      BY <3>6
    <3> HIDE DEF made
    <3> QED BY <3>5, <3>8, <3>11, <3>12 DEF new
  <2> QED BY <2>3, <2>4
<1>10. CASE len = 0 \/ t[len] < at
  <2>0. len = 0 \/ (len \in 1..len /\ t[len] \in Int)
    BY <1>0
  <2> DEFINE t2 == Append(t, at)
             v2 == Append(v, value)
             count == IF t # <<>> /\ s.constantValue = value THEN s.constantCount + 1 ELSE 1
             made == [timestamps |-> t2, values |-> v2, constantValue |-> value, constantCount |-> count]
  <2>1. new = made
    <3>1. ~(t # <<>> /\ at < Last(t)) /\ ~(t # <<>> /\ at = Last(t))
      BY <1>3, <1>5, <1>10, <2>0
    <3> QED BY <3>1 DEF Add
  <2>2. /\ t2 \in Seq(Int) /\ Len(t2) = len + 1 /\ DOMAIN t2 = 1..(len + 1) /\ t2[len + 1] = at
        /\ \A j \in 1..len : t2[j] = t[j]
    BY <1>0, AppendIs
  <2>3. /\ v2 \in Seq(Int) /\ Len(v2) = len + 1 /\ v2[len + 1] = value /\ \A j \in 1..len : v2[j] = v[j]
    BY <1>0, AppendIs
  <2>4. count = RunOf(v2)
    <3>1. RunOf(v2) = IF v # <<>> /\ Last(v) = value THEN RunOf(v) + 1 ELSE 1
      BY <1>0, RunGrows
    <3> HIDE DEF v2
    <3> QED BY <1>1, <1>3, <1>4, <3>1
  <2>5. count \in Nat
    BY <1>0
  <2>6. ~ (\E x \in PointsOf(s) : x[1] > at)
    BY <1>0, <1>8, <1>10, <2>0
  <2>7. \A j \in 1..len : t[j] < at
    <3>1. ASSUME NEW j \in 1..len PROVE t[j] < at
      <4>1. len # 0 /\ (j = len \/ j < len)
        <5>1. len \in Nat
          BY <1>0
        <5> HIDE DEF len
        <5> QED BY <5>1
      <4>2. t[j] \in Int /\ t[len] \in Int /\ (j = len \/ t[j] < t[len])
        BY <1>0, <1>1, <2>0, <4>1
      <4> QED BY <1>10, <4>1, <4>2
    <3> QED BY <3>1
  <2> HIDE DEF t2, v2, count, new
  <2>8. \A j \in 1..(len + 1) : j \in 1..len \/ j = len + 1
    <3> HIDE DEF len
    <3> QED BY <1>0
  <2>9. v2 # <<>> /\ Last(v2) = value
    BY <1>0, <2>3 DEF Last
  <2>10. SeriesOK(made)
    <3>1. made \in SeriesKind
      BY <2>2, <2>3, <2>5 DEF SeriesKind
    <3>2. ASSUME NEW i \in 1..(len + 1), NEW j \in 1..(len + 1), i < j PROVE t2[i] < t2[j]
      <4>1. i \in 1..len
        BY <1>0, <3>2
      <4>2. j \in 1..len \/ j = len + 1
        BY <2>8
      <4> QED BY <1>1, <2>2, <2>7, <3>2, <4>1, <4>2
    <3> QED BY <2>2, <2>3, <2>4, <2>9, <3>1, <3>2 DEF SeriesOK
  <2>11. PointsOf(made) = {<<t2[j], v2[j]>> : j \in 1..(len + 1)}
    BY <2>2 DEF PointsOf
  <2>12. PointsOf(made) = {x \in PointsOf(s) : x[1] # at} \cup {<<at, value>>}
    <3>1. ASSUME NEW x \in PointsOf(made) PROVE x \in {y \in PointsOf(s) : y[1] # at} \cup {<<at, value>>}
      <4>1. PICK j \in 1..(len + 1) : x = <<t2[j], v2[j]>>
        BY <2>11
      <4>2. CASE j = len + 1
        BY <2>2, <2>3, <4>1, <4>2
      <4>3. CASE j \in 1..len
        <5>1. x = <<t[j], v[j]>> /\ x[1] = t[j] /\ t[j] < at /\ t[j] \in Int
          BY <1>0, <2>2, <2>3, <2>7, <4>1, <4>3
        <5>2. x \in PointsOf(s)
          BY <1>2, <4>3, <5>1
        <5> QED BY <5>1, <5>2
      <4> QED BY <2>8, <4>2, <4>3
    <3>2. <<at, value>> \in PointsOf(made)
      <4>1. len + 1 \in 1..(len + 1)
        BY <1>0
      <4> QED BY <2>2, <2>3, <2>11, <4>1
    <3>3. ASSUME NEW x \in PointsOf(s) PROVE x \in PointsOf(made)
      <4>1. PICK j \in 1..len : x = <<t[j], v[j]>>
        BY <1>7
      <4>2. j \in 1..(len + 1) /\ x = <<t2[j], v2[j]>>
        <5>1. j \in 1..(len + 1)
          <6> HIDE DEF len
          <6> QED BY <1>0
        <5>2. t2[j] = t[j] /\ v2[j] = v[j]
          BY <2>2, <2>3
        <5> QED BY <4>1, <5>1, <5>2
      <4> QED BY <2>11, <4>2
    <3> QED BY <3>1, <3>2, <3>3
  <2>13. PointAdded(PointsOf(s), PointsOf(made), at, value)
    BY <2>6, <2>12 DEF PointAdded
  <2>14. made.values # <<>>
    BY <2>9
  <2> HIDE DEF made
  <2> QED BY <2>1, <2>10, <2>13, <2>14 DEF new
<1>11. len = 0 \/ at < t[len] \/ at = t[len] \/ t[len] < at
  <2>1. len = 0 \/ (len \in 1..len /\ t[len] \in Int)
    BY <1>0
  <2> QED BY <2>1
<1> HIDE DEF t, v, len
<1> QED BY <1>6, <1>9, <1>10, <1>11

LEMMA OlderIs ==
  ASSUME NEW s, SeriesOK(s), NEW cutoff \in Int
  PROVE  /\ Older(s, cutoff) \in 0..Len(s.timestamps)
         /\ \A i \in 1..Len(s.timestamps) : s.timestamps[i] < cutoff <=> i <= Older(s, cutoff)
<1> DEFINE t == s.timestamps
           len == Len(t)
           S == {i \in DOMAIN t : t[i] < cutoff}
<1>0. len \in Nat /\ DOMAIN t = 1..len
  BY SeriesFacts
<1>1. \A i \in 1..len : t[i] \in Int
  BY SeriesFacts
<1>2. \A i, j \in 1..len : i < j => t[i] < t[j]
  BY DEF SeriesOK
<1>3. Older(s, cutoff) = Cardinality(S)
  BY DEF Older
<1> HIDE DEF t, len
<1>4. S \in SUBSET (1..len) /\ \A i \in 1..len : i \in S <=> t[i] < cutoff
  BY <1>0
<1>5. CASE S = {}
  <2>1. Cardinality(S) = 0
    BY <1>5, FS_EmptySet
  <2>2. \A i \in 1..len : ~(t[i] < cutoff) /\ ~(i <= 0)
    BY <1>0, <1>4, <1>5
  <2> HIDE DEF S
  <2> QED BY <1>0, <1>3, <2>1, <2>2 DEF t, len
<1>6. CASE S # {}
  <2> DEFINE m == Max(S)
  <2>1. m \in S /\ \A k \in S : k <= m
    <3> HIDE DEF S
    <3> QED BY <1>0, <1>4, <1>6, GreatestOfFirst
  <2> HIDE DEF m
  <2>2. m \in 1..len /\ t[m] < cutoff
    BY <1>4, <2>1
  <2>3. ASSUME NEW i \in 1..len, i <= m PROVE t[i] < cutoff
    <3>1. i = m \/ i < m
      BY <2>2, <2>3
    <3>2. i = m \/ t[i] < t[m]
      BY <1>2, <2>2, <3>1
    <3> QED BY <1>1, <2>2, <3>2
  <2>4. \A i \in 1..len : t[i] < cutoff <=> i <= m
    BY <1>4, <2>1, <2>3
  <2>5. S = 1..m
    <3>1. \A i \in 1..m : i \in 1..len /\ i <= m
      BY <1>0, <2>2
    <3>2. \A i \in S : i \in 1..len /\ i <= m
      BY <1>4, <2>1
    <3>3. \A i \in S : i \in 1..m
      BY <1>0, <2>2, <3>2
    <3>4. \A i \in 1..m : i \in S
      BY <1>4, <2>4, <3>1
    <3> QED BY <3>3, <3>4
  <2>6. Cardinality(1..m) = m
    <3>1. 1 \in Int /\ m \in Int /\ ~(1 > m)
      BY <1>0, <2>2
    <3>2. Cardinality(1..m) = IF 1 > m THEN 0 ELSE m - 1 + 1
      BY <3>1, FS_Interval
    <3> QED BY <3>1, <3>2
  <2>7. Older(s, cutoff) = m
    BY <1>3, <2>5, <2>6
  <2>8. m \in 0..len
    BY <1>0, <2>2
  <2> HIDE DEF S
  <2> QED BY <2>4, <2>7, <2>8 DEF t, len
<1> QED BY <1>5, <1>6

\* What is left of a series, if something is: its points from the cutoff on.
LEMMA TrimIs ==
  ASSUME NEW s, SeriesOK(s), NEW cutoff \in Int, Older(s, cutoff) < Len(s.timestamps)
  PROVE  /\ SeriesOK(TrimSeries(s, cutoff)) /\ TrimSeries(s, cutoff).values # <<>>
         /\ PointsOf(TrimSeries(s, cutoff)) = {x \in PointsOf(s) : x[1] >= cutoff}
<1> DEFINE t == s.timestamps
           v == s.values
           len == Len(t)
           n == Older(s, cutoff)
           t2 == SubSeq(t, n + 1, len)
           v2 == SubSeq(v, n + 1, len)
           least == Min({s.constantCount, len - n})
           new == TrimSeries(s, cutoff)
           made == [timestamps |-> t2, values |-> v2, constantValue |-> s.constantValue, constantCount |-> least]
<1>0. /\ t \in Seq(Int) /\ v \in Seq(Int) /\ s.constantValue \in Int /\ s.constantCount \in Nat
      /\ len \in Nat /\ Len(v) = len /\ DOMAIN t = 1..len /\ DOMAIN v = 1..len
      /\ s = [timestamps |-> t, values |-> v, constantValue |-> s.constantValue, constantCount |-> s.constantCount]
      /\ \A i \in 1..len : t[i] \in Int /\ v[i] \in Int
  BY SeriesFacts
<1>1. /\ \A i, j \in 1..len : i < j => t[i] < t[j]
      /\ s.constantCount = RunOf(v)
      /\ v # <<>> => s.constantValue = Last(v)
  BY DEF SeriesOK
<1>2. n \in 0..(len - 1) /\ \A i \in 1..len : t[i] < cutoff <=> i <= n
  <2>1. n \in 0..len /\ \A i \in 1..len : t[i] < cutoff <=> i <= n
    BY OlderIs
  <2>2. n < len /\ len \in Nat
    BY <1>0
  <2> HIDE DEF n, len
  <2> QED BY <2>1, <2>2
<1>3. new = made
  <2>1. s \in SeriesKind
    BY DEF SeriesOK
  <2>2. new = [s EXCEPT !.timestamps = SubSeq(@, n + 1, Len(@)), !.values = SubSeq(@, n + 1, Len(@)),
                        !.constantCount = Min({@, Len(v) - n})]
    BY DEF TrimSeries
  <2>3. new = [s EXCEPT !.timestamps = t2, !.values = v2, !.constantCount = least]
    BY <1>0, <2>2
  <2> HIDE DEF new, t2, v2, least
  <2> QED BY <2>1, <2>3 DEF SeriesKind
<1> HIDE DEF new
<1>4. len \in Nat /\ n \in Int /\ 0 <= n /\ n < len
  BY <1>0, <1>2
<1>5. /\ t2 \in Seq(Int) /\ Len(t2) = len - n /\ \A i \in 1..(len - n) : t2[i] = t[n + i]
      /\ v2 \in Seq(Int) /\ Len(v2) = len - n /\ \A i \in 1..(len - n) : v2[i] = v[n + i]
  <2>1. n + 1 \in Int /\ len \in Int /\ \A i \in (n + 1)..len : i \in 1..len
    <3> HIDE DEF len, n
    <3> QED BY <1>4
  <2>2. \A i \in (n + 1)..len : t[i] \in Int /\ v[i] \in Int
    BY <1>0, <2>1
  <2> HIDE DEF len, n, t, v
  <2>3. /\ t2 \in Seq(Int) /\ Len(t2) = IF n + 1 <= len THEN len - (n + 1) + 1 ELSE 0
        /\ \A i \in 1..(len - (n + 1) + 1) : t2[i] = t[(n + 1) + i - 1]
    BY <2>1, <2>2, SubSeqProperties
  <2>4. /\ v2 \in Seq(Int) /\ Len(v2) = IF n + 1 <= len THEN len - (n + 1) + 1 ELSE 0
        /\ \A i \in 1..(len - (n + 1) + 1) : v2[i] = v[(n + 1) + i - 1]
    BY <2>1, <2>2, SubSeqProperties
  <2>5. n + 1 <= len /\ len - (n + 1) + 1 = len - n /\ \A i \in 1..(len - n) : (n + 1) + i - 1 = n + i
    BY <1>4
  <2> QED BY <2>3, <2>4, <2>5
<1>6. least = RunOf(v2)
  <2>1. v \in Seq(Int) /\ n \in 0..(Len(v) - 1) /\ len = Len(v)
    BY <1>0, <1>2
  <2>2. RunOf(SubSeq(v, n + 1, Len(v))) = Min({RunOf(v), Len(v) - n})
    <3> HIDE DEF v, n
    <3> QED BY <2>1, RunOfRest
  <2> QED BY <1>1, <2>1, <2>2
<1> HIDE DEF t2, v2, least
<1>7. v2 # <<>> /\ Last(v2) = s.constantValue
  <2>1. len - n \in 1..(len - n) /\ n + (len - n) = len /\ len # 0
    <3> HIDE DEF len, n
    <3> QED BY <1>4
  <2>2. v2[len - n] = v[len] /\ Len(v2) = len - n /\ len - n # 0
    BY <1>5, <2>1
  <2>3. v # <<>>
    BY <1>0, <2>1
  <2>4. Last(v) = v[len] /\ Last(v2) = v2[len - n]
    BY <1>0, <2>2 DEF Last
  <2> QED BY <1>1, <1>5, <2>2, <2>3, <2>4
<1>8. RunOf(v2) \in Nat
  BY <1>5, <1>7, RunHas DEF EndsInRun
<1> HIDE DEF len, n, t, v
<1>9. \A i \in 1..(len - n) : n + i \in 1..len /\ ~(n + i <= n)
  BY <1>4
<1>10. SeriesOK(made)
  <2>1. made \in SeriesKind
    BY <1>0, <1>5, <1>6, <1>8 DEF SeriesKind
  <2>2. ASSUME NEW i \in 1..(len - n), NEW j \in 1..(len - n), i < j PROVE t2[i] < t2[j]
    <3>1. n + i < n + j
      BY <1>4, <2>2
    <3> QED BY <1>1, <1>5, <1>9, <3>1
  <2> QED BY <1>5, <1>6, <1>7, <2>1, <2>2 DEF SeriesOK
<1>11. PointsOf(made) = {<<t2[j], v2[j]>> : j \in 1..(len - n)}
  BY <1>5 DEF PointsOf
<1>12. PointsOf(s) = {<<t[j], v[j]>> : j \in 1..len}
  BY <1>0 DEF PointsOf, t, v
<1>13. ASSUME NEW x \in PointsOf(made) PROVE x \in {y \in PointsOf(s) : y[1] >= cutoff}
  <2>1. PICK j \in 1..(len - n) : x = <<t2[j], v2[j]>>
    BY <1>11
  <2>2. x = <<t[n + j], v[n + j]>> /\ n + j \in 1..len /\ ~(t[n + j] < cutoff) /\ t[n + j] \in Int
    BY <1>0, <1>2, <1>5, <1>9, <2>1
  <2>3. x \in PointsOf(s) /\ x[1] >= cutoff
    BY <1>12, <2>2
  <2> QED BY <2>3
<1>14. ASSUME NEW x \in PointsOf(s), x[1] >= cutoff PROVE x \in PointsOf(made)
  <2>1. PICK j \in 1..len : x = <<t[j], v[j]>>
    BY <1>12
  <2>2. t[j] \in Int /\ t[j] >= cutoff
    BY <1>0, <1>14, <2>1
  <2>3. ~(j <= n)
    BY <1>2, <2>2
  <2>4. j - n \in 1..(len - n) /\ n + (j - n) = j
    BY <1>4, <2>3
  <2>5. x = <<t2[j - n], v2[j - n]>>
    BY <1>5, <2>1, <2>4
  <2> QED BY <1>11, <2>4, <2>5
<1>15. PointsOf(made) = {x \in PointsOf(s) : x[1] >= cutoff}
  <2> HIDE DEF made
  <2> QED BY <1>13, <1>14
<1>16. made.values # <<>>
  BY <1>7
<1> HIDE DEF made
<1> QED BY <1>3, <1>10, <1>15, <1>16 DEF new

\* What is not left has no point from the cutoff on.
LEMMA TrimmedAway ==
  ASSUME NEW s, SeriesOK(s), NEW cutoff \in Int, ~(Older(s, cutoff) < Len(s.timestamps))
  PROVE  \A x \in PointsOf(s) : ~(x[1] >= cutoff)
<1> SUFFICES ASSUME NEW x \in PointsOf(s) PROVE ~(x[1] >= cutoff)
  OBVIOUS
<1> DEFINE len == Len(s.timestamps)
           n == Older(s, cutoff)
<1>1. len \in Nat /\ DOMAIN s.timestamps = 1..len /\ \A i \in 1..len : s.timestamps[i] \in Int
  BY SeriesFacts
<1>2. n \in 0..len /\ \A i \in 1..len : s.timestamps[i] < cutoff <=> i <= n
  BY OlderIs
<1>3. PICK j \in 1..len : x = <<s.timestamps[j], s.values[j]>> /\ x[1] = s.timestamps[j]
  BY <1>1 DEF PointsOf
<1>4. n = len
  <2>1. ~(n < len)
    OBVIOUS
  <2> HIDE DEF n, len
  <2> QED BY <1>1, <1>2, <2>1
<1> HIDE DEF n, len
<1>5. j <= n
  BY <1>1, <1>4
<1> QED BY <1>1, <1>2, <1>3, <1>5

\* The run that is asked for is of equal values.
LEMMA RunBefore ==
  ASSUME NEW s, SeriesOK(s), NEW end \in 1..Len(s.timestamps), NEW start \in 0..(end - 1)
  PROVE  ConstantRunEndingAt(s, end) >= end - start
         <=> \A i \in (start + 1)..end : s.values[i] = s.values[end]
<1> DEFINE v == s.values
           len == Len(v)
           part == SubSeq(v, 1, end)
           run == ConstantRunEndingAt(s, end)
<1>0. v \in Seq(Int) /\ len \in Nat /\ end \in 1..len /\ DOMAIN v = 1..len /\ \A i \in 1..len : v[i] \in Int
  BY SeriesFacts
<1>1. part \in Seq(Int) /\ Len(part) = end /\ \A i \in 1..end : part[i] = v[i]
  <2>1. 1 \in Int /\ end \in Int /\ \A i \in 1..end : v[i] \in Int
    BY <1>0
  <2>2. /\ part \in Seq(Int) /\ Len(part) = IF 1 <= end THEN end - 1 + 1 ELSE 0
        /\ \A i \in 1..(end - 1 + 1) : part[i] = v[1 + i - 1]
    <3> HIDE DEF v
    <3> QED BY <2>1, SubSeqProperties
  <2>3. 1 <= end /\ end - 1 + 1 = end /\ \A i \in 1..end : 1 + i - 1 = i
    BY <1>0
  <2> HIDE DEF part
  <2> QED BY <2>2, <2>3
<1>2. run = RunOf(part)
  <2>1. end = len => part = v
    BY <1>0, SubSeqFull
  <2>2. s.constantCount = RunOf(v)
    BY DEF SeriesOK
  <2> HIDE DEF part
  <2> QED BY <2>1, <2>2 DEF ConstantRunEndingAt, part
<1> HIDE DEF part, run, v, len
<1>3. EndsInRun(part, run)
  <2>1. part # <<>>
    BY <1>0, <1>1
  <2> QED BY <1>1, <1>2, <2>1, RunHas
<1>4. end \in Int /\ start \in Int /\ 0 <= start /\ start < end /\ run \in Int /\ 1 <= run /\ run <= end
  BY <1>0, <1>1, <1>3 DEF EndsInRun
<1>5. ASSUME run >= end - start, NEW i \in (start + 1)..end PROVE v[i] = v[end]
  <2>1. i \in (end - run + 1)..end /\ i \in 1..end /\ end \in 1..end
    BY <1>4, <1>5
  <2>2. part[i] = part[end]
    BY <1>1, <1>3, <2>1 DEF EndsInRun
  <2> QED BY <1>1, <2>1, <2>2
<1>6. ASSUME ~(run >= end - start), \A i \in (start + 1)..end : v[i] = v[end] PROVE FALSE
  <2>1. end - run \in (start + 1)..end /\ end - run \in 1..end /\ end \in 1..end /\ run # end
    BY <1>4, <1>6
  <2>2. part[end - run] # part[end]
    BY <1>1, <1>3, <2>1 DEF EndsInRun
  <2> QED BY <1>1, <1>6, <2>1, <2>2
<1> QED BY <1>5, <1>6 DEF run, v

-----------------------------------------------------------------------------
(* The tree of series.                                                      *)

At(tree, i) == tree[i[1]][i[2]][i[3]]

LEMMA IdsOfTree ==
  ASSUME NEW tree
  PROVE  \A i : i \in SeriesIds(tree) <=>
           /\ i = <<i[1], i[2], i[3]>> /\ i[1] \in DOMAIN tree
           /\ i[2] \in DOMAIN tree[i[1]] /\ i[3] \in DOMAIN tree[i[1]][i[2]]
<1> DEFINE Of(k, n) == {<<k, n, p>> : p \in DOMAIN tree[k][n]}
<1>1. SeriesIds(tree) = UNION {UNION {Of(k, n) : n \in DOMAIN tree[k]} : k \in DOMAIN tree}
  BY DEF SeriesIds
<1>2. \A i, k, n : i \in Of(k, n) <=> i = <<k, n, i[3]>> /\ i[3] \in DOMAIN tree[k][n]
  OBVIOUS
<1> HIDE DEF Of
<1>3. \A i : i \in SeriesIds(tree) <=> \E k \in DOMAIN tree : \E n \in DOMAIN tree[k] : i \in Of(k, n)
  BY <1>1
<1>4. ASSUME NEW i, i \in SeriesIds(tree)
      PROVE  /\ i = <<i[1], i[2], i[3]>> /\ i[1] \in DOMAIN tree
             /\ i[2] \in DOMAIN tree[i[1]] /\ i[3] \in DOMAIN tree[i[1]][i[2]]
  <2>1. PICK k \in DOMAIN tree : \E n \in DOMAIN tree[k] : i \in Of(k, n)
    BY <1>3, <1>4
  <2>2. PICK n \in DOMAIN tree[k] : i \in Of(k, n)
    BY <2>1
  <2>3. i = <<k, n, i[3]>> /\ i[3] \in DOMAIN tree[k][n]
    BY <1>2, <2>2
  <2>4. i[1] = k /\ i[2] = n
    BY <2>3
  <2> QED BY <2>1, <2>2, <2>3, <2>4
<1>5. ASSUME NEW i, i = <<i[1], i[2], i[3]>>, i[1] \in DOMAIN tree, i[2] \in DOMAIN tree[i[1]], i[3] \in DOMAIN tree[i[1]][i[2]]
      PROVE  i \in SeriesIds(tree)
  <2>1. i \in Of(i[1], i[2])
    BY <1>2, <1>5
  <2> QED BY <1>3, <1>5, <2>1
<1> QED BY <1>4, <1>5

\* An id that stands for something.
IdOK(d, i) ==
  /\ i = <<i[1], i[2], i[3]>> /\ i[1] \in 1..Len(d) /\ i[2] \in 0..Len(d)
  /\ \E labels \in LabelSets : HasLabels(d, labels) /\ i[3] = Postings(d, labels)

\* What it stands for.
MeantIn(d, i) == <<Lookup(d, i[1]), Lookup(d, i[2]), Labels(d, i[3])>>

SeriesAllOK(d, tree) ==
  /\ IsFiniteSet(SeriesIds(tree))
  /\ \A i \in SeriesIds(tree) : IdOK(d, i) /\ SeriesOK(At(tree, i)) /\ At(tree, i).values # <<>>

\* No empty branches.
Full(tree) ==
  \A k \in DOMAIN tree : DOMAIN tree[k] # {} /\ \A n \in DOMAIN tree[k] : DOMAIN tree[k][n] # {}

\* All points of the series, by what their ids stand for.
PointsIn(d, tree) ==
  UNION {{<<MeantIn(d, i), x[1], x[2]>> : x \in PointsOf(At(tree, i))} : i \in SeriesIds(tree)}

LEMMA PointsAre ==
  ASSUME NEW d, NEW tree
  PROVE  \A y : y \in PointsIn(d, tree) <=>
           \E i \in SeriesIds(tree) : \E x \in PointsOf(At(tree, i)) : y = <<MeantIn(d, i), x[1], x[2]>>
<1> DEFINE Of(i) == {<<MeantIn(d, i), x[1], x[2]>> : x \in PointsOf(At(tree, i))}
<1>1. PointsIn(d, tree) = UNION {Of(i) : i \in SeriesIds(tree)}
  BY DEF PointsIn
<1>2. \A y, i : y \in Of(i) <=> \E x \in PointsOf(At(tree, i)) : y = <<MeantIn(d, i), x[1], x[2]>>
  OBVIOUS
<1> HIDE DEF Of
<1> QED BY <1>1, <1>2

\* Two ids stand for two things.
LEMMA MeantOnce ==
  ASSUME NEW d \in Dicts, NEW i, NEW j, IdOK(d, i), IdOK(d, j), MeantIn(d, i) = MeantIn(d, j)
  PROVE  i = j
<1>1. Lookup(d, i[1]) = Lookup(d, j[1]) /\ Lookup(d, i[2]) = Lookup(d, j[2]) /\ Labels(d, i[3]) = Labels(d, j[3])
  BY DEF MeantIn
<1>2. i[1] \in 0..Len(d) /\ i[2] \in 0..Len(d) /\ j[1] \in 0..Len(d) /\ j[2] \in 0..Len(d)
  <2>1. Len(d) \in Nat
    BY DEF Dicts
  <2>2. \A n \in 1..Len(d) : n \in 0..Len(d)
    BY <2>1
  <2> QED BY <2>2 DEF IdOK
<1>3. i[1] = j[1] /\ i[2] = j[2]
  <2>1. Id(d, Lookup(d, i[1])) = i[1] /\ Id(d, Lookup(d, j[1])) = j[1]
    BY <1>2, LookupIs
  <2>2. Id(d, Lookup(d, i[2])) = i[2] /\ Id(d, Lookup(d, j[2])) = j[2]
    BY <1>2, LookupIs
  <2> QED BY <1>1, <2>1, <2>2
<1>4. PICK li \in LabelSets : HasLabels(d, li) /\ i[3] = Postings(d, li)
  BY DEF IdOK
<1>5. PICK lj \in LabelSets : HasLabels(d, lj) /\ j[3] = Postings(d, lj)
  BY DEF IdOK
<1>6. Labels(d, i[3]) = li /\ Labels(d, j[3]) = lj
  BY <1>4, <1>5, LabelsAgain
<1>7. i[3] = j[3]
  BY <1>1, <1>4, <1>5, <1>6
<1> QED BY <1>3, <1>7 DEF IdOK

\* More strings change nothing of what ids stand for.
LEMMA MeantStays ==
  ASSUME NEW d, NEW e, Extends(d, e), NEW i, IdOK(d, i)
  PROVE  IdOK(e, i) /\ MeantIn(e, i) = MeantIn(d, i)
<1>0. d \in Dicts /\ e \in Dicts
  BY DEF Extends
<1>1. /\ 0..Len(d) \subseteq 0..Len(e) /\ 1..Len(d) \subseteq 1..Len(e) /\ 1..Len(d) \subseteq 0..Len(d)
      /\ \A n \in 0..Len(d) : Lookup(e, n) = Lookup(d, n)
  <2>1. Len(d) \in Nat
    BY <1>0 DEF Dicts
  <2>2. 1..Len(d) \subseteq 0..Len(d)
    BY <2>1
  <2> QED BY <2>2, IdsStay
<1>2. PICK labels \in LabelSets : HasLabels(d, labels) /\ i[3] = Postings(d, labels)
  BY DEF IdOK
<1>3. HasLabels(e, labels) /\ i[3] = Postings(e, labels)
  BY <1>2, PostingsStay
<1>4. Labels(d, i[3]) = labels
  BY <1>0, <1>2, LabelsAgain
<1>5. Labels(e, i[3]) = labels
  BY <1>0, <1>3, LabelsAgain
<1>6. i[1] \in 1..Len(d) /\ i[2] \in 0..Len(d)
  BY DEF IdOK
<1>7. IdOK(e, i)
  <2>1. i = <<i[1], i[2], i[3]>>
    BY DEF IdOK
  <2> QED BY <1>1, <1>3, <1>6, <2>1 DEF IdOK
<1>8. Lookup(e, i[1]) = Lookup(d, i[1]) /\ Lookup(e, i[2]) = Lookup(d, i[2])
  BY <1>1, <1>6
<1> QED BY <1>4, <1>5, <1>7, <1>8 DEF MeantIn

LEMMA PointsStay ==
  ASSUME NEW d, NEW e, Extends(d, e), NEW tree, SeriesAllOK(d, tree)
  PROVE  SeriesAllOK(e, tree) /\ PointsIn(e, tree) = PointsIn(d, tree)
<1>1. \A i \in SeriesIds(tree) : IdOK(e, i) /\ MeantIn(e, i) = MeantIn(d, i)
  BY MeantStays DEF SeriesAllOK
<1>2. SeriesAllOK(e, tree)
  BY <1>1 DEF SeriesAllOK
<1>3. \A y : y \in PointsIn(e, tree) <=> y \in PointsIn(d, tree)
  <2>1. \A y : y \in PointsIn(d, tree) <=>
           \E i \in SeriesIds(tree) : \E x \in PointsOf(At(tree, i)) : y = <<MeantIn(d, i), x[1], x[2]>>
    BY PointsAre
  <2>2. \A y : y \in PointsIn(e, tree) <=>
           \E i \in SeriesIds(tree) : \E x \in PointsOf(At(tree, i)) : y = <<MeantIn(e, i), x[1], x[2]>>
    BY PointsAre
  <2> QED BY <1>1, <2>1, <2>2
<1> QED BY <1>2, <1>3

-----------------------------------------------------------------------------
(* Changes of the tree.                                                     *)

\* Other series for one metric of a key.
Put(tree, k, n, series) == [tree EXCEPT ![k][n] = series]

LEMMA PutIs ==
  ASSUME NEW tree, NEW k \in DOMAIN tree, NEW n \in DOMAIN tree[k], NEW series
  PROVE  /\ DOMAIN Put(tree, k, n, series) = DOMAIN tree
         /\ \A j \in DOMAIN tree : DOMAIN Put(tree, k, n, series)[j] = DOMAIN tree[j]
         /\ \A j \in DOMAIN tree : \A m \in DOMAIN tree[j] :
              Put(tree, k, n, series)[j][m] = IF j = k /\ m = n THEN series ELSE tree[j][m]
<1> DEFINE new == Put(tree, k, n, series)
<1>1. new = [tree EXCEPT ![k] = [tree[k] EXCEPT ![n] = series]]
  BY DEF Put
<1>2. DOMAIN new = DOMAIN tree
  BY <1>1
<1>3. \A j \in DOMAIN tree : new[j] = IF j = k THEN [tree[k] EXCEPT ![n] = series] ELSE tree[j]
  BY <1>1
<1> HIDE DEF new
<1>4. \A j \in DOMAIN tree : DOMAIN new[j] = DOMAIN tree[j]
  BY <1>3
<1>5. \A j \in DOMAIN tree : \A m \in DOMAIN tree[j] : new[j][m] = IF j = k /\ m = n THEN series ELSE tree[j][m]
  BY <1>3
<1> QED BY <1>2, <1>4, <1>5 DEF new

\* An id of these.
In(i, k, n) == i[1] = k /\ i[2] = n

LEMMA PutIds ==
  ASSUME NEW tree, NEW k \in DOMAIN tree, NEW n \in DOMAIN tree[k], NEW series
  PROVE  /\ \A i : i \in SeriesIds(Put(tree, k, n, series)) <=>
              \/ i \in SeriesIds(tree) /\ ~In(i, k, n)
              \/ i = <<k, n, i[3]>> /\ i[3] \in DOMAIN series
         /\ \A i \in SeriesIds(Put(tree, k, n, series)) :
              At(Put(tree, k, n, series), i) = IF In(i, k, n) THEN series[i[3]] ELSE At(tree, i)
<1> DEFINE new == Put(tree, k, n, series)
<1>1. /\ DOMAIN new = DOMAIN tree
      /\ \A j \in DOMAIN tree : DOMAIN new[j] = DOMAIN tree[j]
      /\ \A j \in DOMAIN tree : \A m \in DOMAIN tree[j] : new[j][m] = IF j = k /\ m = n THEN series ELSE tree[j][m]
  BY PutIs
<1> HIDE DEF new
<1>2. \A i : i \in SeriesIds(tree) <=>
           /\ i = <<i[1], i[2], i[3]>> /\ i[1] \in DOMAIN tree
           /\ i[2] \in DOMAIN tree[i[1]] /\ i[3] \in DOMAIN tree[i[1]][i[2]]
  BY IdsOfTree
<1>3. \A i : i \in SeriesIds(new) <=>
           /\ i = <<i[1], i[2], i[3]>> /\ i[1] \in DOMAIN new
           /\ i[2] \in DOMAIN new[i[1]] /\ i[3] \in DOMAIN new[i[1]][i[2]]
  BY IdsOfTree
<1>4. ASSUME NEW i
      PROVE  i \in SeriesIds(new) <=> \/ i \in SeriesIds(tree) /\ ~In(i, k, n)
                                      \/ i = <<k, n, i[3]>> /\ i[3] \in DOMAIN series
  <2>1. CASE In(i, k, n)
    <3>1. i[1] = k /\ i[2] = n
      BY <2>1 DEF In
    <3>2. new[k][n] = series /\ k \in DOMAIN new /\ n \in DOMAIN new[k]
      BY <1>1
    <3> QED BY <1>3, <2>1, <3>1, <3>2
  <2>2. CASE ~In(i, k, n)
    <3>1. ~(i = <<k, n, i[3]>>)
      BY <2>2 DEF In
    <3>2. i[1] \in DOMAIN tree /\ i[2] \in DOMAIN tree[i[1]] => new[i[1]][i[2]] = tree[i[1]][i[2]]
      BY <1>1, <2>2 DEF In
    <3> QED BY <1>1, <1>2, <1>3, <2>2, <3>1, <3>2
  <2> QED BY <2>1, <2>2
<1>5. ASSUME NEW i \in SeriesIds(new)
      PROVE  At(new, i) = IF In(i, k, n) THEN series[i[3]] ELSE At(tree, i)
  <2>1. i[1] \in DOMAIN tree /\ i[2] \in DOMAIN tree[i[1]]
    BY <1>1, <1>3
  <2>2. new[i[1]][i[2]] = IF In(i, k, n) THEN series ELSE tree[i[1]][i[2]]
    BY <1>1, <2>1 DEF In
  <2> QED BY <2>2 DEF At
<1> QED BY <1>4, <1>5 DEF new

\* Whether a point of a series is left.
Lives(s, cutoff) == Older(s, cutoff) < Len(s.timestamps)

\* The tree keeps the series that live, without their old points.
LEMMA TrimmedIs ==
  ASSUME NEW tree, NEW cutoff
  PROVE  /\ \A i : i \in SeriesIds(Trimmed(tree, cutoff)) <=> i \in SeriesIds(tree) /\ Lives(At(tree, i), cutoff)
         /\ \A i \in SeriesIds(Trimmed(tree, cutoff)) : At(Trimmed(tree, cutoff), i) = TrimSeries(At(tree, i), cutoff)
         /\ Full(Trimmed(tree, cutoff))
<1> DEFINE of(all) == {p \in DOMAIN all : Lives(all[p], cutoff)}
           series(all) == [p \in of(all) |-> TrimSeries(all[p], cutoff)]
           some(all) == {n \in DOMAIN all : of(all[n]) # {}}
           metrics(all) == [n \in some(all) |-> series(all[n])]
           new == Trimmed(tree, cutoff)
<1>1. \A all : DOMAIN series(all) = of(all) /\ DOMAIN metrics(all) = some(all)
  OBVIOUS
<1>2. new = [k \in {k \in DOMAIN tree : some(tree[k]) # {}} |-> metrics(tree[k])]
  <2> DEFINE live(s) == Older(s, cutoff) < Len(s.timestamps)
             series1(all) == [p \in {p \in DOMAIN all : live(all[p])} |-> TrimSeries(all[p], cutoff)]
             metrics1(all) == [n \in {n \in DOMAIN all : DOMAIN series1(all[n]) # {}} |-> series1(all[n])]
  <2>1. new = [k \in {k \in DOMAIN tree : DOMAIN metrics1(tree[k]) # {}} |-> metrics1(tree[k])]
    BY DEF Trimmed
  <2>2. \A all : series1(all) = series(all)
    BY Zenon DEF Lives
  <2> HIDE DEF series1, series
  <2>3. \A all : metrics1(all) = [n \in {n \in DOMAIN all : DOMAIN series(all[n]) # {}} |-> series(all[n])]
    BY Zenon, <2>2
  <2>4. \A all : metrics1(all) = metrics(all)
    <3> TAKE all
    <3>1. {n \in DOMAIN all : DOMAIN series(all[n]) # {}} = some(all)
      BY Zenon, <1>1
    <3> QED BY Zenon, <2>3, <3>1
  <2> HIDE DEF metrics1, metrics, some
  <2>5. {k \in DOMAIN tree : DOMAIN metrics1(tree[k]) # {}} = {k \in DOMAIN tree : some(tree[k]) # {}}
    BY Zenon, <1>1, <2>4
  <2> QED BY Zenon, <2>1, <2>4, <2>5
<1> HIDE DEF new
<1>3. \A k : k \in DOMAIN new <=> k \in DOMAIN tree /\ some(tree[k]) # {}
  BY Zenon, <1>2
<1>4. \A k \in DOMAIN new : new[k] = metrics(tree[k])
  BY Zenon, <1>2
<1>5. \A k \in DOMAIN new : DOMAIN new[k] = some(tree[k]) /\ \A n \in DOMAIN new[k] : new[k][n] = series(tree[k][n])
  <2> TAKE k \in DOMAIN new
  <2>1. DOMAIN new[k] = some(tree[k])
    <3> HIDE DEF metrics, some
    <3> QED BY Zenon, <1>1, <1>4
  <2>2. ASSUME NEW n \in DOMAIN new[k] PROVE new[k][n] = series(tree[k][n])
    <3>1. n \in some(tree[k]) /\ new[k] = metrics(tree[k])
      BY Zenon, <1>4, <2>1, <2>2
    <3> HIDE DEF some, series
    <3> QED BY <3>1
  <2> QED BY <2>1, <2>2
<1>6. \A k \in DOMAIN new : \A n \in DOMAIN new[k] :
        /\ DOMAIN new[k][n] = of(tree[k][n])
        /\ \A p \in DOMAIN new[k][n] : new[k][n][p] = TrimSeries(tree[k][n][p], cutoff)
  <2> TAKE k \in DOMAIN new
  <2> TAKE n \in DOMAIN new[k]
  <2>1. new[k][n] = series(tree[k][n])
    BY Zenon, <1>5
  <2>2. DOMAIN new[k][n] = of(tree[k][n])
    <3> HIDE DEF series, of
    <3> QED BY Zenon, <1>1, <2>1
  <2>3. ASSUME NEW p \in DOMAIN new[k][n] PROVE new[k][n][p] = TrimSeries(tree[k][n][p], cutoff)
    <3>1. p \in of(tree[k][n])
      BY Zenon, <2>2, <2>3
    <3> HIDE DEF of
    <3> QED BY <2>1, <3>1
  <2> QED BY <2>2, <2>3
<1>7. \A i : i \in SeriesIds(new) <=>
           /\ i = <<i[1], i[2], i[3]>> /\ i[1] \in DOMAIN new
           /\ i[2] \in DOMAIN new[i[1]] /\ i[3] \in DOMAIN new[i[1]][i[2]]
  BY IdsOfTree
<1>8. \A i : i \in SeriesIds(tree) <=>
           /\ i = <<i[1], i[2], i[3]>> /\ i[1] \in DOMAIN tree
           /\ i[2] \in DOMAIN tree[i[1]] /\ i[3] \in DOMAIN tree[i[1]][i[2]]
  BY IdsOfTree
<1>9. \A all, n : n \in some(all) <=> n \in DOMAIN all /\ of(all[n]) # {}
  BY Zenon
<1>10. \A all, p : p \in of(all) <=> p \in DOMAIN all /\ Lives(all[p], cutoff)
  BY Zenon
<1> HIDE DEF of, some, series, metrics
<1>11. ASSUME NEW i, i \in SeriesIds(new)
       PROVE  i \in SeriesIds(tree) /\ Lives(At(tree, i), cutoff) /\ At(new, i) = TrimSeries(At(tree, i), cutoff)
  <2>1. /\ i = <<i[1], i[2], i[3]>> /\ i[1] \in DOMAIN new
        /\ i[2] \in DOMAIN new[i[1]] /\ i[3] \in DOMAIN new[i[1]][i[2]]
    BY Zenon, <1>7, <1>11
  <2>2. i[1] \in DOMAIN tree /\ i[2] \in some(tree[i[1]]) /\ i[3] \in of(tree[i[1]][i[2]])
    BY Zenon, <1>3, <1>5, <1>6, <2>1
  <2>3. new[i[1]][i[2]][i[3]] = TrimSeries(tree[i[1]][i[2]][i[3]], cutoff)
    BY Zenon, <1>6, <2>1
  <2> QED BY Zenon, <1>8, <1>9, <1>10, <2>1, <2>2, <2>3 DEF At
<1>12. ASSUME NEW i, i \in SeriesIds(tree), Lives(At(tree, i), cutoff) PROVE i \in SeriesIds(new)
  <2>1. /\ i = <<i[1], i[2], i[3]>> /\ i[1] \in DOMAIN tree
        /\ i[2] \in DOMAIN tree[i[1]] /\ i[3] \in DOMAIN tree[i[1]][i[2]]
    BY Zenon, <1>8, <1>12
  <2>2. i[3] \in of(tree[i[1]][i[2]])
    BY Zenon, <1>10, <1>12, <2>1 DEF At
  <2>3. i[2] \in some(tree[i[1]])
    BY Zenon, <1>9, <2>1, <2>2
  <2>4. i[1] \in DOMAIN new
    BY Zenon, <1>3, <2>1, <2>3
  <2> QED BY Zenon, <1>5, <1>6, <1>7, <2>1, <2>2, <2>3, <2>4
<1>13. Full(new)
  <2>1. ASSUME NEW k \in DOMAIN new PROVE DOMAIN new[k] # {}
    BY Zenon, <1>3, <1>5, <2>1
  <2>2. ASSUME NEW k \in DOMAIN new, NEW n \in DOMAIN new[k] PROVE DOMAIN new[k][n] # {}
    <3>1. n \in some(tree[k])
      BY Zenon, <1>5, <2>2
    <3>2. of(tree[k][n]) # {}
      BY Zenon, <1>9, <3>1
    <3> QED BY Zenon, <1>6, <2>2, <3>2
  <2> QED BY Zenon, <2>1, <2>2 DEF Full
<1> QED BY <1>11, <1>12, <1>13 DEF new

LEMMA TrimmedOK ==
  ASSUME NEW d, NEW tree, SeriesAllOK(d, tree), NEW cutoff \in Int
  PROVE  /\ SeriesAllOK(d, Trimmed(tree, cutoff)) /\ Full(Trimmed(tree, cutoff))
         /\ PointsIn(d, Trimmed(tree, cutoff)) = {y \in PointsIn(d, tree) : y[2] >= cutoff}
<1> DEFINE new == Trimmed(tree, cutoff)
<1>1. /\ \A i : i \in SeriesIds(new) <=> i \in SeriesIds(tree) /\ Lives(At(tree, i), cutoff)
      /\ \A i \in SeriesIds(new) : At(new, i) = TrimSeries(At(tree, i), cutoff)
      /\ Full(new)
  BY TrimmedIs
<1> HIDE DEF new
<1>2. IsFiniteSet(SeriesIds(new))
  <2>1. SeriesIds(new) \subseteq SeriesIds(tree)
    BY <1>1
  <2> QED BY <2>1, FS_Subset DEF SeriesAllOK
<1>3. \A i \in SeriesIds(tree) : IdOK(d, i) /\ SeriesOK(At(tree, i))
  BY DEF SeriesAllOK
<1>4. \A i \in SeriesIds(new) :
        /\ SeriesOK(At(new, i)) /\ At(new, i).values # <<>>
        /\ PointsOf(At(new, i)) = {x \in PointsOf(At(tree, i)) : x[1] >= cutoff}
  BY <1>1, <1>3, TrimIs DEF Lives
<1>5. \A i \in SeriesIds(tree) : i \notin SeriesIds(new) => \A x \in PointsOf(At(tree, i)) : ~(x[1] >= cutoff)
  BY <1>1, <1>3, TrimmedAway DEF Lives
<1>6. SeriesAllOK(d, new)
  BY <1>1, <1>2, <1>3, <1>4 DEF SeriesAllOK
<1>7. \A y : y \in PointsIn(d, new) <=> y \in PointsIn(d, tree) /\ y[2] >= cutoff
  <2>1. \A y : y \in PointsIn(d, tree) <=>
           \E i \in SeriesIds(tree) : \E x \in PointsOf(At(tree, i)) : y = <<MeantIn(d, i), x[1], x[2]>>
    BY PointsAre
  <2>2. \A y : y \in PointsIn(d, new) <=>
           \E i \in SeriesIds(new) : \E x \in PointsOf(At(new, i)) : y = <<MeantIn(d, i), x[1], x[2]>>
    BY PointsAre
  <2>3. ASSUME NEW y, y \in PointsIn(d, new) PROVE y \in PointsIn(d, tree) /\ y[2] >= cutoff
    <3>1. PICK i \in SeriesIds(new) : \E x \in PointsOf(At(new, i)) : y = <<MeantIn(d, i), x[1], x[2]>>
      BY <2>2, <2>3
    <3>2. PICK x \in PointsOf(At(new, i)) : y = <<MeantIn(d, i), x[1], x[2]>>
      BY <3>1
    <3>3. x \in PointsOf(At(tree, i)) /\ x[1] >= cutoff /\ i \in SeriesIds(tree)
      BY <1>1, <1>4
    <3>4. y[2] = x[1]
      BY <3>2
    <3> QED BY <2>1, <3>2, <3>3, <3>4
  <2>4. ASSUME NEW y, y \in PointsIn(d, tree), y[2] >= cutoff PROVE y \in PointsIn(d, new)
    <3>1. PICK i \in SeriesIds(tree) : \E x \in PointsOf(At(tree, i)) : y = <<MeantIn(d, i), x[1], x[2]>>
      BY <2>1, <2>4
    <3>2. PICK x \in PointsOf(At(tree, i)) : y = <<MeantIn(d, i), x[1], x[2]>>
      BY <3>1
    <3>3. y[2] = x[1]
      BY <3>2
    <3>4. x[1] >= cutoff
      BY <2>4, <3>3
    <3>5. i \in SeriesIds(new)
      BY <1>5, <3>4
    <3>6. x \in PointsOf(At(new, i))
      BY <1>4, <3>4, <3>5
    <3> QED BY <2>2, <3>2, <3>5, <3>6
  <2> QED BY <2>3, <2>4
<1>8. PointsIn(d, new) = {y \in PointsIn(d, tree) : y[2] >= cutoff}
  BY <1>7
<1> QED BY <1>1, <1>6, <1>8 DEF new


-----------------------------------------------------------------------------
(* The cap.                                                                 *)

PostingsKind == Seq(Int \X Int)

PairBefore(a, b) == a[1] < b[1] \/ (a[1] = b[1] /\ a[2] < b[2])

\* Where one signature comes before another.
BeforeAt(n, p, q) ==
  /\ n \in 0..Len(p) /\ n < Len(q) /\ \A i \in 1..n : p[i] = q[i]
  /\ n = Len(p) \/ PairBefore(p[n + 1], q[n + 1])

LEMMA BeforeIs ==
  ASSUME NEW p, NEW q
  PROVE  SignatureBefore(p, q) <=> \E n : BeforeAt(n, p, q)
BY DEF SignatureBefore, BeforeAt, PairBefore

LEMMA PostingsFacts ==
  ASSUME NEW p \in PostingsKind
  PROVE  /\ Len(p) \in Nat /\ DOMAIN p = 1..Len(p)
         /\ \A i \in 1..Len(p) : p[i] = <<p[i][1], p[i][2]>> /\ p[i][1] \in Int /\ p[i][2] \in Int
<1>1. p \in Seq(Int \X Int)
  BY DEF PostingsKind
<1>2. Len(p) \in Nat /\ DOMAIN p = 1..Len(p) /\ \A i \in 1..Len(p) : p[i] \in Int \X Int
  BY <1>1
<1> QED BY <1>2

LEMMA SignaturesIrreflexive ==
  ASSUME NEW p \in PostingsKind
  PROVE  ~SignatureBefore(p, p)
<1> SUFFICES ASSUME NEW n, BeforeAt(n, p, p) PROVE FALSE
  BY BeforeIs
<1>1. n \in 0..Len(p) /\ n < Len(p) /\ (n = Len(p) \/ PairBefore(p[n + 1], p[n + 1]))
  BY DEF BeforeAt
<1>2. Len(p) \in Nat
  BY PostingsFacts
<1>3. n + 1 \in 1..Len(p) /\ n # Len(p)
  BY <1>1, <1>2
<1>4. p[n + 1][1] \in Int /\ p[n + 1][2] \in Int
  BY <1>3, PostingsFacts
<1> QED BY <1>1, <1>3, <1>4 DEF PairBefore

LEMMA SignaturesTransitive ==
  ASSUME NEW p \in PostingsKind, NEW q \in PostingsKind, NEW r \in PostingsKind,
         SignatureBefore(p, q), SignatureBefore(q, r)
  PROVE  SignatureBefore(p, r)
<1>1. PICK m : BeforeAt(m, p, q)
  BY BeforeIs
<1>2. PICK n : BeforeAt(n, q, r)
  BY BeforeIs
<1> DEFINE a == Len(p)
           b == Len(q)
           c == Len(r)
<1>3. a \in Nat /\ b \in Nat /\ c \in Nat
  BY PostingsFacts
<1>4. m \in 0..a /\ m < b /\ (\A i \in 1..m : p[i] = q[i]) /\ (m = a \/ PairBefore(p[m + 1], q[m + 1]))
  BY <1>1 DEF BeforeAt
<1>5. n \in 0..b /\ n < c /\ (\A i \in 1..n : q[i] = r[i]) /\ (n = b \/ PairBefore(q[n + 1], r[n + 1]))
  BY <1>2 DEF BeforeAt
<1>6. SUFFICES \E h : h \in 0..a /\ h < c /\ (\A i \in 1..h : p[i] = r[i]) /\ (h = a \/ PairBefore(p[h + 1], r[h + 1]))
  BY BeforeIs DEF BeforeAt
<1> HIDE DEF a, b, c
<1>7. CASE m < n
  <2>1. m < c /\ m + 1 \in 1..n /\ \A i \in 1..m : i \in 1..n
    BY <1>3, <1>4, <1>5, <1>7
  <2>2. \A i \in 1..m : p[i] = r[i]
    BY <1>4, <1>5, <2>1
  <2>3. q[m + 1] = r[m + 1]
    BY <1>5, <2>1
  <2> QED BY <1>4, <2>1, <2>2, <2>3
<1>8. CASE n < m
  <2>1. n \in 0..a /\ n # b /\ n + 1 \in 1..m /\ \A i \in 1..n : i \in 1..m
    BY <1>3, <1>4, <1>5, <1>8
  <2>2. \A i \in 1..n : p[i] = r[i]
    BY <1>4, <1>5, <2>1
  <2>3. p[n + 1] = q[n + 1]
    BY <1>4, <2>1
  <2> QED BY <1>5, <2>1, <2>2, <2>3
<1>9. CASE m = n
  <2>1. n # b
    BY <1>3, <1>4, <1>9
  <2>2. PairBefore(q[n + 1], r[n + 1])
    BY <1>5, <2>1
  <2>3. CASE m = a
    BY <1>4, <1>5, <1>9, <2>3
  <2>4. CASE m # a
    <3>1. PairBefore(p[m + 1], q[m + 1])
      BY <1>4, <2>4
    <3>2. m + 1 \in 1..a /\ m + 1 \in 1..b /\ m + 1 \in 1..c
      BY <1>3, <1>4, <1>5, <1>9, <2>4
    <3>3. /\ p[m + 1][1] \in Int /\ p[m + 1][2] \in Int /\ q[m + 1][1] \in Int /\ q[m + 1][2] \in Int
          /\ r[m + 1][1] \in Int /\ r[m + 1][2] \in Int
      BY <3>2, PostingsFacts DEF a, b, c
    <3>4. PairBefore(p[m + 1], r[m + 1])
      BY <1>9, <2>2, <3>1, <3>3 DEF PairBefore
    <3> QED BY <1>4, <1>5, <1>9, <3>4
  <2> QED BY <2>3, <2>4
<1> QED BY <1>3, <1>4, <1>5, <1>7, <1>8, <1>9

LEMMA SignaturesTotal ==
  ASSUME NEW p \in PostingsKind, NEW q \in PostingsKind
  PROVE  p = q \/ SignatureBefore(p, q) \/ SignatureBefore(q, p)
<1> DEFINE a == Len(p)
           b == Len(q)
           S == {n \in 0..a : n <= b /\ (n = a \/ n = b \/ p[n + 1] # q[n + 1])}
           n == Min(S)
<1>1. a \in Nat /\ b \in Nat
  BY PostingsFacts
<1>2. (IF a <= b THEN a ELSE b) \in S
  <2> HIDE DEF a, b
  <2> QED BY <1>1
<1>3. S \in SUBSET Nat /\ S # {}
  BY <1>1, <1>2
<1>4. n \in S /\ \A k \in S : n <= k
  <2> HIDE DEF S
  <2> QED BY <1>3, LeastOfNats
<1> HIDE DEF n
<1>5. n \in 0..a /\ n <= b /\ (n = a \/ n = b \/ p[n + 1] # q[n + 1])
  BY <1>4
<1>6. ASSUME NEW i \in 1..n PROVE p[i] = q[i]
  <2>1. i - 1 \in 0..a /\ i - 1 <= b /\ i - 1 # a /\ i - 1 # b /\ ~(n <= i - 1) /\ (i - 1) + 1 = i
    BY <1>1, <1>5
  <2>2. i - 1 \notin S
    BY <1>4, <2>1
  <2> QED BY <2>1, <2>2
<1> HIDE DEF S
<1>7. CASE n = a /\ n = b
  <2>1. p \in Seq(Int \X Int) /\ q \in Seq(Int \X Int) /\ Len(p) = n /\ Len(q) = n
    BY <1>7 DEF PostingsKind
  <2>2. p = q
    BY <1>6, <2>1
  <2> QED BY <2>2
<1>8. CASE n = a /\ n # b
  <2>1. n < b
    BY <1>1, <1>5, <1>8
  <2>2. BeforeAt(n, p, q)
    BY <1>5, <1>6, <1>8, <2>1 DEF BeforeAt
  <2> QED BY <2>2, BeforeIs
<1>9. CASE n = b /\ n # a
  <2>1. n < a /\ n \in 0..b
    BY <1>1, <1>5, <1>9
  <2>2. BeforeAt(n, q, p)
    BY <1>5, <1>6, <1>9, <2>1 DEF BeforeAt
  <2> QED BY <2>2, BeforeIs
<1>10. CASE n # a /\ n # b
  <2>1. n < a /\ n < b /\ n \in 0..b /\ n + 1 \in 1..a /\ n + 1 \in 1..b
    BY <1>1, <1>5, <1>10
  <2>2. p[n + 1] = <<p[n + 1][1], p[n + 1][2]>> /\ p[n + 1][1] \in Int /\ p[n + 1][2] \in Int
    BY <2>1, PostingsFacts
  <2>3. q[n + 1] = <<q[n + 1][1], q[n + 1][2]>> /\ q[n + 1][1] \in Int /\ q[n + 1][2] \in Int
    BY <2>1, PostingsFacts
  <2>4. p[n + 1][1] # q[n + 1][1] \/ p[n + 1][2] # q[n + 1][2]
    BY <1>5, <1>10, <2>2, <2>3
  <2>5. PairBefore(p[n + 1], q[n + 1]) \/ PairBefore(q[n + 1], p[n + 1])
    BY <2>2, <2>3, <2>4 DEF PairBefore
  <2>6. BeforeAt(n, p, q) \/ BeforeAt(n, q, p)
    BY <1>5, <1>6, <2>1, <2>5 DEF BeforeAt
  <2> QED BY <2>6, BeforeIs
<1> QED BY <1>7, <1>8, <1>9, <1>10

\* The first of a set, as many as fit.
LEMMA FirstOfOrder ==
  ASSUME NEW set, IsFiniteSet(set), NEW before, Orders(before, set), NEW cap \in Nat
  PROVE  LET some == {x \in set : Place(x, set, before) < cap}
         IN  /\ Cardinality(some) = Min({cap, Cardinality(set)})
             /\ \A x \in some, y \in set \ some : <<x, y>> \in before
<1> DEFINE P(x) == Place(x, set, before)
           some == {x \in set : P(x) < cap}
           n == Cardinality(set)
           m == IF cap <= n THEN cap ELSE n
<1>1. n \in Nat /\ m \in Nat
  BY FS_CardinalityType
<1>2. \A x \in set : P(x) \in 0..(n - 1)
  BY PlacesRise
<1>3. /\ \A i \in 0..(n - 1) : \E x \in set : P(x) = i
      /\ \A x, y \in set : P(x) = P(y) => x = y
      /\ \A x, y \in set : P(x) < P(y) => <<x, y>> \in before
  BY PlacesAreTaken
<1> HIDE DEF P, n
<1>4. Min({cap, n}) = m
  <2>1. {cap, n} \in SUBSET Int
    BY <1>1
  <2>2. m \in {cap, n} /\ \A k \in {cap, n} : m <= k
    BY <1>1
  <2> HIDE DEF m
  <2> QED BY <2>1, <2>2, LeastIsMin
<1>5. \A x \in set : x \in some <=> P(x) + 1 \in 1..m
  <2> SUFFICES ASSUME NEW x \in set PROVE P(x) < cap <=> P(x) + 1 \in 1..m
    OBVIOUS
  <2>1. P(x) \in 0..(n - 1)
    BY <1>2
  <2> QED BY <1>1, <2>1
<1> DEFINE f == [x \in some |-> P(x) + 1]
<1>6. f \in Bijection(some, 1..m)
  <2>1. f \in [some -> 1..m]
    BY <1>5
  <2>2. \A x, y \in some : f[x] = f[y] => x = y
    <3> SUFFICES ASSUME NEW x \in some, NEW y \in some, P(x) + 1 = P(y) + 1 PROVE x = y
      OBVIOUS
    <3>1. P(x) \in 0..(n - 1) /\ P(y) \in 0..(n - 1)
      BY <1>2
    <3>2. P(x) = P(y)
      BY <1>1, <3>1
    <3> QED BY <1>3, <3>2
  <2>3. ASSUME NEW i \in 1..m PROVE \E x \in some : f[x] = i
    <3>1. i - 1 \in 0..(n - 1) /\ (i - 1) + 1 = i
      BY <1>1
    <3>2. PICK x \in set : P(x) = i - 1
      BY <1>3, <3>1
    <3>3. x \in some
      BY <1>5, <3>1, <3>2
    <3> QED BY <3>1, <3>2, <3>3
  <2> HIDE DEF f, some
  <2>4. f \in Surjection(some, 1..m)
    BY <2>1, <2>3 DEF Surjection
  <2>5. f \in Injection(some, 1..m)
    BY <2>1, <2>2 DEF Injection, IsInjective
  <2> QED BY <2>4, <2>5 DEF Bijection
<1>7. IsFiniteSet(some)
  <2>1. some \subseteq set
    OBVIOUS
  <2> HIDE DEF some
  <2> QED BY <2>1, FS_Subset
<1>8. Cardinality(some) = m
  <2> HIDE DEF f, some
  <2>1. Cardinality(1..m) = Cardinality(some)
    BY <1>6, <1>7, FS_Bijection DEF ExistsBijection
  <2>2. Cardinality(1..m) = m
    <3>1. 1 \in Int /\ m \in Int /\ (1 > m => m = 0) /\ m - 1 + 1 = m
      BY <1>1
    <3> HIDE DEF m
    <3> QED BY <3>1, FS_Interval
  <2> QED BY <2>1, <2>2
<1>9. ASSUME NEW x \in some, NEW y \in set \ some PROVE <<x, y>> \in before
  <2>1. P(x) \in 0..(n - 1) /\ P(y) \in 0..(n - 1) /\ P(x) < cap /\ ~(P(y) < cap)
    BY <1>2
  <2>2. P(x) < P(y)
    BY <1>1, <2>1
  <2> QED BY <1>3, <2>2
<1> QED BY <1>4, <1>8, <1>9 DEF P, n

\* Series of one metric that can be compared.
Comparable(all) ==
  /\ IsFiniteSet(DOMAIN all) /\ DOMAIN all \subseteq PostingsKind
  /\ \A p \in DOMAIN all : Last(all[p].values) \in Int

\* The cap leaves as many as it allows, those with the largest last values.
LEMMA CappedIs ==
  ASSUME NEW all, Comparable(all)
  PROVE  /\ DOMAIN CappedSeries(all) \subseteq DOMAIN all
         /\ \A p \in DOMAIN CappedSeries(all) : CappedSeries(all)[p] = all[p]
         /\ Cardinality(DOMAIN CappedSeries(all)) = Min({Cap, Cardinality(DOMAIN all)})
         /\ \A p \in DOMAIN CappedSeries(all), q \in DOMAIN all \ DOMAIN CappedSeries(all) :
              Last(all[p].values) >= Last(all[q].values)
         /\ DOMAIN all # {} => DOMAIN CappedSeries(all) # {}
<1> DEFINE set == DOMAIN all
           v(p) == Last(all[p].values)
           before(p, q) == v(p) > v(q) \/ (v(p) = v(q) /\ SignatureBefore(p, q))
           order == {pair \in set \X set : before(pair[1], pair[2])}
           some == {p \in set : Place(p, set, order) < Cap}
           new == CappedSeries(all)
<1>0. IsFiniteSet(set) /\ set \subseteq PostingsKind /\ \A p \in set : v(p) \in Int
  BY DEF Comparable
<1>1. Cap \in Nat \ {0}
  BY StoreAssumption
<1>2. \A p, q \in set : <<p, q>> \in order <=> before(p, q)
  OBVIOUS
<1>3. new = Restrict(all, some)
  <2>1. new = Restrict(all, {p \in set : Cardinality({q \in set : before(q, p)}) < Cap})
    BY DEF CappedSeries
  <2>2. ASSUME NEW p \in set PROVE {q \in set : before(q, p)} = {q \in set : <<q, p>> \in order}
    BY <1>2
  <2>3. {p \in set : Cardinality({q \in set : before(q, p)}) < Cap} = some
    <3> HIDE DEF before, order
    <3> QED BY Zenon, <2>2 DEF Place
  <2> QED BY <2>1, <2>3
<1> HIDE DEF order, new
<1>4. DOMAIN new = some /\ \A p \in some : new[p] = all[p]
  <2>1. new = [p \in set \cap some |-> all[p]]
    BY <1>3 DEF Restrict
  <2>2. set \cap some = some
    OBVIOUS
  <2> HIDE DEF some, set
  <2> QED BY <2>1, <2>2
<1>5. Orders(order, set)
  <2> HIDE DEF set, v
  <2>1. \A x \in set : <<x, x>> \notin order
    <3> SUFFICES ASSUME NEW x \in set, before(x, x) PROVE FALSE
      BY <1>2
    <3>1. v(x) \in Int /\ ~SignatureBefore(x, x)
      BY <1>0, SignaturesIrreflexive
    <3> QED BY <3>1
  <2>2. ASSUME NEW x \in set, NEW y \in set, NEW z \in set, <<x, y>> \in order, <<y, z>> \in order PROVE <<x, z>> \in order
    <3>1. before(x, y) /\ before(y, z)
      BY <1>2, <2>2
    <3>2. v(x) \in Int /\ v(y) \in Int /\ v(z) \in Int
      BY <1>0
    <3>3. x \in PostingsKind /\ y \in PostingsKind /\ z \in PostingsKind
      BY <1>0
    <3>4. SignatureBefore(x, y) /\ SignatureBefore(y, z) => SignatureBefore(x, z)
      BY <3>3, SignaturesTransitive
    <3>5. before(x, z)
      BY <3>1, <3>2, <3>4
    <3> QED BY <1>2, <3>5
  <2>3. ASSUME NEW x \in set, NEW y \in set PROVE x = y \/ <<x, y>> \in order \/ <<y, x>> \in order
    <3>1. v(x) \in Int /\ v(y) \in Int /\ x \in PostingsKind /\ y \in PostingsKind
      BY <1>0
    <3>2. x = y \/ SignatureBefore(x, y) \/ SignatureBefore(y, x)
      BY <3>1, SignaturesTotal
    <3>3. x = y \/ before(x, y) \/ before(y, x)
      BY <3>1, <3>2
    <3> QED BY <1>2, <3>3
  <2> HIDE DEF before
  <2> QED BY <2>1, <2>2, <2>3 DEF Orders
<1>6. /\ Cardinality(some) = Min({Cap, Cardinality(set)})
      /\ \A x \in some, y \in set \ some : <<x, y>> \in order
  <2> HIDE DEF set
  <2> QED BY <1>0, <1>1, <1>5, FirstOfOrder
<1>7. ASSUME NEW p \in some, NEW q \in set \ some PROVE v(p) >= v(q)
  <2>1. p \in set /\ q \in set
    OBVIOUS
  <2>2. before(p, q)
    BY <1>2, <1>6, <2>1
  <2>3. v(p) \in Int /\ v(q) \in Int
    BY <1>0, <2>1
  <2> QED BY <2>2, <2>3
<1>8. ASSUME set # {} PROVE some # {}
  <2>1. Cardinality(set) \in Nat /\ Cardinality(set) # 0
    <3> HIDE DEF set
    <3>1. \A S : IsFiniteSet(S) => (Cardinality(S) = 0 <=> S = {})
      BY FS_EmptySet
    <3>2. Cardinality(set) \in Nat
      BY <1>0, FS_CardinalityType
    <3> QED BY <1>0, <1>8, <3>1, <3>2
  <2>2. {Cap, Cardinality(set)} \in SUBSET Nat /\ {Cap, Cardinality(set)} # {}
    BY <1>1, <2>1
  <2>3. Min({Cap, Cardinality(set)}) \in {Cap, Cardinality(set)}
    BY <2>2, LeastOfNats
  <2>4. Min({Cap, Cardinality(set)}) # 0
    BY <1>1, <2>1, <2>3
  <2>5. Cardinality({}) = 0
    BY FS_EmptySet
  <2>6. Cardinality(some) # 0
    BY <1>6, <2>4
  <2> HIDE DEF some, set
  <2> QED BY <2>5, <2>6
<1>9. some \subseteq set
  OBVIOUS
<1> HIDE DEF some
<1> QED BY <1>4, <1>6, <1>7, <1>8, <1>9 DEF new

-----------------------------------------------------------------------------
(* Calls.                                                                   *)

SampleOK(sample) == sample.name \in Texts /\ sample.value \in Int /\ LabelsOf(sample) \in LabelSets

CallOK(call) ==
  /\ call.target \in Targets /\ call.at \in Times
  /\ call.key \in Texts /\ call.key # NoString
  /\ Len(call.samples) \in Nat /\ DOMAIN call.samples = 1..Len(call.samples)
  /\ \A i \in DOMAIN call.samples : SampleOK(call.samples[i])
  /\ Len(call.descs) \in Nat /\ DOMAIN call.descs = 1..Len(call.descs)
  /\ \A i \in DOMAIN call.descs : call.descs[i].text \in Texts

\* The finite samples of a metric.
Finites(call, name) ==
  {i \in DOMAIN call.samples : call.samples[i].name = name /\ call.samples[i].value # NaN}

\* All of these, each once, from the largest value to the smallest.
Descending(call, name, sorted) ==
  /\ sorted \in Seq(Finites(call, name)) /\ Len(sorted) = Cardinality(Finites(call, name))
  /\ \A i, j \in 1..Len(sorted) : i < j =>
       sorted[i] # sorted[j] /\ call.samples[sorted[i]].value >= call.samples[sorted[j]].value
  /\ \A x \in Finites(call, name) : \E i \in 1..Len(sorted) : sorted[i] = x

LEMMA FinitesAre ==
  ASSUME NEW call, CallOK(call), NEW name
  PROVE  /\ IsFiniteSet(Finites(call, name)) /\ Finites(call, name) \subseteq DOMAIN call.samples
         /\ Finites(call, name) \subseteq Nat /\ Cardinality(Finites(call, name)) \in Nat
<1>1. Len(call.samples) \in Nat /\ DOMAIN call.samples = 1..Len(call.samples)
  BY DEF CallOK
<1>2. IsFiniteSet(1..Len(call.samples)) /\ 1..Len(call.samples) \subseteq Nat
  <2> DEFINE n == Len(call.samples)
  <2>1. n \in Nat
    BY <1>1
  <2> HIDE DEF n
  <2>2. 1 \in Int /\ n \in Int /\ 1..n \subseteq Nat
    BY <2>1
  <2>3. IsFiniteSet(1..n)
    BY <2>2, FS_Interval
  <2> QED BY <2>2, <2>3 DEF n
<1>3. Finites(call, name) \subseteq 1..Len(call.samples)
  BY <1>1 DEF Finites
<1>4. IsFiniteSet(Finites(call, name))
  BY <1>2, <1>3, FS_Subset
<1> QED BY <1>1, <1>2, <1>3, <1>4, FS_CardinalityType

\* The samples that are taken are the first of them, in that order.
FirstAre(call, name, sorted) ==
  /\ Descending(call, name, sorted)
  /\ Observed(call, name) = [n \in 1..Min({Cap, Cardinality(Finites(call, name))}) |-> call.samples[sorted[n]]]

LEMMA ObservedAre ==
  ASSUME NEW call, CallOK(call), NEW name
  PROVE  \E sorted : FirstAre(call, name, sorted)
<1> DEFINE finite == {i \in DOMAIN call.samples : call.samples[i].name = name /\ call.samples[i].value # NaN}
           value(i) == call.samples[i].value
           labels(i) == CHOOSE c \in DOMAIN Canonical : Canonical[c] = LabelsOf(call.samples[i])
           before(i, j) ==
             \/ value(i) > value(j)
             \/ value(i) = value(j) /\ (labels(i) < labels(j) \/ (labels(i) = labels(j) /\ i < j))
           order == {pair \in finite \X finite : before(pair[1], pair[2])}
           sorted == Ranked(finite, order)
<1>1. Observed(call, name) = [n \in 1..Min({Cap, Cardinality(finite)}) |-> call.samples[sorted[n]]]
  BY Zenon DEF Observed
<1>2. finite = Finites(call, name)
  BY DEF Finites
<1>3. IsFiniteSet(finite) /\ finite \subseteq DOMAIN call.samples /\ finite \subseteq Nat
  BY <1>2, FinitesAre
<1> HIDE DEF finite
<1>4. \A i \in finite : value(i) \in Int /\ LabelsOf(call.samples[i]) \in LabelSets
  BY <1>3 DEF CallOK, SampleOK
<1>5. \A i \in finite : labels(i) \in Int
  <2> TAKE i \in finite
  <2> DEFINE l == LabelsOf(call.samples[i])
  <2>1. \E c \in DOMAIN Canonical : Canonical[c] = l
    <3>1. l \in Range(Canonical)
      BY <1>4 DEF LabelSets
    <3> HIDE DEF l
    <3> QED BY <3>1 DEF Range
  <2>2. labels(i) \in DOMAIN Canonical
    <3> HIDE DEF l
    <3>1. (CHOOSE c \in DOMAIN Canonical : Canonical[c] = l) \in DOMAIN Canonical
      BY <2>1
    <3> QED BY <3>1 DEF l
  <2>3. DOMAIN Canonical \subseteq Int
    <3>1. Canonical \in Seq(Range(Canonical))
      BY StoreAssumption
    <3> QED BY <3>1
  <2> QED BY <2>2, <2>3
<1> HIDE DEF value, labels
<1>6. \A i, j \in finite : <<i, j>> \in order <=> before(i, j)
  OBVIOUS
<1> HIDE DEF order
<1>7. Orders(order, finite)
  <2>1. \A x \in finite : <<x, x>> \notin order
    <3> SUFFICES ASSUME NEW x \in finite, before(x, x) PROVE FALSE
      BY <1>6
    <3>1. value(x) \in Int /\ labels(x) \in Int /\ x \in Nat
      BY <1>3, <1>4, <1>5 DEF value
    <3> QED BY <3>1
  <2>2. ASSUME NEW x \in finite, NEW y \in finite, NEW z \in finite, <<x, y>> \in order, <<y, z>> \in order PROVE <<x, z>> \in order
    <3>1. before(x, y) /\ before(y, z)
      BY <1>6, <2>2
    <3>2. value(x) \in Int /\ labels(x) \in Int /\ x \in Nat /\ value(y) \in Int /\ labels(y) \in Int /\ y \in Nat
          /\ value(z) \in Int /\ labels(z) \in Int /\ z \in Nat
      BY <1>3, <1>4, <1>5 DEF value
    <3>3. before(x, z)
      BY <3>1, <3>2
    <3> QED BY <1>6, <3>3
  <2>3. ASSUME NEW x \in finite, NEW y \in finite PROVE x = y \/ <<x, y>> \in order \/ <<y, x>> \in order
    <3>1. value(x) \in Int /\ labels(x) \in Int /\ x \in Nat /\ value(y) \in Int /\ labels(y) \in Int /\ y \in Nat
      BY <1>3, <1>4, <1>5 DEF value
    <3>2. x = y \/ before(x, y) \/ before(y, x)
      BY <3>1
    <3> QED BY <1>6, <3>2
  <2> HIDE DEF before
  <2> QED BY <2>1, <2>2, <2>3 DEF Orders
<1>8. InOrder(sorted, finite, order)
  BY <1>3, <1>7, RankedInOrder
<1> HIDE DEF sorted
<1>9. /\ sorted \in Seq(finite) /\ Len(sorted) = Cardinality(finite)
      /\ \A i, j \in 1..Len(sorted) : i < j => <<sorted[i], sorted[j]>> \in order
      /\ \A x \in finite : \E i \in 1..Len(sorted) : sorted[i] = x
  BY <1>8 DEF InOrder
<1>10. ASSUME NEW i \in 1..Len(sorted), NEW j \in 1..Len(sorted), i < j
       PROVE  sorted[i] # sorted[j] /\ value(sorted[i]) >= value(sorted[j])
  <2>1. sorted[i] \in finite /\ sorted[j] \in finite /\ <<sorted[i], sorted[j]>> \in order
    BY <1>9, <1>10
  <2>2. before(sorted[i], sorted[j]) /\ sorted[i] # sorted[j]
    BY <1>6, <1>7, <2>1 DEF Orders
  <2>3. value(sorted[i]) \in Int /\ value(sorted[j]) \in Int
    BY <1>4, <2>1 DEF value
  <2> HIDE DEF finite
  <2> QED BY <2>2, <2>3
<1>11. Descending(call, name, sorted)
  BY <1>2, <1>9, <1>10 DEF Descending, value
<1>12. FirstAre(call, name, sorted)
  BY Zenon, <1>1, <1>2, <1>11 DEF FirstAre
<1> QED BY <1>12

\* How many there are of them.
LEMMA ObservedFacts ==
  ASSUME NEW call, CallOK(call), NEW name
  PROVE  LET m == Min({Cap, Cardinality(Finites(call, name))})
             seen == Observed(call, name)
         IN  /\ m \in Nat /\ m <= Cap /\ m <= Cardinality(Finites(call, name))
             /\ Len(seen) = m /\ DOMAIN seen = 1..m
             /\ \A i \in 1..m : SampleOK(seen[i]) /\ seen[i].name = name
             /\ Finites(call, name) # {} => m # 0
<1> DEFINE n == Cardinality(Finites(call, name))
           m == Min({Cap, n})
           seen == Observed(call, name)
<1>1. n \in Nat /\ IsFiniteSet(Finites(call, name)) /\ Finites(call, name) \subseteq DOMAIN call.samples
  BY FinitesAre
<1>2. Cap \in Nat \ {0}
  BY StoreAssumption
<1>3. Finites(call, name) # {} => n # 0
  <2>1. \A S : IsFiniteSet(S) => (Cardinality(S) = 0 <=> S = {})
    BY FS_EmptySet
  <2> QED BY <1>1, <2>1
<1> HIDE DEF n
<1>4. m \in {Cap, n} /\ m <= Cap /\ m <= n
  <2>1. {Cap, n} \in SUBSET Nat /\ {Cap, n} # {}
    BY <1>1, <1>2
  <2> QED BY <2>1, LeastOfNats
<1> HIDE DEF m
<1>5. m \in Nat
  BY <1>1, <1>2, <1>4
<1>6. PICK sorted : Descending(call, name, sorted) /\ seen = [i \in 1..m |-> call.samples[sorted[i]]]
  <2>1. \E sorted : FirstAre(call, name, sorted)
    BY ObservedAre
  <2> QED BY Zenon, <2>1 DEF FirstAre, m, n
<1> HIDE DEF seen
<1>7. sorted \in Seq(Finites(call, name)) /\ Len(sorted) = n
  BY <1>6 DEF Descending, n
<1>8. \A i \in 1..m : sorted[i] \in Finites(call, name)
  <2>1. \A i \in 1..m : i \in 1..n
    BY <1>1, <1>4, <1>5
  <2> QED BY <1>7, <2>1
<1>9. \A i \in 1..m : SampleOK(seen[i]) /\ seen[i].name = name
  <2>1. ASSUME NEW i \in 1..m PROVE SampleOK(seen[i]) /\ seen[i].name = name
    <3>1. seen[i] = call.samples[sorted[i]]
      BY <1>6
    <3>2. sorted[i] \in DOMAIN call.samples /\ call.samples[sorted[i]].name = name
      BY <1>8 DEF Finites
    <3> QED BY <3>1, <3>2 DEF CallOK
  <2> QED BY <2>1
<1>10. DOMAIN seen = 1..m /\ Len(seen) = m
  <2>1. seen = [i \in 1..m |-> call.samples[sorted[i]]]
    BY <1>6
  <2> QED BY <1>5, <2>1
<1>11. Finites(call, name) # {} => m # 0
  BY <1>2, <1>3, <1>4
<1> QED BY <1>4, <1>5, <1>9, <1>10, <1>11 DEF m, n, seen

-----------------------------------------------------------------------------
(* Adding a sample.                                                         *)

\* How the points change when a sample of series s is added.
PointsAdded(old, new, s, at, value) ==
  IF \E y \in old : y[1] = s /\ y[2] > at THEN new = old
  ELSE new = {y \in old : ~(y[1] = s /\ y[2] = at)} \cup {<<s, at, value>>}

\* The series of a metric, with a sample more.
WithSample(all, p, at, value) ==
  [q \in DOMAIN all \cup {p} |->
     IF q = p THEN Add(IF p \in DOMAIN all THEN all[p] ELSE NewSeries, at, value) ELSE all[q]]

\* Points of one series become these, and others stay.
LEMMA PointsMove ==
  ASSUME NEW Q, NEW R, NEW s, NEW O, NEW N, NEW at, NEW value,
         \A y : y \in Q /\ y[1] = s <=> \E x \in O : y = <<s, x[1], x[2]>>,
         \A y : y \in R /\ y[1] = s <=> \E x \in N : y = <<s, x[1], x[2]>>,
         \A y : y[1] # s => (y \in Q <=> y \in R),
         PointAdded(O, N, at, value)
  PROVE  PointsAdded(Q, R, s, at, value)
<1>1. \A x \in O : <<s, x[1], x[2]>> \in Q /\ <<s, x[1], x[2]>>[1] = s /\ <<s, x[1], x[2]>>[2] = x[1]
  OBVIOUS
<1>2. CASE \E x \in O : x[1] > at
  <2>1. N = O
    BY <1>2 DEF PointAdded
  <2>2. \A y : y \in Q <=> y \in R
    BY <2>1
  <2>3. R = Q
    BY <2>2
  <2>4. PICK x \in O : x[1] > at
    BY <1>2
  <2>5. \E y \in Q : y[1] = s /\ y[2] > at
    BY <1>1, <2>4
  <2> QED BY <2>3, <2>5 DEF PointsAdded
<1>3. CASE ~(\E x \in O : x[1] > at)
  <2>1. N = {x \in O : x[1] # at} \cup {<<at, value>>}
    BY <1>3 DEF PointAdded
  <2>2. ~(\E y \in Q : y[1] = s /\ y[2] > at)
    <3> SUFFICES ASSUME NEW y \in Q, y[1] = s, y[2] > at PROVE FALSE
      OBVIOUS
    <3>1. PICK x \in O : y = <<s, x[1], x[2]>>
      OBVIOUS
    <3>2. y[2] = x[1]
      BY <3>1
    <3> QED BY <1>3, <3>2
  <2> DEFINE T == {y \in Q : ~(y[1] = s /\ y[2] = at)} \cup {<<s, at, value>>}
  <2>3. ASSUME NEW y \in R PROVE y \in T
    <3>1. CASE y[1] # s
      BY <3>1
    <3>2. CASE y[1] = s
      <4>1. PICK x \in N : y = <<s, x[1], x[2]>>
        BY <3>2
      <4>2. CASE x = <<at, value>>
        <5>1. x[1] = at /\ x[2] = value
          BY <4>2
        <5> QED BY <4>1, <5>1
      <4>3. CASE x # <<at, value>>
        <5>1. x \in O /\ x[1] # at
          BY <2>1, <4>3
        <5>2. y \in Q /\ y[2] = x[1]
          BY <1>1, <4>1, <5>1
        <5> QED BY <5>1, <5>2
      <4> QED BY <4>2, <4>3
    <3> QED BY <3>1, <3>2
  <2>4. ASSUME NEW y \in Q, ~(y[1] = s /\ y[2] = at) PROVE y \in R
    <3>1. CASE y[1] # s
      BY <3>1
    <3>2. CASE y[1] = s
      <4>1. PICK x \in O : y = <<s, x[1], x[2]>>
        BY <3>2
      <4>2. y[2] = x[1]
        BY <4>1
      <4>3. x \in N
        BY <2>1, <2>4, <3>2, <4>2
      <4> QED BY <4>1, <4>3
    <3> QED BY <3>1, <3>2
  <2>5. <<s, at, value>> \in R
    <3> DEFINE x == <<at, value>>
    <3>1. x \in N /\ x[1] = at /\ x[2] = value
      BY <2>1
    <3> HIDE DEF x
    <3>2. <<s, x[1], x[2]>> = <<s, at, value>>
      BY <3>1
    <3> QED BY <3>1, <3>2
  <2>6. R = T
    BY <2>3, <2>4, <2>5
  <2> QED BY <2>2, <2>6 DEF PointsAdded
<1> QED BY <1>2, <1>3

LEMMA SamplePut ==
  ASSUME NEW d \in Dicts, NEW tree, SeriesAllOK(d, tree), NEW k \in DOMAIN tree, NEW n \in DOMAIN tree[k],
         k \in 1..Len(d), n \in 0..Len(d), NEW labels \in LabelSets, HasLabels(d, labels),
         NEW at \in Int, NEW value \in Int
  PROVE  LET new == Put(tree, k, n, WithSample(tree[k][n], Postings(d, labels), at, value))
         IN  /\ SeriesAllOK(d, new)
             /\ PointsAdded(PointsIn(d, tree), PointsIn(d, new), <<Lookup(d, k), Lookup(d, n), labels>>, at, value)
<1> DEFINE p == Postings(d, labels)
           all == tree[k][n]
           old == IF p \in DOMAIN all THEN all[p] ELSE NewSeries
           series == WithSample(all, p, at, value)
           new == Put(tree, k, n, series)
           j == <<k, n, p>>
           s == <<Lookup(d, k), Lookup(d, n), labels>>
<1>1. IdOK(d, j) /\ MeantIn(d, j) = s
  <2>1. j[1] = k /\ j[2] = n /\ j[3] = p
    OBVIOUS
  <2>2. Labels(d, p) = labels
    BY LabelsAgain
  <2> HIDE DEF p
  <2>3. j = <<j[1], j[2], j[3]>>
    OBVIOUS
  <2>4. MeantIn(d, j) = s
    BY <2>1, <2>2 DEF MeantIn
  <2> HIDE DEF j, s
  <2>5. \E l \in LabelSets : HasLabels(d, l) /\ j[3] = Postings(d, l)
    BY <2>1 DEF p
  <2> QED BY <2>1, <2>3, <2>4, <2>5 DEF IdOK
<1>2. DOMAIN series = DOMAIN all \cup {p} /\ series[p] = Add(old, at, value) /\ \A q \in DOMAIN all : q # p => series[q] = all[q]
  <2> HIDE DEF p
  <2> QED BY DEF WithSample
<1>3. /\ \A i : i \in SeriesIds(new) <=>
           \/ i \in SeriesIds(tree) /\ ~In(i, k, n)
           \/ i = <<k, n, i[3]>> /\ i[3] \in DOMAIN series
      /\ \A i \in SeriesIds(new) : At(new, i) = IF In(i, k, n) THEN series[i[3]] ELSE At(tree, i)
  <2> HIDE DEF series
  <2> QED BY PutIds
<1>4. \A i : i \in SeriesIds(tree) <=>
           /\ i = <<i[1], i[2], i[3]>> /\ i[1] \in DOMAIN tree
           /\ i[2] \in DOMAIN tree[i[1]] /\ i[3] \in DOMAIN tree[i[1]][i[2]]
  BY IdsOfTree
<1>5. j[1] = k /\ j[2] = n /\ j[3] = p /\ j = <<k, n, j[3]>>
  OBVIOUS
<1>6. j \in SeriesIds(tree) <=> p \in DOMAIN all
  BY <1>4, <1>5
<1> HIDE DEF p, j, series, new
<1>7. \A i : i \in SeriesIds(new) <=> i \in SeriesIds(tree) \/ i = j
  <2>1. ASSUME NEW i, i \in SeriesIds(new) PROVE i \in SeriesIds(tree) \/ i = j
    <3>1. CASE i \in SeriesIds(tree) /\ ~In(i, k, n)
      BY <3>1
    <3>2. CASE i = <<k, n, i[3]>> /\ i[3] \in DOMAIN series
      <4>1. i[1] = k /\ i[2] = n
        BY <3>2
      <4>2. CASE i[3] = p
        BY <1>5, <3>2, <4>2
      <4>3. CASE i[3] \in DOMAIN all
        BY <1>4, <3>2, <4>1, <4>3
      <4> QED BY <1>2, <3>2, <4>2, <4>3
    <3> QED BY <1>3, <2>1, <3>1, <3>2
  <2>2. ASSUME NEW i, i \in SeriesIds(tree) PROVE i \in SeriesIds(new)
    <3>1. CASE In(i, k, n)
      <4>1. i[1] = k /\ i[2] = n
        BY <3>1 DEF In
      <4>2. i[3] \in DOMAIN series /\ i = <<k, n, i[3]>>
        BY <1>2, <1>4, <2>2, <4>1
      <4> QED BY <1>3, <4>2
    <3> QED BY <1>3, <2>2, <3>1
  <2>3. j \in SeriesIds(new)
    BY <1>2, <1>3, <1>5
  <2> QED BY <2>1, <2>2, <2>3
<1>8. At(new, j) = Add(old, at, value)
  <2>1. j \in SeriesIds(new) /\ In(j, k, n)
    BY <1>5, <1>7 DEF In
  <2> QED BY <1>2, <1>3, <1>5, <2>1
<1>9. \A i \in SeriesIds(tree) : i # j => At(new, i) = At(tree, i)
  <2> TAKE i \in SeriesIds(tree)
  <2> SUFFICES ASSUME i # j PROVE At(new, i) = At(tree, i)
    OBVIOUS
  <2>1. i \in SeriesIds(new)
    BY <1>7
  <2>2. CASE In(i, k, n)
    <3>1. i[1] = k /\ i[2] = n
      BY <2>2 DEF In
    <3>2. i[3] # p /\ i[3] \in DOMAIN all
      BY <1>4, <1>5, <3>1
    <3>3. At(new, i) = all[i[3]]
      BY <1>2, <1>3, <2>1, <2>2, <3>2
    <3> QED BY <3>1, <3>3 DEF At
  <2> QED BY <1>3, <2>1, <2>2
<1>10. old = IF j \in SeriesIds(tree) THEN At(tree, j) ELSE NewSeries
  BY <1>5, <1>6 DEF At
<1> HIDE DEF old
<1>11. \A i \in SeriesIds(tree) : IdOK(d, i) /\ SeriesOK(At(tree, i)) /\ At(tree, i).values # <<>>
  BY DEF SeriesAllOK
<1>12. SeriesOK(old)
  BY <1>10, <1>11, NewSeriesOK
<1>13. SeriesOK(At(new, j)) /\ At(new, j).values # <<>> /\ PointAdded(PointsOf(old), PointsOf(At(new, j)), at, value)
  BY <1>8, <1>12, AddIs
<1>14. SeriesAllOK(d, new)
  <2>1. SeriesIds(new) = SeriesIds(tree) \cup {j}
    BY <1>7
  <2>2. IsFiniteSet(SeriesIds(new))
    BY <2>1, FS_AddElement DEF SeriesAllOK
  <2>3. \A i \in SeriesIds(new) : IdOK(d, i) /\ SeriesOK(At(new, i)) /\ At(new, i).values # <<>>
    BY <1>1, <1>7, <1>9, <1>11, <1>13
  <2> QED BY <2>2, <2>3 DEF SeriesAllOK
<1>15. \A i \in SeriesIds(tree) : MeantIn(d, i) = s <=> i = j
  BY <1>1, <1>11, MeantOnce
<1> HIDE DEF s
<1>16. \A y : y \in PointsIn(d, tree) <=>
         \E i \in SeriesIds(tree) : \E x \in PointsOf(At(tree, i)) : y = <<MeantIn(d, i), x[1], x[2]>>
  BY PointsAre
<1>17. \A y : y \in PointsIn(d, new) <=>
         \E i \in SeriesIds(new) : \E x \in PointsOf(At(new, i)) : y = <<MeantIn(d, i), x[1], x[2]>>
  BY PointsAre
<1>18. PointsOf(NewSeries) = {}
  BY NewSeriesOK DEF PointsOf
<1>19. ASSUME NEW y PROVE y \in PointsIn(d, tree) /\ y[1] = s <=> \E x \in PointsOf(old) : y = <<s, x[1], x[2]>>
  <2>1. ASSUME y \in PointsIn(d, tree), y[1] = s PROVE \E x \in PointsOf(old) : y = <<s, x[1], x[2]>>
    <3>1. PICK i \in SeriesIds(tree) : \E x \in PointsOf(At(tree, i)) : y = <<MeantIn(d, i), x[1], x[2]>>
      BY <1>16, <2>1
    <3>2. MeantIn(d, i) = s
      BY <2>1, <3>1
    <3>3. i = j
      BY <1>15, <3>2
    <3> QED BY <1>10, <3>1, <3>2, <3>3
  <2>2. ASSUME NEW x \in PointsOf(old), y = <<s, x[1], x[2]>> PROVE y \in PointsIn(d, tree) /\ y[1] = s
    <3>1. j \in SeriesIds(tree) /\ old = At(tree, j)
      BY <1>10, <1>18
    <3> QED BY <1>1, <1>16, <2>2, <3>1 DEF s
  <2> QED BY <2>1, <2>2
<1>20. ASSUME NEW y PROVE y \in PointsIn(d, new) /\ y[1] = s <=> \E x \in PointsOf(At(new, j)) : y = <<s, x[1], x[2]>>
  <2>1. ASSUME y \in PointsIn(d, new), y[1] = s PROVE \E x \in PointsOf(At(new, j)) : y = <<s, x[1], x[2]>>
    <3>1. PICK i \in SeriesIds(new) : \E x \in PointsOf(At(new, i)) : y = <<MeantIn(d, i), x[1], x[2]>>
      BY <1>17, <2>1
    <3>2. MeantIn(d, i) = s
      BY <2>1, <3>1
    <3>3. i = j
      BY <1>7, <1>15, <3>2
    <3> QED BY <3>1, <3>2, <3>3
  <2>2. ASSUME NEW x \in PointsOf(At(new, j)), y = <<s, x[1], x[2]>> PROVE y \in PointsIn(d, new) /\ y[1] = s
    <3>1. j \in SeriesIds(new)
      BY <1>7
    <3> QED BY <1>1, <1>17, <2>2, <3>1 DEF s
  <2> QED BY <2>1, <2>2
<1>21. ASSUME NEW y, y[1] # s PROVE y \in PointsIn(d, tree) <=> y \in PointsIn(d, new)
  <2>1. ASSUME y \in PointsIn(d, tree) PROVE y \in PointsIn(d, new)
    <3>1. PICK i \in SeriesIds(tree) : \E x \in PointsOf(At(tree, i)) : y = <<MeantIn(d, i), x[1], x[2]>>
      BY <1>16, <2>1
    <3>2. MeantIn(d, i) # s
      BY <1>21, <3>1
    <3>3. i # j
      BY <1>15, <3>2
    <3> QED BY <1>7, <1>9, <1>17, <3>1, <3>3
  <2>2. ASSUME y \in PointsIn(d, new) PROVE y \in PointsIn(d, tree)
    <3>1. PICK i \in SeriesIds(new) : \E x \in PointsOf(At(new, i)) : y = <<MeantIn(d, i), x[1], x[2]>>
      BY <1>17, <2>2
    <3>2. MeantIn(d, i) # s
      BY <1>21, <3>1
    <3>3. i # j
      BY <1>1, <3>2 DEF s
    <3>4. i \in SeriesIds(tree) /\ At(new, i) = At(tree, i)
      BY <1>7, <1>9, <3>3
    <3> QED BY <1>16, <3>1, <3>4
  <2> QED BY <2>1, <2>2
<1>22. PointsAdded(PointsIn(d, tree), PointsIn(d, new), s, at, value)
  <2> DEFINE Q == PointsIn(d, tree)
             R == PointsIn(d, new)
             O == PointsOf(old)
             N == PointsOf(At(new, j))
  <2>1. /\ \A y : y \in Q /\ y[1] = s <=> \E x \in O : y = <<s, x[1], x[2]>>
        /\ \A y : y \in R /\ y[1] = s <=> \E x \in N : y = <<s, x[1], x[2]>>
        /\ \A y : y[1] # s => (y \in Q <=> y \in R)
        /\ PointAdded(O, N, at, value)
    BY <1>13, <1>19, <1>20, <1>21
  <2> HIDE DEF Q, R, O, N
  <2>2. PointsAdded(Q, R, s, at, value)
    BY <2>1, PointsMove
  <2> QED BY <2>2 DEF Q, R
<1> QED BY <1>14, <1>22 DEF new, series, p, s

-----------------------------------------------------------------------------
(* The samples of one metric.                                               *)

DescsOK(d, texts) == \A m \in DOMAIN texts : texts[m] \in 0..Len(d)

\* No empty branches, but for one that may be.
FullBut(tree, k, n) ==
  \A j \in DOMAIN tree : DOMAIN tree[j] # {} /\ \A m \in DOMAIN tree[j] : (j = k /\ m = n) \/ DOMAIN tree[j][m] # {}

\* While samples of metric n of key k are added.
StateAt(state, k, n) ==
  /\ state.dict \in Dicts /\ SeriesAllOK(state.dict, state.keys) /\ DescsOK(state.dict, state.descs)
  /\ k \in 1..Len(state.dict) /\ n \in 0..Len(state.dict)
  /\ k \in DOMAIN state.keys /\ n \in DOMAIN state.keys[k] /\ FullBut(state.keys, k, n)

StatePoints(state) == PointsIn(state.dict, state.keys)

SameBranches(tree, new) ==
  DOMAIN new = DOMAIN tree /\ \A j \in DOMAIN tree : DOMAIN new[j] = DOMAIN tree[j]

\* How the points of a state change when a sample of metric n of key k is added.
SampleMade(state, new, k, n, at, sample) ==
  PointsAdded(StatePoints(state), StatePoints(new),
              <<Lookup(state.dict, k), Lookup(state.dict, n), LabelsOf(sample)>>, at, sample.value)

LEMMA DescsStay ==
  ASSUME NEW d, NEW e, Extends(d, e), NEW texts, DescsOK(d, texts)
  PROVE  DescsOK(e, texts)
BY IdsStay DEF DescsOK

LEMMA AddSampleIs ==
  ASSUME NEW state, NEW k, NEW n, StateAt(state, k, n), NEW at \in Int, NEW sample, SampleOK(sample)
  PROVE  LET new == AddSample(state, at, sample, k, n)
         IN  /\ StateAt(new, k, n) /\ Extends(state.dict, new.dict) /\ new.descs = state.descs
             /\ SameBranches(state.keys, new.keys) /\ DOMAIN new.keys[k][n] # {}
             /\ SampleMade(state, new, k, n, at, sample)
<1> DEFINE labels == LabelsOf(sample)
           d == InternAll(state.dict, FlattenSeq(LabelPairs(labels)))
           p == Postings(d, labels)
           all == state.keys[k][n]
           series == WithSample(all, p, at, sample.value)
           tree == Put(state.keys, k, n, series)
           new == AddSample(state, at, sample, k, n)
<1>1. new = [dict |-> d, keys |-> tree, descs |-> state.descs, removed |-> state.removed]
  BY Zenon DEF AddSample, Put, WithSample
<1>2. new.dict = d /\ new.keys = tree /\ new.descs = state.descs
  <2> HIDE DEF d, tree, new
  <2> QED BY <1>1
<1>3. state.dict \in Dicts /\ labels \in LabelSets /\ sample.value \in Int
  BY DEF StateAt, SampleOK
<1> HIDE DEF labels
<1>4. Extends(state.dict, d) /\ HasLabels(d, labels)
  BY <1>3, LabelsInterned
<1> HIDE DEF d
<1>5. d \in Dicts
  BY <1>4 DEF Extends
<1>6. SeriesAllOK(d, state.keys) /\ PointsIn(d, state.keys) = StatePoints(state)
  BY <1>4, PointsStay DEF StateAt, StatePoints
<1>7. k \in 1..Len(d) /\ n \in 0..Len(d)
  BY <1>4, IdsStay DEF StateAt
<1>8. /\ k \in DOMAIN state.keys /\ n \in DOMAIN state.keys[k] /\ FullBut(state.keys, k, n)
      /\ k \in 1..Len(state.dict) /\ n \in 0..Len(state.dict)
  BY DEF StateAt
<1>9. /\ SeriesAllOK(d, tree)
      /\ PointsAdded(PointsIn(d, state.keys), PointsIn(d, tree), <<Lookup(d, k), Lookup(d, n), labels>>, at, sample.value)
  BY <1>3, <1>4, <1>5, <1>6, <1>7, <1>8, SamplePut
<1>10. Lookup(d, k) = Lookup(state.dict, k) /\ Lookup(d, n) = Lookup(state.dict, n)
  <2>1. k \in 0..Len(state.dict)
    <3>1. Len(state.dict) \in Nat
      BY <1>3 DEF Dicts
    <3> DEFINE len == Len(state.dict)
    <3>2. len \in Nat /\ k \in 1..len
      BY <1>8, <3>1
    <3> HIDE DEF len
    <3>3. k \in 0..len
      BY <3>2
    <3> QED BY <3>3 DEF len
  <2> QED BY <1>4, <1>8, <2>1, IdsStay
<1>11. /\ DOMAIN tree = DOMAIN state.keys
       /\ \A j \in DOMAIN state.keys : DOMAIN tree[j] = DOMAIN state.keys[j]
       /\ \A j \in DOMAIN state.keys : \A m \in DOMAIN state.keys[j] :
            tree[j][m] = IF j = k /\ m = n THEN series ELSE state.keys[j][m]
  <2> HIDE DEF series
  <2> QED BY <1>8, PutIs
<1>12. DOMAIN series # {}
  BY DEF WithSample
<1> HIDE DEF series, tree, new
<1>13. FullBut(tree, k, n)
  BY <1>8, <1>11 DEF FullBut
<1>14. DOMAIN tree[k][n] # {} /\ k \in DOMAIN tree /\ n \in DOMAIN tree[k]
  BY <1>8, <1>11, <1>12
<1>15. DescsOK(d, state.descs)
  BY <1>4, DescsStay DEF StateAt
<1>16. StateAt(new, k, n)
  BY <1>2, <1>5, <1>7, <1>9, <1>13, <1>14, <1>15 DEF StateAt
<1>17. SameBranches(state.keys, new.keys)
  BY <1>2, <1>11 DEF SameBranches
<1>18. SampleMade(state, new, k, n, at, sample)
  BY <1>2, <1>6, <1>9, <1>10 DEF SampleMade, StatePoints, labels
<1> QED BY <1>2, <1>4, <1>14, <1>16, <1>17, <1>18 DEF new

\* The points, from sample to sample.
SamplesCount(points, more, key, name, at, samples) ==
  \E Q : /\ Q[0] = points /\ Q[Len(samples)] = more
         /\ \A i \in 1..Len(samples) :
              PointsAdded(Q[i - 1], Q[i], <<key, name, LabelsOf(samples[i])>>, at, samples[i].value)

LEMMA AddSamplesAre ==
  ASSUME NEW state, NEW k, NEW n, StateAt(state, k, n), NEW at \in Int,
         NEW samples, Len(samples) \in Nat, DOMAIN samples = 1..Len(samples),
         \A i \in 1..Len(samples) : SampleOK(samples[i])
  PROVE  LET new == AddSamples(state, at, samples, k, n)
         IN  /\ StateAt(new, k, n) /\ Extends(state.dict, new.dict) /\ new.descs = state.descs
             /\ SameBranches(state.keys, new.keys)
             /\ Len(samples) # 0 => DOMAIN new.keys[k][n] # {}
             /\ SamplesCount(StatePoints(state), StatePoints(new),
                             Lookup(state.dict, k), Lookup(state.dict, n), at, samples)
<1> DEFINE len == Len(samples)
           key == Lookup(state.dict, k)
           name == Lookup(state.dict, n)
           new == AddSamples(state, at, samples, k, n)
<1>1. PICK f : SamplesSteps(at, k, n, state, samples, f) /\ new = f[len]
  BY SamplesFolds
<1>2. f[0] = state /\ \A i \in 1..len : f[i] = AddSample(f[i - 1], at, samples[i], k, n)
  BY <1>1 DEF SamplesSteps
<1> HIDE DEF new
<1> DEFINE OK(s) == /\ StateAt(s, k, n) /\ Extends(state.dict, s.dict) /\ s.descs = state.descs
                    /\ SameBranches(state.keys, s.keys)
           Made(i) == /\ DOMAIN f[i].keys[k][n] # {}
                      /\ PointsAdded(StatePoints(f[i - 1]), StatePoints(f[i]), <<key, name, LabelsOf(samples[i])>>, at, samples[i].value)
           G == {i \in 0..len : OK(f[i]) /\ (i # 0 => Made(i))}
<1>0. len \in Nat
  OBVIOUS
<1>3. 0 \in G
  <2>1. Extends(state.dict, state.dict)
    BY DEF Extends, StateAt, Dicts
  <2>2. SameBranches(state.keys, state.keys)
    BY DEF SameBranches
  <2>3. OK(state)
    BY <2>1, <2>2
  <2> HIDE DEF OK, Made
  <2> QED BY <1>0, <1>2, <2>3
<1>4. ASSUME NEW i \in 0..(len - 1), i \in G PROVE i + 1 \in G
  <2>1. i + 1 \in 1..len /\ i + 1 \in 0..len /\ (i + 1) - 1 = i /\ i + 1 # 0
    BY <1>0
  <2> DEFINE s == f[i]
             t == f[i + 1]
             sample == samples[i + 1]
  <2>2. t = AddSample(s, at, sample, k, n) /\ SampleOK(sample)
    BY <1>2, <2>1
  <2>3. OK(s)
    BY <1>4
  <2> HIDE DEF s, t, sample
  <2>4. /\ StateAt(t, k, n) /\ Extends(s.dict, t.dict) /\ t.descs = s.descs
        /\ SameBranches(s.keys, t.keys) /\ DOMAIN t.keys[k][n] # {}
        /\ SampleMade(s, t, k, n, at, sample)
    BY <2>2, <2>3, AddSampleIs
  <2>5. OK(t)
    <3>1. Extends(state.dict, t.dict)
      BY <2>3, <2>4, ExtendsOn
    <3>2. SameBranches(state.keys, t.keys)
      BY <2>3, <2>4 DEF SameBranches
    <3> QED BY <2>3, <2>4, <3>1, <3>2
  <2>6. Lookup(s.dict, k) = key /\ Lookup(s.dict, n) = name
    <3>1. Extends(state.dict, s.dict) /\ k \in 1..Len(state.dict) /\ n \in 0..Len(state.dict)
      BY <2>3 DEF StateAt
    <3>2. \A x \in 0..Len(state.dict) : Lookup(s.dict, x) = Lookup(state.dict, x)
      BY <3>1, IdsStay
    <3>3. \A x \in 1..Len(state.dict) : x \in 0..Len(state.dict)
      <4>1. Len(state.dict) \in Nat
        BY DEF StateAt, Dicts
      <4> QED BY <4>1
    <3> QED BY <3>1, <3>2, <3>3
  <2>7. PointsAdded(StatePoints(s), StatePoints(t), <<key, name, LabelsOf(sample)>>, at, sample.value)
    BY <2>4, <2>6 DEF SampleMade
  <2>8. Made(i + 1)
    <3> HIDE DEF key, name
    <3> QED BY <2>1, <2>4, <2>7 DEF s, t, sample
  <2>9. OK(f[i + 1])
    BY <2>5 DEF t
  <2> HIDE DEF OK, Made
  <2> QED BY <2>1, <2>8, <2>9
<1>5. \A i \in 0..len : i \in G
  <2> HIDE DEF G, len
  <2> QED BY <1>0, <1>3, <1>4, NatsGrow
<1>6. OK(new) /\ \A i \in 1..len : Made(i)
  <2>1. len \in 0..len /\ \A i \in 1..len : i \in 0..len /\ i # 0
    BY <1>0
  <2> HIDE DEF OK, Made
  <2> QED BY <1>1, <1>5, <2>1
<1>7. len # 0 => DOMAIN new.keys[k][n] # {}
  <2> SUFFICES ASSUME len # 0 PROVE DOMAIN new.keys[k][n] # {}
    OBVIOUS
  <2>1. len \in 1..len
    BY <1>0
  <2>2. DOMAIN f[len].keys[k][n] # {}
    BY <1>6, <2>1
  <2> HIDE DEF len
  <2> QED BY <1>1, <2>2
<1>8. SamplesCount(StatePoints(state), StatePoints(new), key, name, at, samples)
  <2> DEFINE Q == [i \in 0..len |-> StatePoints(f[i])]
  <2>1. 0 \in 0..len /\ len \in 0..len /\ \A i \in 1..len : i \in 0..len /\ i - 1 \in 0..len
    BY <1>0
  <2>2. Q[0] = StatePoints(state) /\ Q[len] = StatePoints(new)
    BY <1>1, <1>2, <2>1
  <2>3. \A i \in 1..len : PointsAdded(Q[i - 1], Q[i], <<key, name, LabelsOf(samples[i])>>, at, samples[i].value)
    <3> TAKE i \in 1..len
    <3>1. Q[i - 1] = StatePoints(f[i - 1]) /\ Q[i] = StatePoints(f[i])
      BY <2>1
    <3>2. PointsAdded(StatePoints(f[i - 1]), StatePoints(f[i]), <<key, name, LabelsOf(samples[i])>>, at, samples[i].value)
      BY <1>6
    <3> HIDE DEF Q, key, name
    <3> QED BY <3>1, <3>2
  <2> HIDE DEF Q, key, name
  <2> QED BY <2>2, <2>3 DEF SamplesCount
<1> QED BY <1>6, <1>7, <1>8 DEF new

-----------------------------------------------------------------------------
(* The branch and the description of a metric.                              *)

Branched(tree, k, n) ==
  [j \in DOMAIN tree \cup {k} |->
     IF j # k THEN tree[j]
     ELSE LET old == IF k \in DOMAIN tree THEN tree[k] ELSE <<>>
          IN  [m \in DOMAIN old \cup {n} |-> IF m \in DOMAIN old THEN old[m] ELSE <<>>]]

LEMMA BranchedIs ==
  ASSUME NEW tree, NEW k, NEW n, Full(tree)
  PROVE  LET new == Branched(tree, k, n)
         IN  /\ k \in DOMAIN new /\ n \in DOMAIN new[k] /\ FullBut(new, k, n)
             /\ SeriesIds(new) = SeriesIds(tree)
             /\ \A i \in SeriesIds(tree) : At(new, i) = At(tree, i)
             /\ \A j \in DOMAIN new : j \in DOMAIN tree \/ j = k
             /\ \A j \in DOMAIN tree : j \in DOMAIN new /\ DOMAIN tree[j] \subseteq DOMAIN new[j]
             /\ \A j \in DOMAIN new : \A m \in DOMAIN new[j] : (j \in DOMAIN tree /\ m \in DOMAIN tree[j]) \/ (j = k /\ m = n)
<1> DEFINE old == IF k \in DOMAIN tree THEN tree[k] ELSE <<>>
           branch == [m \in DOMAIN old \cup {n} |-> IF m \in DOMAIN old THEN old[m] ELSE <<>>]
           new == Branched(tree, k, n)
<1>1. new = [j \in DOMAIN tree \cup {k} |-> IF j # k THEN tree[j] ELSE branch]
  BY Zenon DEF Branched
<1>2. DOMAIN <<>> = {}
  OBVIOUS
<1>3. DOMAIN branch = DOMAIN old \cup {n} /\ \A m \in DOMAIN old \cup {n} : branch[m] = IF m \in DOMAIN old THEN old[m] ELSE <<>>
  BY Zenon
<1>4. k \notin DOMAIN tree => DOMAIN old = {}
  BY Zenon, <1>2
<1>5. k \in DOMAIN tree => old = tree[k]
  BY Zenon
<1> HIDE DEF old, branch, new
<1>6. DOMAIN new = DOMAIN tree \cup {k} /\ new[k] = branch /\ \A j \in DOMAIN tree : j # k => new[j] = tree[j]
  BY Zenon, <1>1
<1>7. ASSUME NEW j \in DOMAIN new, NEW m \in DOMAIN new[j]
      PROVE  \/ j \in DOMAIN tree /\ m \in DOMAIN tree[j] /\ new[j][m] = tree[j][m]
             \/ j = k /\ m = n /\ new[j][m] = <<>> /\ ~(j \in DOMAIN tree /\ m \in DOMAIN tree[j])
  <2>1. CASE j # k
    <3>1. j \in DOMAIN tree
      BY Zenon, <1>6, <1>7, <2>1
    <3> QED BY Zenon, <1>6, <1>7, <2>1, <3>1
  <2>2. CASE j = k
    <3>1. new[j] = branch /\ m \in DOMAIN old \cup {n}
      BY Zenon, <1>3, <1>6, <1>7, <2>2
    <3>2. branch[m] = IF m \in DOMAIN old THEN old[m] ELSE <<>>
      BY Zenon, <1>3, <3>1
    <3>3. CASE m \in DOMAIN old
      <4>1. k \in DOMAIN tree
        BY Zenon, <1>4, <3>3
      <4> QED BY Zenon, <1>5, <2>2, <3>1, <3>2, <3>3, <4>1
    <3>4. CASE m \notin DOMAIN old
      <4>1. m = n
        BY Zenon, <3>1, <3>4
      <4>2. branch[m] = <<>>
        BY Zenon, <3>2, <3>4
      <4> QED BY Zenon, <1>5, <2>2, <3>1, <3>4, <4>1, <4>2
    <3> QED BY Zenon, <3>3, <3>4
  <2> QED BY Zenon, <2>1, <2>2
<1>8. ASSUME NEW j \in DOMAIN tree
      PROVE  j \in DOMAIN new /\ \A m \in DOMAIN tree[j] : m \in DOMAIN new[j] /\ new[j][m] = tree[j][m]
  <2>1. CASE j # k
    BY Zenon, <1>6, <1>8, <2>1
  <2>2. CASE j = k
    <3>1. old = tree[j] /\ new[j] = branch
      BY Zenon, <1>5, <1>6, <1>8, <2>2
    <3> QED BY Zenon, <1>3, <1>6, <1>8, <2>2, <3>1
  <2> QED BY Zenon, <2>1, <2>2
<1>9. k \in DOMAIN new /\ n \in DOMAIN new[k]
  BY Zenon, <1>3, <1>6
<1>10. \A i : i \in SeriesIds(new) <=>
           /\ i = <<i[1], i[2], i[3]>> /\ i[1] \in DOMAIN new
           /\ i[2] \in DOMAIN new[i[1]] /\ i[3] \in DOMAIN new[i[1]][i[2]]
  BY IdsOfTree
<1>11. \A i : i \in SeriesIds(tree) <=>
           /\ i = <<i[1], i[2], i[3]>> /\ i[1] \in DOMAIN tree
           /\ i[2] \in DOMAIN tree[i[1]] /\ i[3] \in DOMAIN tree[i[1]][i[2]]
  BY IdsOfTree
<1>12. ASSUME NEW i, i \in SeriesIds(new) PROVE i \in SeriesIds(tree)
  <2>1. /\ i = <<i[1], i[2], i[3]>> /\ i[1] \in DOMAIN new
        /\ i[2] \in DOMAIN new[i[1]] /\ i[3] \in DOMAIN new[i[1]][i[2]]
    BY Zenon, <1>10, <1>12
  <2>2. CASE new[i[1]][i[2]] = <<>>
    BY Zenon, <1>2, <2>1, <2>2
  <2>3. CASE new[i[1]][i[2]] # <<>>
    <3>1. i[1] \in DOMAIN tree /\ i[2] \in DOMAIN tree[i[1]] /\ new[i[1]][i[2]] = tree[i[1]][i[2]]
      BY Zenon, <1>7, <2>1, <2>3
    <3>2. i[3] \in DOMAIN tree[i[1]][i[2]]
      BY Zenon, <2>1, <3>1
    <3> QED BY Zenon, <1>11, <2>1, <3>1, <3>2
  <2> QED BY Zenon, <2>2, <2>3
<1>13. ASSUME NEW i \in SeriesIds(tree) PROVE i \in SeriesIds(new) /\ At(new, i) = At(tree, i)
  <2>1. /\ i = <<i[1], i[2], i[3]>> /\ i[1] \in DOMAIN tree
        /\ i[2] \in DOMAIN tree[i[1]] /\ i[3] \in DOMAIN tree[i[1]][i[2]]
    BY Zenon, <1>11, <1>13
  <2>2. i[1] \in DOMAIN new /\ i[2] \in DOMAIN new[i[1]] /\ new[i[1]][i[2]] = tree[i[1]][i[2]]
    BY Zenon, <1>8, <2>1
  <2>3. i[3] \in DOMAIN new[i[1]][i[2]]
    BY Zenon, <2>1, <2>2
  <2> QED BY Zenon, <1>10, <2>1, <2>2, <2>3 DEF At
<1>14. FullBut(new, k, n)
  <2>1. ASSUME NEW j \in DOMAIN new PROVE DOMAIN new[j] # {}
    <3>1. CASE j = k
      BY Zenon, <1>9, <3>1
    <3>2. CASE j # k
      <4>1. j \in DOMAIN tree /\ new[j] = tree[j]
        BY Zenon, <1>6, <2>1, <3>2
      <4> QED BY Zenon, <4>1 DEF Full
    <3> QED BY Zenon, <3>1, <3>2
  <2>2. ASSUME NEW j \in DOMAIN new, NEW m \in DOMAIN new[j] PROVE (j = k /\ m = n) \/ DOMAIN new[j][m] # {}
    <3>1. CASE j \in DOMAIN tree /\ m \in DOMAIN tree[j] /\ new[j][m] = tree[j][m]
      BY Zenon, <3>1 DEF Full
    <3> QED BY Zenon, <1>7, <2>2, <3>1
  <2> QED BY Zenon, <2>1, <2>2 DEF FullBut
<1>15. SeriesIds(new) = SeriesIds(tree)
  BY Zenon, <1>12, <1>13
<1>16. \A j \in DOMAIN new : j \in DOMAIN tree \/ j = k
  BY Zenon, <1>6
<1>17. \A j \in DOMAIN tree : j \in DOMAIN new /\ DOMAIN tree[j] \subseteq DOMAIN new[j]
  BY Zenon, <1>8
<1>18. \A j \in DOMAIN new : \A m \in DOMAIN new[j] : (j \in DOMAIN tree /\ m \in DOMAIN tree[j]) \/ (j = k /\ m = n)
  BY Zenon, <1>7
<1> QED BY Zenon, <1>9, <1>13, <1>14, <1>15, <1>16, <1>17, <1>18 DEF new

\* The description that a call gives of a metric, in a set.
Given(call, name) == Description(name, call.descs)

LEMMA OneInSequence ==
  ASSUME NEW S, NEW x \in S
  PROVE  SetToSeq({x}) \in Seq(S) /\ Range(SetToSeq({x})) = {x}
<1> DEFINE s == SetToSeq({x})
<1>1. Cardinality({x}) = 1
  BY FS_Singleton
<1>2. s = CHOOSE f \in [1..1 -> {x}] : IsInjective(f)
  BY <1>1 DEF SetToSeq
<1>3. [i \in 1..1 |-> x] \in [1..1 -> {x}] /\ IsInjective([i \in 1..1 |-> x])
  BY DEF IsInjective
<1>4. s \in [1..1 -> {x}]
  BY <1>2, <1>3
<1> HIDE DEF s
<1>5. s \in Seq(S) /\ DOMAIN s = 1..1 /\ s[1] = x
  <2>1. DOMAIN s = 1..1 /\ s[1] \in {x} /\ \A i \in 1..1 : s[i] \in {x}
    BY <1>4
  <2>2. s \in [1..1 -> S]
    BY <1>4, <2>1
  <2>3. s \in Seq(S)
    <3> DEFINE n == 1
    <3>1. n \in Nat /\ s \in [1..n -> S]
      BY <2>2
    <3> HIDE DEF n
    <3> QED BY <3>1
  <2> QED BY <2>1, <2>3
<1>6. Range(s) = {x}
  <2>1. \A i \in 1..1 : i = 1
    OBVIOUS
  <2>2. 1 \in 1..1
    OBVIOUS
  <2> QED BY <1>5, <2>1, <2>2 DEF Range
<1> QED BY <1>5, <1>6 DEF s

LEMMA NoneInSequence ==
  SetToSeq({}) \in Seq(Strings) /\ Range(SetToSeq({})) = {}
<1> DEFINE s == SetToSeq({})
<1>1. Cardinality({}) = 0
  BY FS_EmptySet
<1>2. s = CHOOSE f \in [1..0 -> {}] : IsInjective(f)
  BY <1>1 DEF SetToSeq
<1>3. \E f \in [1..0 -> {}] : IsInjective(f)
  <2>1. [i \in 1..0 |-> i] \in [1..0 -> {}]
    OBVIOUS
  <2>2. IsInjective([i \in 1..0 |-> i])
    BY DEF IsInjective
  <2> QED BY <2>1, <2>2
<1>4. s \in [1..0 -> {}]
  BY <1>2, <1>3
<1> HIDE DEF s
<1>5. s \in Seq(Strings) /\ DOMAIN s = {}
  BY <1>4
<1> QED BY <1>5 DEF Range, s

LEMMA GivenIs ==
  ASSUME NEW call, CallOK(call), NEW name
  PROVE  /\ Given(call, name) = {} \/ \E text \in Texts : Given(call, name) = {text}
         /\ SetToSeq(Given(call, name)) \in Seq(Strings)
         /\ Range(SetToSeq(Given(call, name))) = Given(call, name)
<1> DEFINE about == {i \in DOMAIN call.descs : name \in call.descs[i].covers}
<1>1. Given(call, name) = IF about = {} THEN {} ELSE {call.descs[Min(about)].text}
  BY DEF Given, Description
<1>2. CASE about = {}
  <2>1. Given(call, name) = {}
    BY <1>1, <1>2
  <2> QED BY <2>1, NoneInSequence
<1>3. CASE about # {}
  <2>1. about \in SUBSET Nat /\ about \subseteq DOMAIN call.descs
    <3>1. DOMAIN call.descs = 1..Len(call.descs)
      BY DEF CallOK
    <3>2. \A n \in Nat : 1..n \subseteq Nat
      OBVIOUS
    <3>3. DOMAIN call.descs \subseteq Nat
      BY <3>1, <3>2 DEF CallOK
    <3> QED BY <3>3
  <2>2. Min(about) \in DOMAIN call.descs
    <3> HIDE DEF about
    <3> QED BY <1>3, <2>1, LeastOfNats
  <2> DEFINE text == call.descs[Min(about)].text
  <2>3. text \in Texts /\ Given(call, name) = {text}
    BY <1>1, <1>3, <2>2 DEF CallOK
  <2> HIDE DEF text
  <2>4. text \in Strings
    BY <2>3 DEF Strings
  <2>5. SetToSeq({text}) \in Seq(Strings) /\ Range(SetToSeq({text})) = {text}
    BY <2>4, OneInSequence
  <2> QED BY <2>3, <2>5
<1> QED BY <1>2, <1>3

\* What is known of a metric that is called u.
DescIn(d, texts, u) == Lookup(d, IF Id(d, u) \in DOMAIN texts THEN texts[Id(d, u)] ELSE 0)

LEMMA DescStays ==
  ASSUME NEW d, NEW e, Extends(d, e), NEW texts, DescsOK(d, texts), NEW u, Knows(d, u)
  PROVE  Knows(e, u) /\ DescIn(e, texts, u) = DescIn(d, texts, u)
<1>1. /\ \A i \in 0..Len(d) : Lookup(e, i) = Lookup(d, i)
      /\ Knows(e, u) /\ Id(e, u) = Id(d, u)
  BY IdsStay
<1>2. 0 \in 0..Len(d)
  BY IdsStay
<1> DEFINE x == IF Id(d, u) \in DOMAIN texts THEN texts[Id(d, u)] ELSE 0
<1>3. x \in 0..Len(d)
  <2> DEFINE S == 0..Len(d)
  <2>1. 0 \in S /\ \A m \in DOMAIN texts : texts[m] \in S
    BY <1>2 DEF DescsOK
  <2> HIDE DEF S
  <2>2. x \in S
    BY <2>1
  <2> QED BY <2>2 DEF S
<1>4. DescIn(d, texts, u) = Lookup(d, x) /\ DescIn(e, texts, u) = Lookup(e, x)
  BY <1>1 DEF DescIn
<1> HIDE DEF x
<1> QED BY <1>1, <1>3, <1>4

\* What the call says of a metric counts, and of other metrics nothing changes.
DescMade(old, new, call, name) ==
  /\ \A u : Knows(old.dict, u) /\ (u # name \/ Given(call, name) = {}) =>
       DescIn(new.dict, new.descs, u) = DescIn(old.dict, old.descs, u)
  /\ \A text \in Given(call, name) : DescIn(new.dict, new.descs, name) = text

StateOK(state) ==
  /\ state.dict \in Dicts /\ SeriesAllOK(state.dict, state.keys)
  /\ DescsOK(state.dict, state.descs) /\ Full(state.keys)

\* The state in which the samples of a metric are added.
NamedDict(state, call, name) == InternAll(Intern(state.dict, name), SetToSeq(Given(call, name)))

NamedDescs(d, texts, given, n) ==
  [m \in DOMAIN texts \cup (IF given = {} THEN {} ELSE {n}) |->
     IF m = n /\ given # {} THEN Id(d, CHOOSE text \in given : TRUE) ELSE texts[m]]

Named(state, call, name) ==
  LET d == NamedDict(state, call, name)
      k == Id(d, call.key)
      n == Id(d, name)
  IN  [dict |-> d, keys |-> Branched(state.keys, k, n), removed |-> state.removed,
       descs |-> NamedDescs(d, state.descs, Given(call, name), n)]

LEMMA NamedIs ==
  ASSUME NEW state, StateOK(state), NEW call, CallOK(call), Knows(state.dict, call.key), NEW name \in Texts
  PROVE  LET new == Named(state, call, name)
             k == Id(new.dict, call.key)
             n == Id(new.dict, name)
         IN  /\ StateAt(new, k, n) /\ Extends(state.dict, new.dict)
             /\ Lookup(new.dict, k) = call.key /\ Lookup(new.dict, n) = name
             /\ StatePoints(new) = StatePoints(state)
             /\ Knows(new.dict, name) /\ DescMade(state, new, call, name)
<1> DEFINE given == Given(call, name)
           e == Intern(state.dict, name)
           d == NamedDict(state, call, name)
           k == Id(d, call.key)
           n == Id(d, name)
           tree == Branched(state.keys, k, n)
           texts == state.descs
           more == NamedDescs(d, texts, given, n)
           new == Named(state, call, name)
<1>1. new.dict = d /\ new.keys = tree /\ new.descs = more
  BY DEF Named
<1>2. /\ state.dict \in Dicts /\ SeriesAllOK(state.dict, state.keys)
      /\ DescsOK(state.dict, state.descs) /\ Full(state.keys)
  BY DEF StateOK
<1>3. /\ given = {} \/ \E text \in Texts : given = {text}
      /\ SetToSeq(given) \in Seq(Strings) /\ Range(SetToSeq(given)) = given
  BY GivenIs
<1>4. name \in Strings /\ name = name
  BY DEF Strings
<1>5. Extends(state.dict, e) /\ Range(e) = Range(state.dict) \cup ({name} \ {NoString})
  BY <1>2, <1>4, InternIs
<1> HIDE DEF e, given
<1>6. Extends(e, d) /\ Range(d) = Range(e) \cup (given \ {NoString})
  <2>1. e \in Dicts
    BY <1>5 DEF Extends
  <2> QED BY <1>3, <2>1, InternAllIs DEF NamedDict, e, given
<1> HIDE DEF d
<1>7. Extends(state.dict, d) /\ d \in Dicts
  BY <1>5, <1>6, ExtendsOn DEF Extends
<1>8. Knows(d, name) /\ Knows(d, call.key) /\ \A text \in given : Knows(d, text)
  <2>1. Knows(d, call.key)
    BY <1>7, IdsStay
  <2>2. Knows(d, name) /\ \A text \in given : Knows(d, text)
    BY <1>5, <1>6 DEF Knows
  <2> QED BY <2>1, <2>2
<1>9. k \in 1..Len(d) /\ Lookup(d, k) = call.key
  <2>1. call.key # NoString
    BY DEF CallOK
  <2> QED BY <1>7, <1>8, <2>1, IdIs
<1>10. n \in 0..Len(d) /\ Lookup(d, n) = name
  BY <1>7, <1>8, IdIs
<1> HIDE DEF k, n, new
<1>11. /\ k \in DOMAIN tree /\ n \in DOMAIN tree[k] /\ FullBut(tree, k, n)
       /\ SeriesIds(tree) = SeriesIds(state.keys)
       /\ \A i \in SeriesIds(state.keys) : At(tree, i) = At(state.keys, i)
  BY <1>2, BranchedIs
<1> HIDE DEF tree
<1>12. SeriesAllOK(d, state.keys) /\ PointsIn(d, state.keys) = StatePoints(state)
  BY <1>2, <1>7, PointsStay DEF StatePoints
<1>13. SeriesAllOK(d, tree)
  BY <1>11, <1>12 DEF SeriesAllOK
<1>14. PointsIn(d, tree) = StatePoints(state)
  <2>1. \A y : y \in PointsIn(d, tree) <=>
           \E i \in SeriesIds(tree) : \E x \in PointsOf(At(tree, i)) : y = <<MeantIn(d, i), x[1], x[2]>>
    BY PointsAre
  <2>2. \A y : y \in PointsIn(d, state.keys) <=>
           \E i \in SeriesIds(state.keys) : \E x \in PointsOf(At(state.keys, i)) : y = <<MeantIn(d, i), x[1], x[2]>>
    BY PointsAre
  <2>3. \A y : y \in PointsIn(d, tree) <=> y \in PointsIn(d, state.keys)
    BY <1>11, <2>1, <2>2
  <2> QED BY <1>12, <2>3
<1>15. /\ DOMAIN more = DOMAIN texts \cup (IF given = {} THEN {} ELSE {n})
       /\ \A m \in DOMAIN more : more[m] = IF m = n /\ given # {} THEN Id(d, CHOOSE text \in given : TRUE) ELSE texts[m]
  BY Zenon DEF NamedDescs
<1> HIDE DEF more
<1>16. given # {} => (CHOOSE text \in given : TRUE) \in given
  BY Zenon
<1>17. DescsOK(d, texts)
  BY <1>2, <1>7, DescsStay
<1>18. DescsOK(d, more)
  <2>1. ASSUME NEW m \in DOMAIN more PROVE more[m] \in 0..Len(d)
    <3>1. CASE m = n /\ given # {}
      <4> DEFINE text == CHOOSE text \in given : TRUE
      <4>1. more[m] = Id(d, text) /\ text \in given
        BY Zenon, <1>15, <1>16, <2>1, <3>1
      <4> HIDE DEF text
      <4> QED BY <1>7, <1>8, <4>1, IdIs
    <3>2. CASE ~(m = n /\ given # {})
      <4>1. more[m] = texts[m] /\ m \in DOMAIN texts
        BY Zenon, <1>15, <2>1, <3>2
      <4> QED BY <1>17, <4>1 DEF DescsOK
    <3> QED BY <3>1, <3>2
  <2> QED BY <2>1 DEF DescsOK
<1>19. StateAt(new, k, n)
  BY <1>1, <1>7, <1>9, <1>10, <1>11, <1>13, <1>18 DEF StateAt
<1>20. ASSUME NEW u, Knows(state.dict, u), u # name \/ given = {}
       PROVE  DescIn(d, more, u) = DescIn(state.dict, texts, u)
  <2>1. Knows(d, u) /\ DescIn(d, texts, u) = DescIn(state.dict, texts, u)
    BY <1>2, <1>7, <1>20, DescStays
  <2> DEFINE x == Id(d, u)
  <2>2. x # n \/ given = {}
    <3>1. Lookup(d, x) = u
      BY <1>7, <2>1, IdIs
    <3> HIDE DEF x
    <3> QED BY <1>10, <1>20, <3>1
  <2> HIDE DEF x
  <2>3. x \in DOMAIN more <=> x \in DOMAIN texts
    BY Zenon, <1>15, <2>2
  <2>4. x \in DOMAIN more => more[x] = texts[x]
    BY Zenon, <1>15, <2>2
  <2>5. DescIn(d, more, u) = DescIn(d, texts, u)
    <3>1. (IF x \in DOMAIN more THEN more[x] ELSE 0) = (IF x \in DOMAIN texts THEN texts[x] ELSE 0)
      BY Zenon, <2>3, <2>4
    <3> QED BY Zenon, <3>1 DEF DescIn, x
  <2> QED BY <2>1, <2>5
<1>21. ASSUME NEW text \in given PROVE DescIn(d, more, name) = text
  <2>1. n \in DOMAIN more /\ more[n] = Id(d, text)
    <3>1. (CHOOSE t \in given : TRUE) = text
      BY Zenon, <1>3, <1>16
    <3>2. n \in DOMAIN more /\ given # {}
      BY Zenon, <1>15
    <3> QED BY Zenon, <1>15, <3>1, <3>2
  <2>2. Lookup(d, Id(d, text)) = text
    BY <1>7, <1>8, IdIs
  <2> QED BY Zenon, <2>1, <2>2 DEF DescIn, n
<1>22. DescMade(state, new, call, name)
  <2>1. \A u : Knows(state.dict, u) /\ (u # name \/ given = {}) => DescIn(d, more, u) = DescIn(state.dict, texts, u)
    BY Zenon, <1>20
  <2>2. \A text \in given : DescIn(d, more, name) = text
    BY Zenon, <1>21
  <2> QED BY Zenon, <1>1, <2>1, <2>2 DEF DescMade, given
<1>23. StatePoints(new) = StatePoints(state)
  BY <1>1, <1>14 DEF StatePoints
<1> QED BY <1>1, <1>7, <1>8, <1>9, <1>10, <1>19, <1>22, <1>23 DEF new, k, n

-----------------------------------------------------------------------------
(* One metric.                                                              *)

\* The series of a metric that have points, and their newest points.
Group(points, key, name) == {s \in {y[1] : y \in points} : s[1] = key /\ s[2] = name}

Newest(points, y) == y \in points /\ \A z \in points : z[1] = y[1] => z[2] <= y[2]

\* Of more series than the cap allows, those with the largest newest values stay.
CapLeaves(points, more, key, name, stays) ==
  LET group == Group(points, key, name)
  IN  /\ stays \subseteq group /\ Cardinality(stays) = Min({Cap, Cardinality(group)})
      /\ \A x, y \in points :
           Newest(points, x) /\ Newest(points, y) /\ x[1] \in stays /\ y[1] \in group \ stays => x[3] >= y[3]
      /\ more = {y \in points : y[1] \in stays \/ y[1] \notin group}

CapMade(points, more, key, name) ==
  /\ \A s \in Group(points, key, name) : \E y \in points : y[1] = s /\ Newest(points, y)
  /\ \E stays : CapLeaves(points, more, key, name, stays)

LEMMA SameSize ==
  ASSUME NEW S, IsFiniteSet(S), NEW f, \A x, y \in S : f[x] = f[y] => x = y
  PROVE  Cardinality({f[x] : x \in S}) = Cardinality(S) /\ IsFiniteSet({f[x] : x \in S})
<1> DEFINE T == {f[x] : x \in S}
           g == [x \in S |-> f[x]]
<1>1. g \in [S -> T] /\ \A x \in S : g[x] = f[x]
  OBVIOUS
<1>2. \A t \in T : \E x \in S : g[x] = t
  OBVIOUS
<1> HIDE DEF g, T
<1>3. g \in Surjection(S, T)
  BY <1>1, <1>2 DEF Surjection
<1>4. g \in Injection(S, T)
  BY <1>1 DEF Injection, IsInjective
<1>5. g \in Bijection(S, T)
  BY <1>3, <1>4 DEF Bijection
<1> QED BY <1>5, FS_Bijection DEF ExistsBijection, T

\* The newest point of a series is its last one.
LEMMA LastIsNewest ==
  ASSUME NEW s, SeriesOK(s), s.values # <<>>
  PROVE  LET n == Len(s.timestamps)
         IN  /\ n # 0 /\ Last(s.values) \in Int /\ <<s.timestamps[n], Last(s.values)>> \in PointsOf(s)
             /\ \A x \in PointsOf(s) : x = <<x[1], x[2]>> /\ x[1] \in Int /\ x[1] <= s.timestamps[n] /\ (s.timestamps[n] <= x[1] => x[2] = Last(s.values))
<1> DEFINE t == s.timestamps
           v == s.values
           n == Len(t)
<1>1. /\ t \in Seq(Int) /\ v \in Seq(Int) /\ n \in Nat /\ Len(v) = n /\ DOMAIN t = 1..n /\ DOMAIN v = 1..n
      /\ \A i \in 1..n : t[i] \in Int /\ v[i] \in Int
  BY SeriesFacts
<1>2. n # 0 /\ Last(v) = v[n]
  BY <1>1 DEF Last
<1>3. \A i, j \in 1..n : i < j => t[i] < t[j]
  BY DEF SeriesOK
<1>4. PointsOf(s) = {<<t[j], v[j]>> : j \in 1..n}
  BY <1>1 DEF PointsOf
<1> HIDE DEF t, v
<1>5. n \in 1..n
  BY <1>1, <1>2
<1>6. ASSUME NEW x \in PointsOf(s) PROVE x = <<x[1], x[2]>> /\ x[1] \in Int /\ x[1] <= t[n] /\ (t[n] <= x[1] => x[2] = v[n])
  <2>1. PICK j \in 1..n : x = <<t[j], v[j]>>
    BY <1>4
  <2>2. x[1] = t[j] /\ x[2] = v[j] /\ x = <<x[1], x[2]>>
    BY <2>1
  <2>3. j = n \/ j < n
    <3> HIDE DEF n
    <3> QED BY <1>1
  <2>4. j = n \/ t[j] < t[n]
    BY <1>3, <1>5, <2>3
  <2>5. t[j] \in Int /\ t[n] \in Int
    BY <1>1, <1>5
  <2> QED BY <2>2, <2>4, <2>5
<1> QED BY <1>1, <1>2, <1>4, <1>5, <1>6 DEF t, v

\* The ids of the series of one metric.
LEMMA BranchIs ==
  ASSUME NEW state, NEW k, NEW n, StateAt(state, k, n)
  PROVE  LET all == state.keys[k][n]
             d == state.dict
         IN  /\ \A p \in DOMAIN all : <<k, n, p>> \in SeriesIds(state.keys) /\ At(state.keys, <<k, n, p>>) = all[p]
             /\ \A i \in SeriesIds(state.keys) : In(i, k, n) => i = <<k, n, i[3]>> /\ i[3] \in DOMAIN all
             /\ \A p, q \in DOMAIN all : MeantIn(d, <<k, n, p>>) = MeantIn(d, <<k, n, q>>) => p = q
             /\ \A i \in SeriesIds(state.keys) :
                  MeantIn(d, i)[1] = Lookup(d, k) /\ MeantIn(d, i)[2] = Lookup(d, n) <=> In(i, k, n)
             /\ Comparable(all)
             /\ \A p \in DOMAIN all : SeriesOK(all[p]) /\ all[p].values # <<>>
<1> DEFINE all == state.keys[k][n]
           tree == state.keys
           d == state.dict
<1>1. /\ d \in Dicts /\ SeriesAllOK(d, tree) /\ k \in 1..Len(d) /\ n \in 0..Len(d)
      /\ k \in DOMAIN tree /\ n \in DOMAIN tree[k]
  BY DEF StateAt
<1>2. \A i : i \in SeriesIds(tree) <=>
           /\ i = <<i[1], i[2], i[3]>> /\ i[1] \in DOMAIN tree
           /\ i[2] \in DOMAIN tree[i[1]] /\ i[3] \in DOMAIN tree[i[1]][i[2]]
  BY IdsOfTree
<1>3. \A i \in SeriesIds(tree) : IdOK(d, i) /\ SeriesOK(At(tree, i)) /\ At(tree, i).values # <<>>
  BY <1>1 DEF SeriesAllOK
<1>4. ASSUME NEW p \in DOMAIN all PROVE <<k, n, p>> \in SeriesIds(tree) /\ At(tree, <<k, n, p>>) = all[p]
  <2> DEFINE i == <<k, n, p>>
  <2>1. i = <<i[1], i[2], i[3]>> /\ i[1] = k /\ i[2] = n /\ i[3] = p
    OBVIOUS
  <2> HIDE DEF i
  <2>2. i \in SeriesIds(tree) /\ At(tree, i) = all[p]
    BY <1>1, <1>2, <2>1 DEF At
  <2> QED BY <2>2 DEF i
<1>5. \A i \in SeriesIds(tree) : In(i, k, n) => i = <<k, n, i[3]>> /\ i[3] \in DOMAIN all
  BY <1>2 DEF In
<1>6. ASSUME NEW p \in DOMAIN all, NEW q \in DOMAIN all, MeantIn(d, <<k, n, p>>) = MeantIn(d, <<k, n, q>>) PROVE p = q
  <2>1. IdOK(d, <<k, n, p>>) /\ IdOK(d, <<k, n, q>>)
    BY <1>3, <1>4
  <2>2. <<k, n, p>> = <<k, n, q>>
    BY <1>1, <1>6, <2>1, MeantOnce
  <2> QED BY <2>2
<1>7. ASSUME NEW i \in SeriesIds(tree)
      PROVE MeantIn(d, i)[1] = Lookup(d, k) /\ MeantIn(d, i)[2] = Lookup(d, n) <=> In(i, k, n)
  <2>1. \A x \in 0..Len(d) : Id(d, Lookup(d, x)) = x
    BY <1>1, LookupIs
  <2>2. 1..Len(d) \subseteq 0..Len(d)
    <3>1. Len(d) \in Nat
      BY <1>1 DEF Dicts
    <3> HIDE DEF d
    <3> QED BY <3>1
  <2>3. i[1] \in 0..Len(d) /\ i[2] \in 0..Len(d) /\ k \in 0..Len(d) /\ n \in 0..Len(d)
    BY <1>1, <1>3, <2>2 DEF IdOK
  <2>4. MeantIn(d, i)[1] = Lookup(d, i[1]) /\ MeantIn(d, i)[2] = Lookup(d, i[2])
    BY DEF MeantIn
  <2>5. Lookup(d, i[1]) = Lookup(d, k) => i[1] = k
    BY Zenon, <2>1, <2>3
  <2>6. Lookup(d, i[2]) = Lookup(d, n) => i[2] = n
    BY Zenon, <2>1, <2>3
  <2> QED BY Zenon, <2>4, <2>5, <2>6 DEF In
<1>8. \A p \in DOMAIN all : SeriesOK(all[p]) /\ all[p].values # <<>>
  BY <1>3, <1>4
<1>9. Comparable(all)
  <2>1. IsFiniteSet(DOMAIN all)
    <3> DEFINE f == [p \in DOMAIN all |-> <<k, n, p>>]
    <3>1. f \in [DOMAIN all -> SeriesIds(tree)]
      BY <1>4
    <3>2. \A p, q \in DOMAIN all : f[p] = f[q] => p = q
      OBVIOUS
    <3> HIDE DEF f
    <3>3. f \in Injection(DOMAIN all, SeriesIds(tree))
      BY <3>1, <3>2 DEF Injection, IsInjective
    <3>4. IsFiniteSet(SeriesIds(tree))
      BY <1>1 DEF SeriesAllOK
    <3> QED BY <3>3, <3>4, FS_Injection
  <2>2. ASSUME NEW p \in DOMAIN all PROVE p \in PostingsKind
    <3>1. IdOK(d, <<k, n, p>>)
      BY <1>3, <1>4
    <3>2. PICK labels \in LabelSets : HasLabels(d, labels) /\ p = Postings(d, labels)
      BY <3>1 DEF IdOK
    <3>3. p \in Seq((0..Len(d)) \X (0..Len(d)))
      BY <1>1, <3>2, PostingsTyped
    <3> DEFINE S == 0..Len(d)
    <3>4. S \subseteq Int
      BY <1>1 DEF Dicts
    <3>5. p \in Seq(S \X S)
      BY <3>3
    <3> HIDE DEF S
    <3>6. p \in Seq(Int \X Int)
      <4> DEFINE T == S \X S
                 U == Int \X Int
      <4>1. T \subseteq U /\ p \in Seq(T)
        BY <3>4, <3>5
      <4> HIDE DEF T, U
      <4>2. p \in Seq(U)
        BY <4>1
      <4> QED BY <4>2 DEF U
    <3> QED BY <3>6 DEF PostingsKind
  <2>3. \A p \in DOMAIN all : Last(all[p].values) \in Int
    BY <1>8, LastIsNewest
  <2> QED BY <2>1, <2>2, <2>3 DEF Comparable
<1> QED BY <1>4, <1>5, <1>6, <1>7, <1>8, <1>9

\* The series of a metric, capped.
LEMMA CapPut ==
  ASSUME NEW state, NEW k, NEW n, StateAt(state, k, n), DOMAIN state.keys[k][n] # {}
  PROVE  LET d == state.dict
             tree == Put(state.keys, k, n, CappedSeries(state.keys[k][n]))
         IN  /\ SeriesAllOK(d, tree) /\ Full(tree) /\ SameBranches(state.keys, tree)
             /\ CapMade(StatePoints(state), PointsIn(d, tree), Lookup(d, k), Lookup(d, n))
<1> DEFINE d == state.dict
           all == state.keys[k][n]
           few == CappedSeries(all)
           some == DOMAIN few
           tree == Put(state.keys, k, n, few)
           m(p) == MeantIn(d, <<k, n, p>>)
           P == StatePoints(state)
           R == PointsIn(d, tree)
           key == Lookup(d, k)
           name == Lookup(d, n)
           group == Group(P, key, name)
           stays == {m(p) : p \in some}
<1>1. /\ d \in Dicts /\ SeriesAllOK(d, state.keys) /\ k \in DOMAIN state.keys /\ n \in DOMAIN state.keys[k]
      /\ FullBut(state.keys, k, n)
  BY DEF StateAt
<1>2. /\ \A p \in DOMAIN all : <<k, n, p>> \in SeriesIds(state.keys) /\ At(state.keys, <<k, n, p>>) = all[p]
      /\ \A i \in SeriesIds(state.keys) : In(i, k, n) => i = <<k, n, i[3]>> /\ i[3] \in DOMAIN all
      /\ \A p, q \in DOMAIN all : m(p) = m(q) => p = q
      /\ \A i \in SeriesIds(state.keys) : MeantIn(d, i)[1] = key /\ MeantIn(d, i)[2] = name <=> In(i, k, n)
      /\ Comparable(all)
      /\ \A p \in DOMAIN all : SeriesOK(all[p]) /\ all[p].values # <<>>
  BY BranchIs
<1>3. /\ some \subseteq DOMAIN all
      /\ \A p \in some : few[p] = all[p]
      /\ Cardinality(some) = Min({Cap, Cardinality(DOMAIN all)})
      /\ \A p \in some, q \in DOMAIN all \ some : Last(all[p].values) >= Last(all[q].values)
      /\ some # {}
  <2> HIDE DEF all
  <2>1. DOMAIN all # {}
    BY DEF all
  <2> QED BY <1>2, <2>1, CappedIs
<1> HIDE DEF few
<1>4. /\ \A i : i \in SeriesIds(tree) <=>
           \/ i \in SeriesIds(state.keys) /\ ~In(i, k, n)
           \/ i = <<k, n, i[3]>> /\ i[3] \in some
      /\ \A i \in SeriesIds(tree) : At(tree, i) = IF In(i, k, n) THEN few[i[3]] ELSE At(state.keys, i)
  BY <1>1, PutIds
<1>5. /\ DOMAIN tree = DOMAIN state.keys
      /\ \A j \in DOMAIN state.keys : DOMAIN tree[j] = DOMAIN state.keys[j]
      /\ \A j \in DOMAIN state.keys : \A h \in DOMAIN state.keys[j] :
           tree[j][h] = IF j = k /\ h = n THEN few ELSE state.keys[j][h]
  BY <1>1, PutIs
<1> HIDE DEF tree, all, d
<1>6. Full(tree)
  BY <1>1, <1>3, <1>5 DEF Full, FullBut
<1>7. SameBranches(state.keys, tree)
  BY <1>5 DEF SameBranches
<1>8. ASSUME NEW i
      PROVE  i \in SeriesIds(tree) <=> i \in SeriesIds(state.keys) /\ (~In(i, k, n) \/ i[3] \in some)
  <2>1. ASSUME i = <<k, n, i[3]>>, i[3] \in some PROVE i \in SeriesIds(state.keys) /\ i[3] \in some
    BY <1>2, <1>3, <2>1
  <2>2. ASSUME i \in SeriesIds(state.keys), In(i, k, n) PROVE i = <<k, n, i[3]>>
    BY <1>2, <2>2
  <2> QED BY Zenon, <1>4, <2>1, <2>2
<1>9. ASSUME NEW i \in SeriesIds(tree) PROVE At(tree, i) = At(state.keys, i)
  <2>1. CASE In(i, k, n)
    <3>1. i \in SeriesIds(state.keys) /\ i[3] \in some /\ i = <<k, n, i[3]>>
      BY Zenon, <1>2, <1>8, <2>1
    <3>2. At(tree, i) = few[i[3]] /\ few[i[3]] = all[i[3]]
      BY Zenon, <1>3, <1>4, <2>1, <3>1
    <3>3. i[3] \in DOMAIN all
      BY <1>3, <3>1
    <3>4. At(state.keys, <<k, n, i[3]>>) = all[i[3]]
      BY Zenon, <1>2, <3>3
    <3> QED BY Zenon, <3>1, <3>2, <3>4
  <2>2. CASE ~In(i, k, n)
    BY Zenon, <1>4, <2>2
  <2> QED BY Zenon, <2>1, <2>2
<1>10. SeriesAllOK(d, tree)
  <2>1. SeriesIds(tree) \subseteq SeriesIds(state.keys)
    BY Zenon, <1>8
  <2>2. IsFiniteSet(SeriesIds(tree))
    BY <1>1, <2>1, FS_Subset DEF SeriesAllOK
  <2> QED BY Zenon, <1>1, <1>9, <2>1, <2>2 DEF SeriesAllOK
<1>11. \A y : y \in P <=>
         \E i \in SeriesIds(state.keys) : \E x \in PointsOf(At(state.keys, i)) : y = <<MeantIn(d, i), x[1], x[2]>>
  BY PointsAre DEF StatePoints, d
<1>12. \A y : y \in R <=>
         \E i \in SeriesIds(tree) : \E x \in PointsOf(At(tree, i)) : y = <<MeantIn(d, i), x[1], x[2]>>
  BY PointsAre
<1> HIDE DEF m, P, R
<1>13. \A p \in DOMAIN all : m(p) = MeantIn(d, <<k, n, p>>) /\ In(<<k, n, p>>, k, n) /\ m(p)[1] = key /\ m(p)[2] = name
  <2> TAKE p \in DOMAIN all
  <2>1. m(p) = MeantIn(d, <<k, n, p>>) /\ In(<<k, n, p>>, k, n)
    BY DEF m, In
  <2> QED BY Zenon, <1>2, <2>1
<1>14. group = {m(p) : p \in DOMAIN all}
  <2>1. ASSUME NEW s \in group PROVE \E p \in DOMAIN all : s = m(p)
    <3>1. PICK y \in P : s = y[1]
      BY DEF Group
    <3>2. s[1] = key /\ s[2] = name
      BY DEF Group
    <3>3. PICK i \in SeriesIds(state.keys) : \E x \in PointsOf(At(state.keys, i)) : y = <<MeantIn(d, i), x[1], x[2]>>
      BY <1>11, <3>1
    <3>4. s = MeantIn(d, i)
      BY <3>1, <3>3
    <3>5. In(i, k, n)
      BY Zenon, <1>2, <3>2, <3>4
    <3>6. i = <<k, n, i[3]>> /\ i[3] \in DOMAIN all
      BY Zenon, <1>2, <3>5
    <3> QED BY <3>4, <3>6 DEF m
  <2>2. ASSUME NEW p \in DOMAIN all PROVE m(p) \in group
    <3> DEFINE s == all[p]
               y == <<m(p), s.timestamps[Len(s.timestamps)], Last(s.values)>>
    <3>1. <<s.timestamps[Len(s.timestamps)], Last(s.values)>> \in PointsOf(s)
      BY <1>2, LastIsNewest
    <3>2. <<k, n, p>> \in SeriesIds(state.keys) /\ At(state.keys, <<k, n, p>>) = s
      BY <1>2
    <3> HIDE DEF s
    <3>3. y \in P /\ y[1] = m(p)
      BY <1>11, <3>1, <3>2 DEF m
    <3> HIDE DEF y
    <3> QED BY <1>13, <3>3 DEF Group
  <2> HIDE DEF group
  <2> QED BY <2>1, <2>2
<1> HIDE DEF group
<1>15. IsFiniteSet(DOMAIN all)
  BY <1>2 DEF Comparable
<1>16. Cardinality(group) = Cardinality(DOMAIN all)
  <2> DEFINE f == [p \in DOMAIN all |-> m(p)]
             S == DOMAIN all
  <2>1. \A x, y \in S : f[x] = f[y] => x = y
    BY <1>2 DEF m
  <2>2. {f[x] : x \in S} = group
    BY <1>14
  <2> HIDE DEF f, S
  <2>3. Cardinality({f[x] : x \in S}) = Cardinality(S)
    BY <1>15, <2>1, SameSize DEF S
  <2> QED BY <2>2, <2>3 DEF S
<1>17. Cardinality(stays) = Cardinality(some)
  <2> DEFINE f == [p \in DOMAIN all |-> m(p)]
             S == some
  <2>1. \A x, y \in S : f[x] = f[y] => x = y
    BY <1>2, <1>3 DEF m
  <2>2. {f[x] : x \in S} = stays
    BY <1>3
  <2>3. IsFiniteSet(S)
    BY <1>3, <1>15, FS_Subset
  <2> HIDE DEF f, S, stays
  <2>4. Cardinality({f[x] : x \in S}) = Cardinality(S)
    BY <2>1, <2>3, SameSize
  <2> QED BY <2>2, <2>4 DEF S
<1>18. stays \subseteq group
  BY <1>3, <1>14
<1>19. \A p \in DOMAIN all : m(p) \in stays <=> p \in some
  <2>1. \A p, q \in DOMAIN all : m(p) = m(q) => p = q
    BY <1>2 DEF m
  <2> HIDE DEF some
  <2>2. \A s : s \in stays <=> \E p \in some : s = m(p)
    BY Zenon
  <2> HIDE DEF stays
  <2>3. some \subseteq DOMAIN all
    BY <1>3 DEF some
  <2> QED BY <2>1, <2>2, <2>3
<1>20. ASSUME NEW y \in P, NEW p \in DOMAIN all, y[1] = m(p), Newest(P, y)
       PROVE  y[3] = Last(all[p].values)
  <2>1. PICK i \in SeriesIds(state.keys) : \E x \in PointsOf(At(state.keys, i)) : y = <<MeantIn(d, i), x[1], x[2]>>
    BY <1>11
  <2>2. PICK x \in PointsOf(At(state.keys, i)) : y = <<MeantIn(d, i), x[1], x[2]>>
    BY <2>1
  <2>3. y[1] = MeantIn(d, i) /\ y[2] = x[1] /\ y[3] = x[2]
    BY <2>2
  <2> DEFINE j == <<k, n, p>>
             s == all[p]
             last == s.timestamps[Len(s.timestamps)]
  <2>4. j \in SeriesIds(state.keys) /\ At(state.keys, j) = s /\ m(p) = MeantIn(d, j)
    BY <1>2, <1>13
  <2> HIDE DEF j
  <2>5. i = j
    <3>1. IdOK(d, i) /\ IdOK(d, j) /\ MeantIn(d, i) = MeantIn(d, j)
      BY <1>1, <1>20, <2>3, <2>4 DEF SeriesAllOK
    <3> QED BY <1>1, <3>1, MeantOnce
  <2>6. SeriesOK(s) /\ s.values # <<>>
    BY <1>2
  <2> HIDE DEF s
  <2>7. /\ <<last, Last(s.values)>> \in PointsOf(s)
        /\ \A z \in PointsOf(s) : z = <<z[1], z[2]>> /\ z[1] \in Int /\ (last <= z[1] => z[2] = Last(s.values))
    BY <2>6, LastIsNewest
  <2> HIDE DEF last
  <2>8. <<m(p), last, Last(s.values)>> \in P
    BY <1>11, <2>4, <2>7
  <2>9. last <= y[2]
    <3> DEFINE z == <<m(p), last, Last(s.values)>>
    <3>1. z \in P /\ z[1] = y[1] /\ z[2] = last
      BY <1>20, <2>8
    <3> HIDE DEF z
    <3> QED BY <1>20, <3>1 DEF Newest
  <2> QED BY <2>3, <2>4, <2>5, <2>7, <2>9 DEF s
<1>21. ASSUME NEW sr \in group PROVE \E y \in P : y[1] = sr /\ Newest(P, y)
  <2>1. PICK p \in DOMAIN all : sr = m(p)
    BY <1>14
  <2> DEFINE j == <<k, n, p>>
             s == all[p]
             last == s.timestamps[Len(s.timestamps)]
             y == <<sr, last, Last(s.values)>>
  <2>2. j \in SeriesIds(state.keys) /\ At(state.keys, j) = s /\ sr = MeantIn(d, j)
    BY <1>2, <1>13, <2>1
  <2> HIDE DEF j
  <2>3. SeriesOK(s) /\ s.values # <<>>
    BY <1>2
  <2> HIDE DEF s
  <2>4. <<last, Last(s.values)>> \in PointsOf(s) /\ \A z \in PointsOf(s) : z[1] <= last
    BY <2>3, LastIsNewest
  <2> HIDE DEF last
  <2>5. y \in P /\ y[1] = sr /\ y[2] = last
    BY <1>11, <2>2, <2>4
  <2> HIDE DEF y
  <2>6. ASSUME NEW z \in P, z[1] = sr PROVE z[2] <= last
    <3>1. PICK i \in SeriesIds(state.keys) : \E x \in PointsOf(At(state.keys, i)) : z = <<MeantIn(d, i), x[1], x[2]>>
      BY <1>11
    <3>2. PICK x \in PointsOf(At(state.keys, i)) : z = <<MeantIn(d, i), x[1], x[2]>>
      BY <3>1
    <3>3. z[1] = MeantIn(d, i) /\ z[2] = x[1]
      BY <3>2
    <3>4. IdOK(d, i) /\ IdOK(d, j) /\ MeantIn(d, i) = MeantIn(d, j)
      BY <1>1, <2>2, <2>6, <3>3 DEF SeriesAllOK
    <3>5. i = j
      BY <1>1, <3>4, MeantOnce
    <3> QED BY <2>2, <2>4, <3>3, <3>5
  <2> QED BY <2>5, <2>6 DEF Newest
<1>22. ASSUME NEW x \in P, NEW y \in P, Newest(P, x), Newest(P, y), x[1] \in stays, y[1] \in group \ stays
       PROVE  x[3] >= y[3]
  <2>1. PICK p \in some : x[1] = m(p)
    BY <1>22
  <2>2. PICK q \in DOMAIN all : y[1] = m(q)
    BY <1>14, <1>22
  <2>3. p \in DOMAIN all /\ q \notin some
    BY <1>3, <1>19, <1>22, <2>2
  <2>4. x[3] = Last(all[p].values) /\ y[3] = Last(all[q].values)
    BY <1>20, <1>22, <2>1, <2>2, <2>3
  <2> QED BY <1>3, <2>3, <2>4
<1>23. ASSUME NEW i \in SeriesIds(state.keys)
       PROVE  i \in SeriesIds(tree) <=> MeantIn(d, i) \in stays \/ MeantIn(d, i) \notin group
  <2>1. CASE In(i, k, n)
    <3>1. i = <<k, n, i[3]>> /\ i[3] \in DOMAIN all
      BY Zenon, <1>2, <2>1
    <3>2. MeantIn(d, i) = m(i[3])
      BY <3>1 DEF m
    <3>3. m(i[3]) \in group
      BY <1>14, <3>1
    <3> QED BY Zenon, <1>8, <1>19, <2>1, <3>1, <3>2, <3>3
  <2>2. CASE ~In(i, k, n)
    <3>1. MeantIn(d, i) \notin group
      <4> SUFFICES ASSUME MeantIn(d, i) \in group PROVE FALSE
        OBVIOUS
      <4>1. PICK p \in DOMAIN all : MeantIn(d, i) = m(p)
        BY <1>14
      <4> QED BY Zenon, <1>2, <1>13, <2>2, <4>1
    <3> QED BY Zenon, <1>8, <2>2, <3>1
  <2> QED BY Zenon, <2>1, <2>2
<1>24. R = {y \in P : y[1] \in stays \/ y[1] \notin group}
  <2>1. ASSUME NEW y \in R PROVE y \in P /\ (y[1] \in stays \/ y[1] \notin group)
    <3>1. PICK i \in SeriesIds(tree) : \E x \in PointsOf(At(tree, i)) : y = <<MeantIn(d, i), x[1], x[2]>>
      BY Zenon, <1>12
    <3>2. PICK x \in PointsOf(At(tree, i)) : y = <<MeantIn(d, i), x[1], x[2]>>
      BY Zenon, <3>1
    <3>3. i \in SeriesIds(state.keys) /\ x \in PointsOf(At(state.keys, i))
      BY Zenon, <1>8, <1>9
    <3>4. y[1] = MeantIn(d, i)
      BY <3>2
    <3> QED BY Zenon, <1>11, <1>23, <3>2, <3>3, <3>4
  <2>2. ASSUME NEW y \in P, y[1] \in stays \/ y[1] \notin group PROVE y \in R
    <3>1. PICK i \in SeriesIds(state.keys) : \E x \in PointsOf(At(state.keys, i)) : y = <<MeantIn(d, i), x[1], x[2]>>
      BY Zenon, <1>11
    <3>2. PICK x \in PointsOf(At(state.keys, i)) : y = <<MeantIn(d, i), x[1], x[2]>>
      BY Zenon, <3>1
    <3>3. y[1] = MeantIn(d, i)
      BY <3>2
    <3>4. i \in SeriesIds(tree)
      BY Zenon, <1>23, <2>2, <3>3
    <3> QED BY Zenon, <1>9, <1>12, <3>2, <3>4
  <2> QED BY <2>1, <2>2
<1> HIDE DEF stays, some
<1>25. CapMade(P, R, key, name)
  <2>1. Cardinality(stays) = Min({Cap, Cardinality(group)})
    BY <1>3, <1>16, <1>17
  <2>2. \A x, y \in P : Newest(P, x) /\ Newest(P, y) /\ x[1] \in stays /\ y[1] \in group \ stays => x[3] >= y[3]
    BY Zenon, <1>22
  <2>3. CapLeaves(P, R, key, name, stays)
    BY Zenon, <1>18, <1>24, <2>1, <2>2 DEF CapLeaves, group
  <2>4. \A s \in group : \E y \in P : y[1] = s /\ Newest(P, y)
    BY Zenon, <1>21
  <2> QED BY Zenon, <2>3, <2>4 DEF CapMade, group
<1> QED BY Zenon, <1>6, <1>7, <1>10, <1>25 DEF d, tree, few, all, P, R, key, name

\* How the points change when a call's samples of a metric are added.
MetricMade(state, new, call, name) ==
  \E more : /\ SamplesCount(StatePoints(state), more, call.key, name, call.at, Observed(call, name))
            /\ CapMade(more, StatePoints(new), call.key, name)

LEMMA TimesAreNumbers ==
  ASSUME NEW call, CallOK(call)
  PROVE  call.at \in Int
BY ExposedAssumption DEF CallOK

LEMMA AddMetricIs ==
  ASSUME NEW state, StateOK(state), NEW call, CallOK(call), Knows(state.dict, call.key),
         NEW name \in Texts, Finites(call, name) # {}
  PROVE  LET new == AddMetric(state, call, name)
         IN  /\ StateOK(new) /\ Extends(state.dict, new.dict) /\ Knows(new.dict, name)
             /\ DescMade(state, new, call, name) /\ MetricMade(state, new, call, name)
<1> DEFINE named == Named(state, call, name)
           d == NamedDict(state, call, name)
           k == Id(d, call.key)
           n == Id(d, name)
           seen == Observed(call, name)
           added == AddSamples(named, call.at, seen, k, n)
           capped == CappedSeries(added.keys[k][n])
           tree == Put(added.keys, k, n, capped)
           new == AddMetric(state, call, name)
<1>1. new = [dict |-> added.dict, keys |-> tree, descs |-> added.descs,
             removed |-> added.removed \/ DOMAIN capped # DOMAIN added.keys[k][n]]
  BY Zenon DEF AddMetric, Named, NamedDict, NamedDescs, Given, Branched, Put
<1>2. new.dict = added.dict /\ new.keys = tree /\ new.descs = added.descs
  <2> HIDE DEF added, tree, capped, new
  <2> QED BY Zenon, <1>1
<1>3. named.dict = d
  BY DEF Named
<1>4. /\ StateAt(named, k, n) /\ Extends(state.dict, named.dict)
      /\ Lookup(named.dict, k) = call.key /\ Lookup(named.dict, n) = name
      /\ StatePoints(named) = StatePoints(state)
      /\ Knows(named.dict, name) /\ DescMade(state, named, call, name)
  <2>1. LET e == named.dict
            a == Id(e, call.key)
            b == Id(e, name)
        IN  /\ StateAt(named, a, b) /\ Extends(state.dict, e)
            /\ Lookup(e, a) = call.key /\ Lookup(e, b) = name
            /\ StatePoints(named) = StatePoints(state)
            /\ Knows(e, name) /\ DescMade(state, named, call, name)
    BY NamedIs
  <2> HIDE DEF named, d
  <2> QED BY Zenon, <1>3, <2>1
<1> HIDE DEF named, d, k, n, new
<1>5. call.at \in Int
  BY TimesAreNumbers
<1>6. /\ Len(seen) \in Nat /\ DOMAIN seen = 1..Len(seen) /\ Len(seen) # 0
      /\ \A i \in 1..Len(seen) : SampleOK(seen[i])
  <2> DEFINE m == Min({Cap, Cardinality(Finites(call, name))})
  <2>1. /\ m \in Nat /\ Len(seen) = m /\ DOMAIN seen = 1..m
        /\ \A i \in 1..m : SampleOK(seen[i])
        /\ Finites(call, name) # {} => m # 0
    BY ObservedFacts
  <2> HIDE DEF m, seen
  <2> QED BY Zenon, <2>1
<1> HIDE DEF seen
<1>7. /\ StateAt(added, k, n) /\ Extends(named.dict, added.dict) /\ added.descs = named.descs
      /\ SameBranches(named.keys, added.keys)
      /\ DOMAIN added.keys[k][n] # {}
      /\ SamplesCount(StatePoints(named), StatePoints(added), Lookup(named.dict, k), Lookup(named.dict, n), call.at, seen)
  BY <1>4, <1>5, <1>6, AddSamplesAre
<1> HIDE DEF added
<1>8. /\ SeriesAllOK(added.dict, tree) /\ Full(tree)
      /\ CapMade(StatePoints(added), PointsIn(added.dict, tree), Lookup(added.dict, k), Lookup(added.dict, n))
  BY <1>7, CapPut
<1> HIDE DEF tree
<1>9. Lookup(added.dict, k) = call.key /\ Lookup(added.dict, n) = name
  <2>1. k \in 0..Len(d) /\ n \in 0..Len(d)
    <3>1. k \in 1..Len(d) /\ n \in 0..Len(d) /\ d \in Dicts
      BY <1>3, <1>4 DEF StateAt
    <3>2. 1..Len(d) \subseteq 0..Len(d)
      <4> DEFINE len == Len(d)
      <4>1. len \in Nat
        BY <3>1 DEF Dicts
      <4> HIDE DEF len
      <4>2. 1..len \subseteq 0..len
        BY <4>1
      <4> QED BY <4>2 DEF len
    <3> QED BY <3>1, <3>2
  <2>2. \A i \in 0..Len(d) : Lookup(added.dict, i) = Lookup(d, i)
    BY <1>3, <1>7, IdsStay
  <2> QED BY <1>3, <1>4, <2>1, <2>2
<1>10. StatePoints(new) = PointsIn(added.dict, tree)
  BY <1>2 DEF StatePoints
<1>11. StateOK(new)
  BY <1>2, <1>7, <1>8 DEF StateAt, StateOK
<1>12. Extends(state.dict, new.dict)
  BY <1>2, <1>4, <1>7, ExtendsOn
<1>13. MetricMade(state, new, call, name)
  <2>1. SamplesCount(StatePoints(state), StatePoints(added), call.key, name, call.at, seen)
    BY <1>4, <1>7
  <2>2. CapMade(StatePoints(added), StatePoints(new), call.key, name)
    BY <1>8, <1>9, <1>10
  <2> QED BY <2>1, <2>2 DEF MetricMade, seen
<1>14. \A u : Knows(named.dict, u) => Knows(added.dict, u) /\ DescIn(added.dict, added.descs, u) = DescIn(named.dict, named.descs, u)
  <2> TAKE u
  <2>1. DescsOK(named.dict, named.descs)
    BY <1>4 DEF StateAt
  <2> QED BY <1>7, <2>1, DescStays
<1>15. \A u : Knows(state.dict, u) => Knows(named.dict, u)
  BY <1>4, IdsStay
<1>16. DescMade(state, new, call, name)
  <2>1. /\ \A u : Knows(state.dict, u) /\ (u # name \/ Given(call, name) = {}) =>
             DescIn(named.dict, named.descs, u) = DescIn(state.dict, state.descs, u)
        /\ \A text \in Given(call, name) : DescIn(named.dict, named.descs, name) = text
    BY <1>4 DEF DescMade
  <2> QED BY Zenon, <1>2, <1>4, <1>14, <1>15, <2>1 DEF DescMade
<1>17. Knows(new.dict, name)
  BY <1>2, <1>4, <1>14
<1> QED BY <1>11, <1>12, <1>13, <1>16, <1>17 DEF new

\* The states, from metric to metric.
MetricsMade(state, new, call, names) ==
  \E F : /\ F[0] = state /\ F[Len(names)] = new
         /\ \A i \in 1..Len(names) :
              /\ Extends(F[i - 1].dict, F[i].dict) /\ Knows(F[i].dict, names[i])
              /\ DescMade(F[i - 1], F[i], call, names[i]) /\ MetricMade(F[i - 1], F[i], call, names[i])

LEMMA AddMetricsAre ==
  ASSUME NEW state, StateOK(state), NEW call, CallOK(call), Knows(state.dict, call.key),
         NEW names, Len(names) \in Nat, DOMAIN names = 1..Len(names),
         \A i \in 1..Len(names) : names[i] \in Texts /\ Finites(call, names[i]) # {}
  PROVE  LET new == AddMetrics(state, call, names)
         IN  StateOK(new) /\ Extends(state.dict, new.dict) /\ MetricsMade(state, new, call, names)
<1> DEFINE len == Len(names)
           new == AddMetrics(state, call, names)
<1>1. PICK f : MetricsSteps(call, state, names, f) /\ new = f[len]
  BY MetricsFolds
<1>2. f[0] = state /\ \A i \in 1..len : f[i] = AddMetric(f[i - 1], call, names[i])
  BY <1>1 DEF MetricsSteps
<1> HIDE DEF new
<1> DEFINE OK(s) == StateOK(s) /\ Extends(state.dict, s.dict)
           Made(i) == /\ Extends(f[i - 1].dict, f[i].dict) /\ Knows(f[i].dict, names[i])
                      /\ DescMade(f[i - 1], f[i], call, names[i]) /\ MetricMade(f[i - 1], f[i], call, names[i])
           G == {i \in 0..len : OK(f[i]) /\ (i # 0 => Made(i))}
<1>0. len \in Nat
  OBVIOUS
<1>3. 0 \in G
  <2>1. Extends(state.dict, state.dict)
    BY DEF Extends, StateOK, Dicts
  <2>2. OK(state)
    BY <2>1
  <2> HIDE DEF OK, Made
  <2> QED BY <1>0, <1>2, <2>2
<1>4. ASSUME NEW i \in 0..(len - 1), i \in G PROVE i + 1 \in G
  <2>1. i + 1 \in 1..len /\ i + 1 \in 0..len /\ (i + 1) - 1 = i /\ i + 1 # 0
    BY <1>0
  <2> DEFINE s == f[i]
             t == f[i + 1]
             name == names[i + 1]
  <2>2. t = AddMetric(s, call, name) /\ name \in Texts /\ Finites(call, name) # {}
    BY <1>2, <2>1
  <2>3. OK(s)
    BY <1>4
  <2> HIDE DEF s, t, name
  <2>4. Knows(s.dict, call.key)
    BY <2>3, IdsStay
  <2>5. /\ StateOK(t) /\ Extends(s.dict, t.dict) /\ Knows(t.dict, name)
        /\ DescMade(s, t, call, name) /\ MetricMade(s, t, call, name)
    BY <2>2, <2>3, <2>4, AddMetricIs
  <2>6. OK(t)
    BY <2>3, <2>5, ExtendsOn
  <2>7. Made(i + 1)
    <3>1. f[(i + 1) - 1] = s /\ f[i + 1] = t /\ names[i + 1] = name
      BY <2>1 DEF s, t, name
    <3> QED BY Zenon, <2>5, <3>1
  <2>8. OK(f[i + 1])
    BY <2>6 DEF t
  <2> HIDE DEF OK, Made
  <2> QED BY <2>1, <2>7, <2>8
<1>5. \A i \in 0..len : i \in G
  <2> HIDE DEF G, len
  <2> QED BY <1>0, <1>3, <1>4, NatsGrow
<1>6. OK(new) /\ \A i \in 1..len : Made(i)
  <2>1. len \in 0..len /\ \A i \in 1..len : i \in 0..len /\ i # 0
    BY <1>0
  <2> HIDE DEF OK, Made
  <2> QED BY <1>1, <1>5, <2>1
<1>7. MetricsMade(state, new, call, names)
  <2>1. f[0] = state /\ f[len] = new
    BY <1>1, <1>2
  <2> QED BY Zenon, <1>6, <2>1 DEF MetricsMade
<1> QED BY <1>6, <1>7 DEF new

-----------------------------------------------------------------------------
(* Compaction.                                                              *)

DescId(state, n) == IF n \in DOMAIN state.descs THEN state.descs[n] ELSE 0

\* The ids that a series uses.
IdsIn(state, i) ==
  {i[1], i[2], DescId(state, i[2])} \cup {i[3][q][1] : q \in DOMAIN i[3]} \cup {i[3][q][2] : q \in DOMAIN i[3]}

\* The strings of a series.
Entry(state, i) ==
  <<Lookup(state.dict, i[1]), Lookup(state.dict, i[2]), Lookup(state.dict, DescId(state, i[2]))>>
    \o FlattenSeq([q \in DOMAIN i[3] |-> <<Lookup(state.dict, i[3][q][1]), Lookup(state.dict, i[3][q][2])>>])

LEMMA KnownIds ==
  ASSUME NEW state, StateOK(state), NEW i \in SeriesIds(state.keys)
  PROVE  /\ IdsIn(state, i) \subseteq 0..Len(state.dict)
         /\ i[3] \in Seq((0..Len(state.dict)) \X (0..Len(state.dict)))
         /\ Len(i[3]) \in Nat /\ DOMAIN i[3] = 1..Len(i[3])
         /\ DescId(state, i[2]) \in 0..Len(state.dict)
<1> DEFINE d == state.dict
           S == 0..Len(d)
           p == i[3]
<1>1. d \in Dicts /\ IdOK(d, i) /\ DescsOK(d, state.descs)
  BY DEF StateOK, SeriesAllOK
<1>2. 0 \in S /\ 1..Len(d) \subseteq S
  <2> DEFINE len == Len(d)
  <2>1. len \in Nat
    BY <1>1 DEF Dicts
  <2> HIDE DEF len
  <2>2. 0 \in 0..len /\ 1..len \subseteq 0..len
    BY <2>1
  <2> QED BY <2>2 DEF len
<1>3. i[1] \in S /\ i[2] \in S
  BY <1>1, <1>2 DEF IdOK
<1>4. DescId(state, i[2]) \in S
  <2>1. \A m \in DOMAIN state.descs : state.descs[m] \in S
    BY <1>1 DEF DescsOK
  <2> HIDE DEF S
  <2> QED BY <1>2, <2>1 DEF DescId
<1>5. p \in Seq(S \X S)
  <2>1. PICK labels \in LabelSets : HasLabels(d, labels) /\ p = Postings(d, labels)
    BY <1>1 DEF IdOK
  <2> QED BY <1>1, <2>1, PostingsTyped
<1> HIDE DEF S
<1>6. Len(p) \in Nat /\ DOMAIN p = 1..Len(p) /\ \A q \in DOMAIN p : p[q][1] \in S /\ p[q][2] \in S
  <2> DEFINE T == S \X S
  <2>1. p \in Seq(T)
    BY <1>5
  <2> HIDE DEF T, p
  <2>2. Len(p) \in Nat /\ DOMAIN p = 1..Len(p) /\ \A q \in DOMAIN p : p[q] \in T
    BY <2>1
  <2>3. \A x \in T : x[1] \in S /\ x[2] \in S
    BY DEF T
  <2> QED BY <2>2, <2>3
<1>7. IdsIn(state, i) \subseteq S
  BY <1>3, <1>4, <1>6 DEF IdsIn
<1> QED BY <1>4, <1>5, <1>6, <1>7 DEF S

LEMMA ThreeFirst ==
  ASSUME NEW S, NEW a \in S, NEW b \in S, NEW c \in S, NEW list \in Seq(S)
  PROVE  /\ <<a, b, c>> \o list \in Seq(S)
         /\ Range(<<a, b, c>> \o list) = {a, b, c} \cup Range(list)
<1> DEFINE n == Len(list)
           all == <<a, b, c>> \o list
<1>1. <<a, b, c>> \in Seq(S) /\ Len(<<a, b, c>>) = 3
  OBVIOUS
<1>2. n \in Nat /\ DOMAIN list = 1..n
  OBVIOUS
<1>3. all \in Seq(S) /\ Len(all) = 3 + n
  OBVIOUS
<1>4. all[1] = a /\ all[2] = b /\ all[3] = c /\ \A j \in 1..n : all[3 + j] = list[j]
  <2> DEFINE first == <<a, b, c>>
  <2>1. first \in Seq(S) /\ Len(first) = 3 /\ first[1] = a /\ first[2] = b /\ first[3] = c
    OBVIOUS
  <2> HIDE DEF first
  <2>2. \A j \in 1..(3 + n) : (first \o list)[j] = IF j <= 3 THEN first[j] ELSE list[j - 3]
    <3>1. \A j \in 1..(Len(first) + Len(list)) : (first \o list)[j] = IF j <= Len(first) THEN first[j] ELSE list[j - Len(first)]
      BY <2>1, ConcatProperties
    <3> QED BY Zenon, <2>1, <3>1
  <2> HIDE DEF n
  <2>3. 1 \in 1..(3 + n) /\ 2 \in 1..(3 + n) /\ 3 \in 1..(3 + n) /\ \A j \in 1..n : 3 + j \in 1..(3 + n) /\ ~(3 + j <= 3) /\ (3 + j) - 3 = j
    BY <1>2
  <2> DEFINE cat == first \o list
  <2>4. \A j \in 1..(3 + n) : cat[j] = IF j <= 3 THEN first[j] ELSE list[j - 3]
    BY Zenon, <2>2
  <2> HIDE DEF cat
  <2>5. cat[1] = first[1] /\ cat[2] = first[2] /\ cat[3] = first[3]
    BY <2>3, <2>4
  <2>6. \A j \in 1..n : cat[3 + j] = list[j]
    BY <2>3, <2>4
  <2> QED BY Zenon, <2>1, <2>5, <2>6 DEF first, cat
<1> HIDE DEF all
<1>5. DOMAIN all = 1..(3 + n)
  BY <1>3
<1>6. \A h \in 1..(3 + n) : h = 1 \/ h = 2 \/ h = 3 \/ (h - 3 \in 1..n /\ h = 3 + (h - 3))
  BY <1>2
<1>7. 1 \in 1..(3 + n) /\ 2 \in 1..(3 + n) /\ 3 \in 1..(3 + n) /\ \A j \in 1..n : 3 + j \in 1..(3 + n)
  BY <1>2
<1>8. ASSUME NEW x, x \in Range(all) PROVE x \in {a, b, c} \cup Range(list)
  <2>1. PICK h \in 1..(3 + n) : x = all[h]
    BY <1>5, <1>8 DEF Range
  <2>2. CASE h \in {1, 2, 3}
    BY <1>4, <2>1, <2>2
  <2>3. CASE h - 3 \in 1..n /\ h = 3 + (h - 3)
    <3> DEFINE j == h - 3
    <3>1. j \in 1..n /\ h = 3 + j
      BY <2>3
    <3> HIDE DEF j
    <3>2. x = list[j]
      BY <1>4, <2>1, <3>1
    <3> QED BY <1>2, <3>1, <3>2 DEF Range
  <2> QED BY <1>6, <2>2, <2>3
<1>9. ASSUME NEW x, x \in {a, b, c} \cup Range(list) PROVE x \in Range(all)
  <2>1. CASE x \in {a, b, c}
    <3>1. \E h \in 1..(3 + n) : x = all[h]
      BY <1>4, <1>7, <2>1
    <3> QED BY <1>5, <3>1 DEF Range
  <2>2. CASE x \in Range(list)
    <3>1. PICK j \in 1..n : x = list[j]
      BY <1>2, <2>2 DEF Range
    <3>2. x = all[3 + j] /\ 3 + j \in 1..(3 + n)
      BY <1>4, <1>7, <3>1
    <3> QED BY <1>5, <3>2 DEF Range
  <2> QED BY <1>9, <2>1, <2>2
<1> QED BY <1>3, <1>8, <1>9 DEF all

LEMMA EntryIs ==
  ASSUME NEW state, StateOK(state), NEW i \in SeriesIds(state.keys)
  PROVE  /\ Entry(state, i) \in Seq(Strings)
         /\ \A s : s \in Range(Entry(state, i)) <=> \E x \in IdsIn(state, i) : s = Lookup(state.dict, x)
<1> DEFINE L(x) == Lookup(state.dict, x)
           S == 0..Len(state.dict)
           p == i[3]
           lists == [q \in DOMAIN p |-> <<L(p[q][1]), L(p[q][2])>>]
           rest == FlattenSeq(lists)
           c == DescId(state, i[2])
           all == Entry(state, i)
<1>1. IdsIn(state, i) \subseteq S /\ Len(p) \in Nat /\ DOMAIN p = 1..Len(p)
  BY KnownIds
<1>2. \A x : x \in IdsIn(state, i) <=>
        x = i[1] \/ x = i[2] \/ x = c \/ \E q \in DOMAIN p : x = p[q][1] \/ x = p[q][2]
  BY DEF IdsIn
<1>3. \A x \in S : L(x) \in Strings
  BY LookupIs DEF StateOK
<1>4. all = <<L(i[1]), L(i[2]), L(c)>> \o rest
  BY DEF Entry
<1> HIDE DEF L, S, all, c
<1>5. \A q \in DOMAIN p : p[q][1] \in S /\ p[q][2] \in S
  BY <1>1, <1>2
<1>6. L(i[1]) \in Strings /\ L(i[2]) \in Strings /\ L(c) \in Strings
  BY <1>1, <1>2, <1>3
<1>7. lists \in Seq(Seq(Strings)) /\ DOMAIN lists = DOMAIN p
      /\ \A q \in DOMAIN p : Len(lists[q]) = 2 /\ DOMAIN lists[q] = 1..2 /\ lists[q][1] = L(p[q][1]) /\ lists[q][2] = L(p[q][2])
  <2>1. \A q \in DOMAIN p : <<L(p[q][1]), L(p[q][2])>> \in Seq(Strings)
    BY <1>3, <1>5
  <2>2. DOMAIN lists = DOMAIN p /\ \A q \in DOMAIN p : lists[q] = <<L(p[q][1]), L(p[q][2])>>
    OBVIOUS
  <2>3. \A q \in DOMAIN p : Len(lists[q]) = 2 /\ DOMAIN lists[q] = 1..2 /\ lists[q][1] = L(p[q][1]) /\ lists[q][2] = L(p[q][2])
    <3> TAKE q \in DOMAIN p
    <3>1. lists[q] = <<L(p[q][1]), L(p[q][2])>>
      BY <2>2
    <3> HIDE DEF lists
    <3> QED BY <3>1
  <2>4. lists \in Seq(Seq(Strings))
    <3> DEFINE T == Seq(Strings)
    <3>1. \A q \in 1..Len(p) : lists[q] \in T
      BY <1>1, <2>1, <2>2
    <3>2. lists = [q \in 1..Len(p) |-> lists[q]]
      BY <1>1
    <3> HIDE DEF T, lists
    <3>3. lists \in Seq(T)
      BY <1>1, <3>1, <3>2
    <3> QED BY <3>3 DEF T
  <2> QED BY <2>2, <2>3, <2>4
<1> HIDE DEF lists
<1>8. /\ rest \in Seq(Strings)
      /\ \A a \in DOMAIN lists : \A j \in DOMAIN lists[a] : \E h \in DOMAIN rest : rest[h] = lists[a][j]
      /\ \A h \in DOMAIN rest : \E a \in DOMAIN lists : \E j \in DOMAIN lists[a] : rest[h] = lists[a][j]
  BY <1>7, Flattened
<1> HIDE DEF rest
<1>9. ASSUME NEW s PROVE s \in Range(rest) <=> \E q \in DOMAIN p : s = L(p[q][1]) \/ s = L(p[q][2])
  <2>1. ASSUME s \in Range(rest) PROVE \E q \in DOMAIN p : s = L(p[q][1]) \/ s = L(p[q][2])
    <3>1. PICK h \in DOMAIN rest : s = rest[h]
      BY <2>1 DEF Range
    <3>2. PICK a \in DOMAIN lists : \E j \in DOMAIN lists[a] : rest[h] = lists[a][j]
      BY <1>8
    <3>3. PICK j \in DOMAIN lists[a] : rest[h] = lists[a][j]
      BY <3>2
    <3>4. a \in DOMAIN p /\ (j = 1 \/ j = 2)
      BY <1>7
    <3> QED BY <1>7, <3>1, <3>3, <3>4
  <2>2. ASSUME NEW q \in DOMAIN p, s = L(p[q][1]) \/ s = L(p[q][2]) PROVE s \in Range(rest)
    <3>1. q \in DOMAIN lists /\ 1 \in DOMAIN lists[q] /\ 2 \in DOMAIN lists[q]
      BY <1>7
    <3>2. \E h \in DOMAIN rest : rest[h] = s
      BY <1>7, <1>8, <2>2, <3>1
    <3> QED BY <3>2 DEF Range
  <2> QED BY <2>1, <2>2
<1>10. all \in Seq(Strings) /\ Range(all) = {L(i[1]), L(i[2]), L(c)} \cup Range(rest)
  BY <1>4, <1>6, <1>8, ThreeFirst
<1>11. \A s : s \in Range(all) <=> \E x \in IdsIn(state, i) : s = L(x)
  <2> TAKE s
  <2>1. s \in Range(all) <=> s = L(i[1]) \/ s = L(i[2]) \/ s = L(c) \/ \E q \in DOMAIN p : s = L(p[q][1]) \/ s = L(p[q][2])
    BY <1>9, <1>10
  <2>2. ASSUME s = L(i[1]) \/ s = L(i[2]) \/ s = L(c) \/ \E q \in DOMAIN p : s = L(p[q][1]) \/ s = L(p[q][2])
        PROVE  \E x \in IdsIn(state, i) : s = L(x)
    <3>1. i[1] \in IdsIn(state, i) /\ i[2] \in IdsIn(state, i) /\ c \in IdsIn(state, i)
          /\ \A q \in DOMAIN p : p[q][1] \in IdsIn(state, i) /\ p[q][2] \in IdsIn(state, i)
      BY Zenon, <1>2
    <3> QED BY Zenon, <2>2, <3>1
  <2>3. ASSUME NEW x \in IdsIn(state, i), s = L(x)
        PROVE s = L(i[1]) \/ s = L(i[2]) \/ s = L(c) \/ \E q \in DOMAIN p : s = L(p[q][1]) \/ s = L(p[q][2])
    BY Zenon, <1>2, <2>3
  <2> QED BY Zenon, <2>1, <2>2, <2>3
<1> QED BY <1>10, <1>11 DEF all, L

LEMMA MetStrings ==
  ASSUME NEW state, StateOK(state), NEW walk \in SetToSeqs(SeriesIds(state.keys))
  PROVE  /\ StringsOf(state, walk) \in Seq(Strings)
         /\ \A s : s \in Range(StringsOf(state, walk)) <=>
              \E i \in SeriesIds(state.keys) : \E x \in IdsIn(state, i) : s = Lookup(state.dict, x)
<1> DEFINE ids == SeriesIds(state.keys)
           n == Cardinality(ids)
           lists == [h \in DOMAIN walk |-> Entry(state, walk[h])]
           all == StringsOf(state, walk)
<1>1. all = FlattenSeq(lists)
  BY Zenon DEF StringsOf, Entry, DescId
<1>2. IsFiniteSet(ids) /\ n \in Nat
  BY FS_CardinalityType DEF StateOK, SeriesAllOK
<1> HIDE DEF all
<1>3. walk \in [1..n -> ids] /\ \A h, j \in 1..n : h # j => walk[h] # walk[j]
  BY DEF SetToSeqs
<1> HIDE DEF ids, n
<1>4. \A i \in ids : \E h \in 1..n : walk[h] = i
  <2>1. walk \in Injection(1..n, ids)
    BY <1>3 DEF Injection, IsInjective
  <2>2. Cardinality(1..n) = n
    <3>1. 1 \in Int /\ n \in Int /\ (1 > n => n = 0) /\ n - 1 + 1 = n
      BY <1>2
    <3> QED BY <3>1, FS_Interval
  <2>3. walk \in Surjection(1..n, ids)
    BY <1>2, <2>1, <2>2, FS_Injection DEF n
  <2> QED BY <2>3 DEF Surjection
<1>5. \A h \in 1..n : walk[h] \in ids
  BY <1>3
<1>6. \A h \in 1..n : Entry(state, walk[h]) \in Seq(Strings)
  BY <1>5, EntryIs DEF ids
<1>7. lists \in Seq(Seq(Strings)) /\ DOMAIN lists = 1..n /\ \A h \in 1..n : lists[h] = Entry(state, walk[h])
  <2> DEFINE T == Seq(Strings)
  <2>1. lists = [h \in 1..n |-> Entry(state, walk[h])]
    BY <1>3
  <2>2. \A h \in 1..n : Entry(state, walk[h]) \in T
    BY <1>6
  <2> HIDE DEF T, lists
  <2>3. lists \in Seq(T)
    BY <1>2, <2>1, <2>2
  <2> QED BY <2>1, <2>3 DEF T
<1> HIDE DEF lists
<1>8. /\ all \in Seq(Strings)
      /\ \A a \in DOMAIN lists : \A j \in DOMAIN lists[a] : \E h \in DOMAIN all : all[h] = lists[a][j]
      /\ \A h \in DOMAIN all : \E a \in DOMAIN lists : \E j \in DOMAIN lists[a] : all[h] = lists[a][j]
  <2> DEFINE flat == FlattenSeq(lists)
  <2>1. lists \in Seq(Seq(Strings))
    BY <1>7
  <2>2. /\ flat \in Seq(Strings)
        /\ \A a \in DOMAIN lists : \A j \in DOMAIN lists[a] : \E h \in DOMAIN flat : flat[h] = lists[a][j]
        /\ \A h \in DOMAIN flat : \E a \in DOMAIN lists : \E j \in DOMAIN lists[a] : flat[h] = lists[a][j]
    BY <2>1, Flattened
  <2>3. all = flat
    BY <1>1
  <2> HIDE DEF flat
  <2> QED BY <2>2, <2>3
<1>9. \A i \in ids : \A s : s \in Range(Entry(state, i)) <=> \E x \in IdsIn(state, i) : s = Lookup(state.dict, x)
  BY EntryIs DEF ids
<1>10. ASSUME NEW s, s \in Range(all) PROVE \E i \in ids : \E x \in IdsIn(state, i) : s = Lookup(state.dict, x)
  <2>1. PICK h \in DOMAIN all : s = all[h]
    BY <1>10 DEF Range
  <2>2. PICK a \in DOMAIN lists : \E j \in DOMAIN lists[a] : all[h] = lists[a][j]
    BY <1>8
  <2>3. lists[a] = Entry(state, walk[a]) /\ walk[a] \in ids
    BY <1>5, <1>7
  <2>4. s \in Range(Entry(state, walk[a]))
    BY <2>1, <2>2, <2>3 DEF Range
  <2> QED BY <1>9, <2>3, <2>4
<1>11. ASSUME NEW s, NEW i \in ids, NEW x \in IdsIn(state, i), s = Lookup(state.dict, x) PROVE s \in Range(all)
  <2>1. s \in Range(Entry(state, i))
    BY <1>9, <1>11
  <2>2. PICK a \in 1..n : walk[a] = i
    BY <1>4
  <2>3. lists[a] = Entry(state, i) /\ a \in DOMAIN lists
    BY <1>7, <2>2
  <2>4. PICK j \in DOMAIN lists[a] : lists[a][j] = s
    BY <2>1, <2>3 DEF Range
  <2>5. \E h \in DOMAIN all : all[h] = s
    BY <1>8, <2>3, <2>4
  <2> QED BY <2>5 DEF Range
<1> QED BY <1>8, <1>10, <1>11 DEF all, ids

\* An id of one dictionary in another.
Move(d, e, x) == Id(e, Lookup(d, x))

MovePostings(d, e, p) == [q \in DOMAIN p |-> <<Move(d, e, p[q][1]), Move(d, e, p[q][2])>>]

MoveId(d, e, i) == <<Move(d, e, i[1]), Move(d, e, i[2]), MovePostings(d, e, i[3])>>

LEMMA MovesBack ==
  ASSUME NEW d \in Dicts, NEW e \in Dicts, NEW x \in 0..Len(d), Knows(e, Lookup(d, x))
  PROVE  /\ Move(d, e, x) \in 0..Len(e) /\ Lookup(e, Move(d, e, x)) = Lookup(d, x)
         /\ Move(e, d, Move(d, e, x)) = x /\ (Move(d, e, x) = 0 <=> x = 0)
<1> DEFINE s == Lookup(d, x)
           y == Move(d, e, x)
<1>1. Id(d, s) = x /\ (s = NoString <=> x = 0)
  BY LookupIs
<1>2. y = Id(e, s)
  BY DEF Move
<1> HIDE DEF s, y
<1>3. Knows(e, s)
  BY DEF s
<1>4. y \in 0..Len(e) /\ Lookup(e, y) = s /\ (y = 0 <=> s = NoString)
  BY <1>2, <1>3, IdIs
<1>5. Move(e, d, y) = x
  BY <1>1, <1>4 DEF Move
<1> QED BY <1>1, <1>4, <1>5 DEF y, s

\* The other dictionary has all strings that are in use.
HasAll(state, e) ==
  \A i \in SeriesIds(state.keys) : \A x \in IdsIn(state, i) : Knows(e, Lookup(state.dict, x))

LEMMA IdMoves ==
  ASSUME NEW state, StateOK(state), NEW e \in Dicts, HasAll(state, e), NEW i \in SeriesIds(state.keys)
  PROVE  LET d == state.dict
         IN  /\ IdOK(e, MoveId(d, e, i)) /\ MeantIn(e, MoveId(d, e, i)) = MeantIn(d, i)
             /\ Move(e, d, Move(d, e, i[1])) = i[1] /\ Move(e, d, Move(d, e, i[2])) = i[2]
             /\ MovePostings(e, d, MovePostings(d, e, i[3])) = i[3]
             /\ \A x \in IdsIn(state, i) : Move(d, e, x) \in 0..Len(e) /\ Lookup(e, Move(d, e, x)) = Lookup(d, x)
<1> DEFINE d == state.dict
           p == i[3]
           r == MovePostings(d, e, p)
           j == MoveId(d, e, i)
           S == 0..Len(d)
<1>1. d \in Dicts /\ IdOK(d, i)
  BY DEF StateOK, SeriesAllOK
<1>2. /\ IdsIn(state, i) \subseteq S /\ p \in Seq(S \X S)
      /\ Len(p) \in Nat /\ DOMAIN p = 1..Len(p)
  BY KnownIds
<1>3. /\ i[1] \in IdsIn(state, i) /\ i[2] \in IdsIn(state, i)
      /\ \A q \in DOMAIN p : p[q][1] \in IdsIn(state, i) /\ p[q][2] \in IdsIn(state, i)
  BY DEF IdsIn
<1>4. \A x \in IdsIn(state, i) :
        /\ Move(d, e, x) \in 0..Len(e) /\ Lookup(e, Move(d, e, x)) = Lookup(d, x)
        /\ Move(e, d, Move(d, e, x)) = x /\ (Move(d, e, x) = 0 <=> x = 0)
  <2> TAKE x \in IdsIn(state, i)
  <2>1. x \in 0..Len(d) /\ Knows(e, Lookup(d, x))
    BY <1>2 DEF HasAll
  <2> QED BY <1>1, <2>1, MovesBack
<1>5. j[1] = Move(d, e, i[1]) /\ j[2] = Move(d, e, i[2]) /\ j[3] = r /\ j = <<j[1], j[2], j[3]>>
  BY DEF MoveId
<1>6. PICK labels \in LabelSets : HasLabels(d, labels) /\ p = Postings(d, labels)
  BY <1>1 DEF IdOK
<1> DEFINE pairs == LabelPairs(labels)
<1>7. PairsOf(labels, pairs)
  BY LabelPairsAre
<1>8. /\ Len(p) = Len(pairs)
      /\ \A q \in 1..Len(pairs) : Lookup(d, p[q][1]) = pairs[q][1] /\ Lookup(d, p[q][2]) = pairs[q][2]
  BY <1>1, <1>6, PostingsTyped
<1> HIDE DEF pairs
<1>9. /\ Len(pairs) \in Nat /\ DOMAIN pairs = 1..Len(pairs)
      /\ \A q \in 1..Len(pairs) : pairs[q][1] \in DOMAIN labels /\ pairs[q][2] = labels[pairs[q][1]]
      /\ \A name \in DOMAIN labels : \E q \in 1..Len(pairs) : pairs[q][1] = name
  BY <1>7 DEF PairsOf
<1>10. HasLabels(e, labels)
  <2>1. ASSUME NEW name \in DOMAIN labels PROVE Knows(e, name) /\ Knows(e, labels[name])
    <3>1. PICK q \in 1..Len(pairs) : pairs[q][1] = name
      BY <1>9
    <3>2. pairs[q][2] = labels[name] /\ Lookup(d, p[q][1]) = name /\ Lookup(d, p[q][2]) = labels[name] /\ q \in DOMAIN p
      BY <1>2, <1>8, <1>9, <3>1
    <3>3. p[q][1] \in IdsIn(state, i) /\ p[q][2] \in IdsIn(state, i)
      BY <1>3, <3>2
    <3>4. Knows(e, Lookup(d, p[q][1])) /\ Knows(e, Lookup(d, p[q][2]))
      BY <3>3 DEF HasAll
    <3> QED BY <3>2, <3>4
  <2> QED BY <2>1 DEF HasLabels
<1>11. r = Postings(e, labels)
  <2>1. Postings(e, labels) = [q \in DOMAIN pairs |-> <<Id(e, pairs[q][1]), Id(e, pairs[q][2])>>]
    BY Zenon DEF Postings, pairs
  <2>2. r = [q \in DOMAIN p |-> <<Id(e, Lookup(d, p[q][1])), Id(e, Lookup(d, p[q][2]))>>]
    BY Zenon DEF MovePostings, Move
  <2>3. DOMAIN p = DOMAIN pairs
    BY <1>2, <1>8, <1>9
  <2> HIDE DEF r, p
  <2>4. \A q \in DOMAIN pairs : Lookup(d, p[q][1]) = pairs[q][1] /\ Lookup(d, p[q][2]) = pairs[q][2]
    BY <1>8, <1>9
  <2> QED BY Zenon, <2>1, <2>2, <2>3, <2>4
<1>12. Labels(d, p) = labels /\ Labels(e, r) = labels
  BY <1>1, <1>6, <1>10, <1>11, LabelsAgain
<1> HIDE DEF j, r
<1>13. MeantIn(e, j) = MeantIn(d, i)
  BY <1>3, <1>4, <1>5, <1>12 DEF MeantIn
<1>14. IdOK(e, j)
  <2>1. i[1] # 0 /\ i[2] \in S
    <3>1. i[1] \in 1..Len(d) /\ i[2] \in 0..Len(d)
      BY <1>1 DEF IdOK
    <3>2. Len(d) \in Nat
      BY <1>1 DEF Dicts
    <3> DEFINE len == Len(d)
    <3>3. len \in Nat /\ i[1] \in 1..len
      BY <3>1, <3>2
    <3> HIDE DEF len
    <3>4. i[1] # 0
      BY <3>3
    <3> QED BY <3>1, <3>4
  <2>2. j[1] \in 0..Len(e) /\ j[1] # 0 /\ j[2] \in 0..Len(e)
    BY <1>3, <1>4, <1>5, <2>1
  <2>3. j[1] \in 1..Len(e)
    <3> DEFINE len == Len(e)
    <3>1. len \in Nat
      BY DEF Dicts
    <3>2. j[1] \in 0..len /\ j[1] # 0
      BY <2>2
    <3> HIDE DEF len
    <3>3. j[1] \in 1..len
      BY <3>1, <3>2
    <3> QED BY <3>3 DEF len
  <2> QED BY <1>5, <1>10, <1>11, <2>2, <2>3 DEF IdOK
<1>15. MovePostings(e, d, r) = p
  <2>1. DOMAIN r = DOMAIN p /\ \A q \in DOMAIN p : r[q][1] = Move(d, e, p[q][1]) /\ r[q][2] = Move(d, e, p[q][2])
    BY DEF r, MovePostings
  <2>2. MovePostings(e, d, r) = [q \in DOMAIN r |-> <<Move(e, d, r[q][1]), Move(e, d, r[q][2])>>]
    BY DEF MovePostings
  <2>3. \A q \in DOMAIN p : Move(e, d, r[q][1]) = p[q][1] /\ Move(e, d, r[q][2]) = p[q][2]
    BY <1>3, <1>4, <2>1
  <2>4. \A q \in DOMAIN p : p[q] = <<p[q][1], p[q][2]>>
    <3> DEFINE T == S \X S
    <3>1. p \in Seq(T)
      BY <1>2
    <3> HIDE DEF T, p
    <3>2. \A q \in 1..Len(p) : p[q] \in T
      BY <3>1
    <3>3. \A x \in T : x = <<x[1], x[2]>>
      BY DEF T
    <3> QED BY <1>2, <3>2, <3>3
  <2>5. p = [q \in DOMAIN p |-> p[q]]
    <3> DEFINE T == S \X S
    <3>1. p \in Seq(T)
      BY <1>2
    <3> HIDE DEF T, p
    <3> QED BY <3>1
  <2> DEFINE back == MovePostings(e, d, r)
  <2> HIDE DEF p
  <2>6. DOMAIN back = DOMAIN p
    BY Zenon, <2>1, <2>2
  <2>7. \A q \in DOMAIN p : back[q] = p[q]
    <3> TAKE q \in DOMAIN p
    <3>1. back[q] = <<Move(e, d, r[q][1]), Move(e, d, r[q][2])>>
      BY Zenon, <2>1, <2>2
    <3> QED BY Zenon, <2>3, <2>4, <3>1
  <2>8. back = [q \in DOMAIN p |-> back[q]]
    BY Zenon, <2>1, <2>2
  <2> HIDE DEF back
  <2> QED BY Zenon, <2>5, <2>6, <2>7, <2>8 DEF back
<1> QED BY <1>3, <1>4, <1>13, <1>14, <1>15 DEF j, r

\* The tree by the ids of another dictionary.
MovedTree(d, e, tree) ==
  [k \in {Move(d, e, k) : k \in DOMAIN tree} |->
    [n \in {Move(d, e, n) : n \in DOMAIN tree[Move(e, d, k)]} |->
      [p \in {MovePostings(d, e, p) : p \in DOMAIN tree[Move(e, d, k)][Move(e, d, n)]} |->
        tree[Move(e, d, k)][Move(e, d, n)][MovePostings(e, d, p)]]]]

MetricsOf(tree) == UNION {DOMAIN tree[k] : k \in DOMAIN tree}

MovedDescs(d, e, tree, texts) ==
  [n \in {Move(d, e, n) : n \in MetricsOf(tree)} |->
     Move(d, e, IF Move(e, d, n) \in DOMAIN texts THEN texts[Move(e, d, n)] ELSE 0)]

LEMMA EncodedIs ==
  ASSUME NEW state, NEW e
  PROVE  Encoded(state, e) = [dict |-> e, keys |-> MovedTree(state.dict, e, state.keys),
                              descs |-> MovedDescs(state.dict, e, state.keys, state.descs)]
BY Zenon DEF Encoded, MovedTree, MovedDescs, MetricsOf, Move, MovePostings

\* Every branch of a full tree has a series.
LEMMA BranchesHaveSeries ==
  ASSUME NEW tree, Full(tree)
  PROVE  /\ \A k \in DOMAIN tree : \E i \in SeriesIds(tree) : i[1] = k
         /\ \A k \in DOMAIN tree : \A n \in DOMAIN tree[k] : \E i \in SeriesIds(tree) : i[1] = k /\ i[2] = n
         /\ \A k \in DOMAIN tree : \A n \in DOMAIN tree[k] : \A p \in DOMAIN tree[k][n] :
              \E i \in SeriesIds(tree) : i[1] = k /\ i[2] = n /\ i[3] = p
<1>1. ASSUME NEW k \in DOMAIN tree, NEW n \in DOMAIN tree[k], NEW p \in DOMAIN tree[k][n]
      PROVE  \E i \in SeriesIds(tree) : i[1] = k /\ i[2] = n /\ i[3] = p
  <2> DEFINE i == <<k, n, p>>
  <2>1. i = <<i[1], i[2], i[3]>> /\ i[1] = k /\ i[2] = n /\ i[3] = p
    OBVIOUS
  <2> HIDE DEF i
  <2>2. i \in SeriesIds(tree)
    BY <1>1, <2>1, IdsOfTree
  <2> QED BY <2>1, <2>2
<1>2. ASSUME NEW k \in DOMAIN tree, NEW n \in DOMAIN tree[k]
      PROVE  \E i \in SeriesIds(tree) : i[1] = k /\ i[2] = n
  <2>1. PICK p : p \in DOMAIN tree[k][n]
    BY Zenon, <1>2 DEF Full
  <2>2. \E i \in SeriesIds(tree) : i[1] = k /\ i[2] = n /\ i[3] = p
    BY <1>1, <1>2, <2>1
  <2> QED BY Zenon, <2>2
<1>3. ASSUME NEW k \in DOMAIN tree
      PROVE  \E i \in SeriesIds(tree) : i[1] = k
  <2>1. PICK n : n \in DOMAIN tree[k]
    BY Zenon, <1>3 DEF Full
  <2> QED BY Zenon, <1>2, <1>3, <2>1
<1> QED BY Zenon, <1>1, <1>2, <1>3

LEMMA MovedTreeIs ==
  ASSUME NEW state, StateOK(state), NEW e \in Dicts, HasAll(state, e)
  PROVE  LET d == state.dict
             new == MovedTree(d, e, state.keys)
         IN  /\ \A j : j \in SeriesIds(new) <=> \E i \in SeriesIds(state.keys) : j = MoveId(d, e, i)
             /\ \A i \in SeriesIds(state.keys) : At(new, MoveId(d, e, i)) = At(state.keys, i)
             /\ Full(new)
<1> DEFINE d == state.dict
           tree == state.keys
           new == MovedTree(d, e, tree)
           to(x) == Move(d, e, x)
           from(x) == Move(e, d, x)
           toAll(p) == MovePostings(d, e, p)
           fromAll(p) == MovePostings(e, d, p)
           leaf(old) == [p \in {toAll(p) : p \in DOMAIN old} |-> old[fromAll(p)]]
           branch(old) == [n \in {to(n) : n \in DOMAIN old} |-> leaf(old[from(n)])]
<1>1. new = [k \in {to(k) : k \in DOMAIN tree} |-> branch(tree[from(k)])]
  BY Zenon DEF MovedTree
<1>2. \A old : DOMAIN leaf(old) = {toAll(p) : p \in DOMAIN old} /\ DOMAIN branch(old) = {to(n) : n \in DOMAIN old}
  OBVIOUS
<1>3. \A old : \A p \in DOMAIN old : leaf(old)[toAll(p)] = old[fromAll(toAll(p))]
  <2> HIDE DEF toAll, fromAll
  <2> QED OBVIOUS
<1>4. \A old : \A n \in DOMAIN old : branch(old)[to(n)] = leaf(old[from(to(n))])
  <2> HIDE DEF to, from, leaf
  <2> QED OBVIOUS
<1>5. DOMAIN new = {to(k) : k \in DOMAIN tree} /\ \A k \in DOMAIN tree : new[to(k)] = branch(tree[from(to(k))])
  <2> HIDE DEF new, to, from, branch
  <2> QED BY <1>1
<1>6. Full(tree)
  BY DEF StateOK
<1>7. \A i \in SeriesIds(tree) : from(to(i[1])) = i[1] /\ from(to(i[2])) = i[2] /\ fromAll(toAll(i[3])) = i[3]
  BY IdMoves
<1>8. /\ \A k \in DOMAIN tree : from(to(k)) = k
      /\ \A k \in DOMAIN tree : \A n \in DOMAIN tree[k] : from(to(n)) = n
      /\ \A k \in DOMAIN tree : \A n \in DOMAIN tree[k] : \A p \in DOMAIN tree[k][n] : fromAll(toAll(p)) = p
  <2> HIDE DEF to, from, toAll, fromAll
  <2>1. ASSUME NEW k \in DOMAIN tree PROVE from(to(k)) = k
    <3>1. \E i \in SeriesIds(tree) : i[1] = k
      BY <1>6, BranchesHaveSeries
    <3> QED BY Zenon, <1>7, <3>1
  <2>2. ASSUME NEW k \in DOMAIN tree, NEW n \in DOMAIN tree[k] PROVE from(to(n)) = n
    <3>1. \E i \in SeriesIds(tree) : i[1] = k /\ i[2] = n
      BY <1>6, BranchesHaveSeries
    <3> QED BY Zenon, <1>7, <3>1
  <2>3. ASSUME NEW k \in DOMAIN tree, NEW n \in DOMAIN tree[k], NEW p \in DOMAIN tree[k][n] PROVE fromAll(toAll(p)) = p
    <3>1. \E i \in SeriesIds(tree) : i[1] = k /\ i[2] = n /\ i[3] = p
      BY <1>6, BranchesHaveSeries
    <3> QED BY Zenon, <1>7, <3>1
  <2> QED BY Zenon, <2>1, <2>2, <2>3
<1>9. \A j : j \in SeriesIds(new) <=>
           /\ j = <<j[1], j[2], j[3]>> /\ j[1] \in DOMAIN new
           /\ j[2] \in DOMAIN new[j[1]] /\ j[3] \in DOMAIN new[j[1]][j[2]]
  BY IdsOfTree
<1>10. \A i : i \in SeriesIds(tree) <=>
           /\ i = <<i[1], i[2], i[3]>> /\ i[1] \in DOMAIN tree
           /\ i[2] \in DOMAIN tree[i[1]] /\ i[3] \in DOMAIN tree[i[1]][i[2]]
  BY IdsOfTree
<1> HIDE DEF new, leaf, branch, to, from, toAll, fromAll
<1>11. ASSUME NEW k \in DOMAIN tree
       PROVE  to(k) \in DOMAIN new /\ new[to(k)] = branch(tree[k]) /\ DOMAIN new[to(k)] = {to(n) : n \in DOMAIN tree[k]}
  <2>1. to(k) \in DOMAIN new
    BY Zenon, <1>5
  <2>2. new[to(k)] = branch(tree[k])
    BY Zenon, <1>5, <1>8
  <2> QED BY Zenon, <1>2, <2>1, <2>2
<1>12. ASSUME NEW k \in DOMAIN tree, NEW n \in DOMAIN tree[k]
       PROVE  /\ to(n) \in DOMAIN new[to(k)] /\ new[to(k)][to(n)] = leaf(tree[k][n])
              /\ DOMAIN new[to(k)][to(n)] = {toAll(p) : p \in DOMAIN tree[k][n]}
  <2>1. to(n) \in DOMAIN new[to(k)]
    BY Zenon, <1>11
  <2>2. branch(tree[k])[to(n)] = leaf(tree[k][from(to(n))]) /\ from(to(n)) = n
    BY Zenon, <1>4, <1>8
  <2>3. new[to(k)][to(n)] = leaf(tree[k][n])
    BY Zenon, <1>11, <2>2
  <2> QED BY Zenon, <1>2, <2>1, <2>3
<1>13. ASSUME NEW k \in DOMAIN tree, NEW n \in DOMAIN tree[k], NEW p \in DOMAIN tree[k][n]
       PROVE  toAll(p) \in DOMAIN new[to(k)][to(n)] /\ new[to(k)][to(n)][toAll(p)] = tree[k][n][p]
  <2>1. leaf(tree[k][n])[toAll(p)] = tree[k][n][fromAll(toAll(p))] /\ fromAll(toAll(p)) = p
    BY Zenon, <1>3, <1>8
  <2> QED BY Zenon, <1>12, <2>1
<1>14. \A i : MoveId(d, e, i) = <<to(i[1]), to(i[2]), toAll(i[3])>>
  BY Zenon DEF MoveId, to, toAll
<1>15. ASSUME NEW i \in SeriesIds(tree)
       PROVE  MoveId(d, e, i) \in SeriesIds(new) /\ At(new, MoveId(d, e, i)) = At(tree, i)
  <2> DEFINE j == MoveId(d, e, i)
  <2>1. j[1] = to(i[1]) /\ j[2] = to(i[2]) /\ j[3] = toAll(i[3]) /\ j = <<j[1], j[2], j[3]>>
    BY <1>14
  <2>2. i[1] \in DOMAIN tree /\ i[2] \in DOMAIN tree[i[1]] /\ i[3] \in DOMAIN tree[i[1]][i[2]]
    BY Zenon, <1>10
  <2> HIDE DEF j
  <2>3. to(i[1]) \in DOMAIN new /\ to(i[2]) \in DOMAIN new[to(i[1])] /\ toAll(i[3]) \in DOMAIN new[to(i[1])][to(i[2])]
        /\ new[to(i[1])][to(i[2])][toAll(i[3])] = tree[i[1]][i[2]][i[3]]
    BY Zenon, <1>11, <1>12, <1>13, <2>2
  <2>4. j \in SeriesIds(new)
    BY Zenon, <1>9, <2>1, <2>3
  <2>5. At(new, j) = At(tree, i)
    BY Zenon, <2>1, <2>3 DEF At
  <2> QED BY <2>4, <2>5 DEF j
<1>16. ASSUME NEW j \in SeriesIds(new) PROVE \E i \in SeriesIds(tree) : j = MoveId(d, e, i)
  <2>1. /\ j = <<j[1], j[2], j[3]>> /\ j[1] \in DOMAIN new
        /\ j[2] \in DOMAIN new[j[1]] /\ j[3] \in DOMAIN new[j[1]][j[2]]
    BY Zenon, <1>9
  <2>2. PICK k \in DOMAIN tree : j[1] = to(k)
    BY <1>5, <2>1
  <2>3. PICK n \in DOMAIN tree[k] : j[2] = to(n)
    BY <1>11, <2>1, <2>2
  <2>4. PICK p \in DOMAIN tree[k][n] : j[3] = toAll(p)
    BY <1>12, <2>1, <2>2, <2>3
  <2>5. PICK i \in SeriesIds(tree) : i[1] = k /\ i[2] = n /\ i[3] = p
    BY <1>6, BranchesHaveSeries
  <2>6. j = MoveId(d, e, i)
    BY Zenon, <1>14, <2>1, <2>2, <2>3, <2>4, <2>5
  <2> QED BY <2>6
<1>17. Full(new)
  <2>1. ASSUME NEW k \in DOMAIN new PROVE DOMAIN new[k] # {}
    <3>1. PICK x \in DOMAIN tree : k = to(x)
      BY <1>5, <2>1
    <3>2. PICK n : n \in DOMAIN tree[x]
      BY Zenon, <1>6 DEF Full
    <3> QED BY Zenon, <1>12, <3>1, <3>2
  <2>2. ASSUME NEW k \in DOMAIN new, NEW n \in DOMAIN new[k] PROVE DOMAIN new[k][n] # {}
    <3>1. PICK x \in DOMAIN tree : k = to(x)
      BY <1>5, <2>2
    <3>2. PICK y \in DOMAIN tree[x] : n = to(y)
      BY <1>11, <2>2, <3>1
    <3>3. PICK p : p \in DOMAIN tree[x][y]
      BY Zenon, <1>6 DEF Full
    <3> QED BY Zenon, <1>13, <3>1, <3>2, <3>3
  <2> QED BY Zenon, <2>1, <2>2 DEF Full
<1>18. \A j : j \in SeriesIds(new) <=> \E i \in SeriesIds(tree) : j = MoveId(d, e, i)
  BY Zenon, <1>15, <1>16
<1>19. \A i \in SeriesIds(tree) : At(new, MoveId(d, e, i)) = At(tree, i)
  BY Zenon, <1>15
<1> HIDE DEF d, tree
<1> QED BY Zenon, <1>17, <1>18, <1>19 DEF new, d, tree

\* The dictionary of a walk has the strings of the series that were met, and no others.
LEMMA CompactDict ==
  ASSUME NEW state, StateOK(state), NEW walk \in Walks(state.keys)
  PROVE  LET e == InternAll(<<>>, StringsOf(state, walk))
         IN  /\ e \in Dicts /\ HasAll(state, e)
             /\ \A x \in 1..Len(e) : \E i \in SeriesIds(state.keys) : \E y \in IdsIn(state, i) : x = Move(state.dict, e, y)
<1> DEFINE d == state.dict
           met == StringsOf(state, walk)
           none == <<>>
           e == InternAll(none, met)
<1>1. walk \in SetToSeqs(SeriesIds(state.keys))
  BY DEF Walks
<1>2. /\ met \in Seq(Strings)
      /\ \A s : s \in Range(met) <=> \E i \in SeriesIds(state.keys) : \E x \in IdsIn(state, i) : s = Lookup(d, x)
  BY <1>1, MetStrings
<1>3. none \in Dicts /\ Range(none) = {}
  BY EmptyDict
<1> HIDE DEF met, none
<1>4. Extends(none, e) /\ Range(e) = Range(none) \cup (Range(met) \ {NoString})
  BY <1>2, <1>3, InternAllIs
<1> HIDE DEF e
<1>5. e \in Dicts
  BY <1>4 DEF Extends
<1>6. HasAll(state, e)
  <2>1. ASSUME NEW i \in SeriesIds(state.keys), NEW x \in IdsIn(state, i) PROVE Knows(e, Lookup(d, x))
    <3>1. Lookup(d, x) \in Range(met)
      BY Zenon, <1>2, <2>1
    <3> QED BY Zenon, <1>4, <3>1 DEF Knows
  <2> QED BY <2>1 DEF HasAll
<1>7. ASSUME NEW x \in 1..Len(e)
      PROVE  \E i \in SeriesIds(state.keys) : \E y \in IdsIn(state, i) : x = Move(d, e, y)
  <2>1. e \in Seq(Texts) /\ x \in DOMAIN e /\ Lookup(e, x) = e[x] /\ e[x] \in Range(e)
    BY <1>5, <1>7 DEF Dicts, Lookup, Range
  <2>2. x \in 0..Len(e)
    <3> DEFINE len == Len(e)
    <3>1. len \in Nat /\ x \in 1..len
      BY <1>5 DEF Dicts
    <3> HIDE DEF len
    <3>2. x \in 0..len
      BY <3>1
    <3> QED BY <3>2 DEF len
  <2>3. Id(e, e[x]) = x
    BY <1>5, <2>1, <2>2, LookupIs
  <2>4. e[x] \in Range(met)
    BY <1>3, <1>4, <2>1
  <2>5. PICK i \in SeriesIds(state.keys) : \E y \in IdsIn(state, i) : e[x] = Lookup(d, y)
    BY Zenon, <1>2, <2>4
  <2>6. PICK y \in IdsIn(state, i) : e[x] = Lookup(d, y)
    BY Zenon, <2>5
  <2>7. x = Move(d, e, y)
    BY Zenon, <2>3, <2>6 DEF Move
  <2> QED BY Zenon, <2>7
<1> QED BY Zenon, <1>5, <1>6, <1>7 DEF e, d, met, none

LEMMA MovedDescsAre ==
  ASSUME NEW state, StateOK(state), NEW e \in Dicts, HasAll(state, e)
  PROVE  LET d == state.dict
             new == MovedDescs(d, e, state.keys, state.descs)
         IN  /\ \A i \in SeriesIds(state.keys) :
                  Move(d, e, i[2]) \in DOMAIN new /\ new[Move(d, e, i[2])] = Move(d, e, DescId(state, i[2]))
             /\ \A m \in DOMAIN new : \E i \in SeriesIds(state.keys) : m = Move(d, e, i[2])
<1> DEFINE d == state.dict
           tree == state.keys
           to(x) == Move(d, e, x)
           from(x) == Move(e, d, x)
           new == MovedDescs(d, e, tree, state.descs)
<1>1. new = [n \in {to(n) : n \in MetricsOf(tree)} |->
               to(IF from(n) \in DOMAIN state.descs THEN state.descs[from(n)] ELSE 0)]
  BY Zenon DEF MovedDescs
<1>2. new = [n \in {to(n) : n \in MetricsOf(tree)} |-> to(DescId(state, from(n)))]
  BY Zenon, <1>1 DEF DescId
<1>3. \A i \in SeriesIds(tree) : from(to(i[2])) = i[2]
  BY IdMoves
<1>4. \A i \in SeriesIds(tree) : i[2] \in MetricsOf(tree)
  BY IdsOfTree DEF MetricsOf
<1>5. \A n \in MetricsOf(tree) : \E i \in SeriesIds(tree) : i[2] = n
  <2> TAKE n \in MetricsOf(tree)
  <2>1. PICK k \in DOMAIN tree : n \in DOMAIN tree[k]
    BY DEF MetricsOf
  <2>2. \E i \in SeriesIds(tree) : i[1] = k /\ i[2] = n
    BY <2>1, BranchesHaveSeries DEF StateOK
  <2> QED BY Zenon, <2>2
<1> HIDE DEF new, to, from
<1>6. \A m : m \in DOMAIN new <=> \E n \in MetricsOf(tree) : m = to(n)
  BY <1>2
<1>7. ASSUME NEW i \in SeriesIds(tree) PROVE to(i[2]) \in DOMAIN new /\ new[to(i[2])] = to(DescId(state, i[2]))
  <2>1. to(i[2]) \in DOMAIN new
    BY Zenon, <1>4, <1>6
  <2>2. new[to(i[2])] = to(DescId(state, from(to(i[2]))))
    BY Zenon, <1>2, <2>1
  <2> QED BY Zenon, <1>3, <2>1, <2>2
<1>8. ASSUME NEW m \in DOMAIN new PROVE \E i \in SeriesIds(tree) : m = to(i[2])
  BY Zenon, <1>5, <1>6
<1> QED BY Zenon, <1>7, <1>8 DEF new, to, d, tree

\* Another dictionary changes nothing of what the store says.
LEMMA EncodedOK ==
  ASSUME NEW state, StateOK(state), NEW e \in Dicts, HasAll(state, e)
  PROVE  LET new == Encoded(state, e)
         IN  /\ StateOK(new) /\ StatePoints(new) = StatePoints(state)
             /\ \A i \in SeriesIds(state.keys) :
                  LET u == Lookup(state.dict, i[2])
                  IN  DescIn(new.dict, new.descs, u) = DescIn(state.dict, state.descs, u)
<1> DEFINE d == state.dict
           tree == state.keys
           ids == SeriesIds(tree)
           to(i) == MoveId(d, e, i)
           new == Encoded(state, e)
           moved == MovedTree(d, e, tree)
           texts == MovedDescs(d, e, tree, state.descs)
<1>1. new.dict = e /\ new.keys = moved /\ new.descs = texts
  <2>1. new = [dict |-> e, keys |-> moved, descs |-> texts]
    BY Zenon, EncodedIs
  <2> HIDE DEF new, moved, texts
  <2> QED BY <2>1
<1>2. d \in Dicts /\ IsFiniteSet(ids) /\ \A i \in ids : IdOK(d, i) /\ SeriesOK(At(tree, i)) /\ At(tree, i).values # <<>>
  BY DEF StateOK, SeriesAllOK
<1>3. /\ \A j : j \in SeriesIds(moved) <=> \E i \in ids : j = to(i)
      /\ \A i \in ids : At(moved, to(i)) = At(tree, i)
      /\ Full(moved)
  BY MovedTreeIs
<1>4. \A i \in ids : IdOK(e, to(i)) /\ MeantIn(e, to(i)) = MeantIn(d, i)
  BY IdMoves
<1>5. /\ \A i \in ids : Move(d, e, i[2]) \in DOMAIN texts /\ texts[Move(d, e, i[2])] = Move(d, e, DescId(state, i[2]))
      /\ \A m \in DOMAIN texts : \E i \in ids : m = Move(d, e, i[2])
  BY MovedDescsAre
<1>6. \A i \in ids : \A x \in IdsIn(state, i) : Move(d, e, x) \in 0..Len(e) /\ Lookup(e, Move(d, e, x)) = Lookup(d, x)
  BY IdMoves
<1>7. \A i \in ids : i[2] \in IdsIn(state, i) /\ DescId(state, i[2]) \in IdsIn(state, i)
  BY DEF IdsIn
<1> HIDE DEF moved, texts, to, ids, new
<1>8. IsFiniteSet(SeriesIds(moved))
  <2> DEFINE f == [i \in ids |-> to(i)]
             T == SeriesIds(moved)
  <2>1. f \in [ids -> T] /\ \A j \in T : \E i \in ids : f[i] = j
    BY <1>3
  <2> HIDE DEF f, T
  <2>2. f \in Surjection(ids, T)
    BY <2>1 DEF Surjection
  <2> QED BY <1>2, <2>2, FS_Surjection DEF T
<1>9. SeriesAllOK(e, moved)
  <2>1. ASSUME NEW j \in SeriesIds(moved) PROVE IdOK(e, j) /\ SeriesOK(At(moved, j)) /\ At(moved, j).values # <<>>
    <3>1. PICK i \in ids : j = to(i)
      BY <1>3
    <3>2. At(moved, j) = At(tree, i)
      BY <1>3, <3>1
    <3> QED BY <1>2, <1>4, <3>1, <3>2
  <2> QED BY <1>8, <2>1 DEF SeriesAllOK
<1>10. DescsOK(e, texts)
  <2>1. ASSUME NEW m \in DOMAIN texts PROVE texts[m] \in 0..Len(e)
    <3>1. PICK i \in ids : m = Move(d, e, i[2])
      BY <1>5
    <3>2. texts[m] = Move(d, e, DescId(state, i[2]))
      BY <1>5, <3>1
    <3> QED BY Zenon, <1>6, <1>7, <3>2
  <2> QED BY <2>1 DEF DescsOK
<1>11. StateOK(new)
  BY <1>1, <1>3, <1>9, <1>10 DEF StateOK
<1>12. PointsIn(e, moved) = PointsIn(d, tree)
  <2>1. ASSUME NEW y PROVE y \in PointsIn(e, moved) <=> y \in PointsIn(d, tree)
    <3>1. y \in PointsIn(e, moved) <=> \E j \in SeriesIds(moved) : \E x \in PointsOf(At(moved, j)) : y = <<MeantIn(e, j), x[1], x[2]>>
      BY PointsAre
    <3>2. y \in PointsIn(d, tree) <=> \E i \in ids : \E x \in PointsOf(At(tree, i)) : y = <<MeantIn(d, i), x[1], x[2]>>
      BY PointsAre DEF ids
    <3>3. ASSUME NEW j \in SeriesIds(moved), NEW x \in PointsOf(At(moved, j)), y = <<MeantIn(e, j), x[1], x[2]>>
          PROVE  \E i \in ids : \E z \in PointsOf(At(tree, i)) : y = <<MeantIn(d, i), z[1], z[2]>>
      <4>1. PICK i \in ids : j = to(i)
        BY <1>3
      <4>2. At(moved, j) = At(tree, i) /\ MeantIn(e, j) = MeantIn(d, i)
        BY <1>3, <1>4, <4>1
      <4> QED BY Zenon, <3>3, <4>2
    <3>4. ASSUME NEW i \in ids, NEW z \in PointsOf(At(tree, i)), y = <<MeantIn(d, i), z[1], z[2]>>
          PROVE  \E j \in SeriesIds(moved) : \E x \in PointsOf(At(moved, j)) : y = <<MeantIn(e, j), x[1], x[2]>>
      <4>1. to(i) \in SeriesIds(moved) /\ At(moved, to(i)) = At(tree, i) /\ MeantIn(e, to(i)) = MeantIn(d, i)
        BY Zenon, <1>3, <1>4
      <4> QED BY Zenon, <3>4, <4>1
    <3> QED BY Zenon, <3>1, <3>2, <3>3, <3>4
  <2> QED BY <2>1
<1>13. ASSUME NEW i \in ids
       PROVE  DescIn(e, texts, Lookup(d, i[2])) = DescIn(d, state.descs, Lookup(d, i[2]))
  <2>1. i[2] \in 0..Len(d)
    BY <1>2 DEF IdOK
  <2>2. Id(d, Lookup(d, i[2])) = i[2]
    BY <1>2, <2>1, LookupIs
  <2>3. Id(e, Lookup(d, i[2])) = Move(d, e, i[2])
    BY DEF Move
  <2>4. DescIn(d, state.descs, Lookup(d, i[2])) = Lookup(d, DescId(state, i[2]))
    BY Zenon, <2>2 DEF DescIn, DescId
  <2>5. DescIn(e, texts, Lookup(d, i[2])) = Lookup(e, Move(d, e, DescId(state, i[2])))
    BY Zenon, <1>5, <2>3 DEF DescIn
  <2> QED BY Zenon, <1>6, <1>7, <2>4, <2>5
<1>14. StatePoints(new) = StatePoints(state)
  BY Zenon, <1>1, <1>12 DEF StatePoints
<1>15. \A i \in ids : DescIn(new.dict, new.descs, Lookup(d, i[2])) = DescIn(d, state.descs, Lookup(d, i[2]))
  BY Zenon, <1>1, <1>13
<1> QED BY Zenon, <1>11, <1>14, <1>15 DEF new, d, ids, tree

\* The ids in use.
LabelIds(p) == UNION {{p[q][1], p[q][2]} : q \in DOMAIN p}

UsedIn(state) ==
  ((UNION {{i[1], i[2]} \cup LabelIds(i[3]) : i \in SeriesIds(state.keys)}) \cup Range(state.descs)) \ {0}

LEMMA UsedAre ==
  ASSUME NEW state
  PROVE  \A x : x \in UsedIn(state) <=>
           /\ x # 0
           /\ \/ \E i \in SeriesIds(state.keys) :
                   x = i[1] \/ x = i[2] \/ \E q \in DOMAIN i[3] : x = i[3][q][1] \/ x = i[3][q][2]
              \/ \E m \in DOMAIN state.descs : x = state.descs[m]
<1> DEFINE labels(p) == LabelIds(p)
           all == UNION {{i[1], i[2]} \cup labels(i[3]) : i \in SeriesIds(state.keys)}
<1>1. UsedIn(state) = (all \cup Range(state.descs)) \ {0}
  BY DEF UsedIn
<1>2. \A p, x : x \in labels(p) <=> \E q \in DOMAIN p : x = p[q][1] \/ x = p[q][2]
  BY DEF LabelIds
<1> HIDE DEF labels
<1>3. \A x : x \in all <=> \E i \in SeriesIds(state.keys) : x = i[1] \/ x = i[2] \/ x \in labels(i[3])
  OBVIOUS
<1> HIDE DEF all
<1>4. \A x : x \in Range(state.descs) <=> \E m \in DOMAIN state.descs : x = state.descs[m]
  BY DEF Range
<1>5. \A x : x \in all <=> \E i \in SeriesIds(state.keys) :
                x = i[1] \/ x = i[2] \/ \E q \in DOMAIN i[3] : x = i[3][q][1] \/ x = i[3][q][2]
  <2> TAKE x
  <2>1. \A i : x \in labels(i[3]) <=> \E q \in DOMAIN i[3] : x = i[3][q][1] \/ x = i[3][q][2]
    BY Zenon, <1>2
  <2> QED BY <1>3, <2>1
<1>6. \A x : x \in UsedIn(state) <=> x # 0 /\ (x \in all \/ x \in Range(state.descs))
  BY Zenon, <1>1
<1> HIDE DEF UsedIn
<1> QED BY Zenon, <1>4, <1>5, <1>6

\* With the dictionary of a walk, all ids are in use.
LEMMA EncodedUses ==
  ASSUME NEW state, StateOK(state), NEW e \in Dicts, HasAll(state, e),
         \A x \in 1..Len(e) : \E i \in SeriesIds(state.keys) : \E y \in IdsIn(state, i) : x = Move(state.dict, e, y)
  PROVE  UsedIn(Encoded(state, e)) = DOMAIN Encoded(state, e).dict
<1> DEFINE d == state.dict
           tree == state.keys
           ids == SeriesIds(tree)
           to(i) == MoveId(d, e, i)
           new == Encoded(state, e)
           moved == MovedTree(d, e, tree)
           texts == MovedDescs(d, e, tree, state.descs)
<1>1. new.dict = e /\ new.keys = moved /\ new.descs = texts
  <2>1. new = [dict |-> e, keys |-> moved, descs |-> texts]
    BY Zenon, EncodedIs
  <2> HIDE DEF new, moved, texts
  <2> QED BY <2>1
<1>2. \A j : j \in SeriesIds(moved) <=> \E i \in ids : j = to(i)
  BY MovedTreeIs
<1>3. /\ \A i \in ids : Move(d, e, i[2]) \in DOMAIN texts /\ texts[Move(d, e, i[2])] = Move(d, e, DescId(state, i[2]))
      /\ \A m \in DOMAIN texts : \E i \in ids : m = Move(d, e, i[2])
  BY MovedDescsAre
<1>4. \A i \in ids : \A x \in IdsIn(state, i) : Move(d, e, x) \in 0..Len(e)
  BY IdMoves
<1>5. \A i : \A x : x \in IdsIn(state, i) <=>
        x = i[1] \/ x = i[2] \/ x = DescId(state, i[2]) \/ \E q \in DOMAIN i[3] : x = i[3][q][1] \/ x = i[3][q][2]
  BY DEF IdsIn
<1>6. \A i : /\ to(i)[1] = Move(d, e, i[1]) /\ to(i)[2] = Move(d, e, i[2]) /\ to(i)[3] = MovePostings(d, e, i[3])
             /\ DOMAIN MovePostings(d, e, i[3]) = DOMAIN i[3]
             /\ \A q \in DOMAIN i[3] : /\ MovePostings(d, e, i[3])[q][1] = Move(d, e, i[3][q][1])
                                       /\ MovePostings(d, e, i[3])[q][2] = Move(d, e, i[3][q][2])
  BY DEF MoveId, MovePostings
<1>7. DOMAIN e = 1..Len(e) /\ Len(e) \in Nat
  BY DEF Dicts
<1>8. \A x : x \in 1..Len(e) <=> x \in 0..Len(e) /\ x # 0
  <2> DEFINE len == Len(e)
  <2>1. len \in Nat
    BY <1>7
  <2> HIDE DEF len
  <2>2. \A x : x \in 1..len <=> x \in 0..len /\ x # 0
    BY <2>1
  <2> QED BY <2>2 DEF len
<1>9. \A x : x \in UsedIn(new) <=>
           /\ x # 0
           /\ \/ \E j \in SeriesIds(moved) :
                   x = j[1] \/ x = j[2] \/ \E q \in DOMAIN j[3] : x = j[3][q][1] \/ x = j[3][q][2]
              \/ \E m \in DOMAIN texts : x = texts[m]
  <2> HIDE DEF new, moved, texts
  <2> QED BY Zenon, <1>1, UsedAre
<1> HIDE DEF new, moved, texts, to, ids
<1>10. ASSUME NEW x, x \in UsedIn(new) PROVE x \in 1..Len(e)
  <2>1. x # 0
    BY Zenon, <1>9, <1>10
  <2>2. ASSUME NEW i \in ids, NEW y \in IdsIn(state, i), x = Move(d, e, y) PROVE x \in 1..Len(e)
    BY Zenon, <1>4, <1>8, <2>1, <2>2
  <2>3. ASSUME NEW j \in SeriesIds(moved),
               x = j[1] \/ x = j[2] \/ \E q \in DOMAIN j[3] : x = j[3][q][1] \/ x = j[3][q][2]
        PROVE  x \in 1..Len(e)
    <3>1. PICK i \in ids : j = to(i)
      BY Zenon, <1>2
    <3>2. CASE x = j[1]
      <4>1. x = Move(d, e, i[1]) /\ i[1] \in IdsIn(state, i)
        BY Zenon, <1>5, <1>6, <3>1, <3>2
      <4> QED BY Zenon, <2>2, <4>1
    <3>3. CASE x = j[2]
      <4>1. x = Move(d, e, i[2]) /\ i[2] \in IdsIn(state, i)
        BY Zenon, <1>5, <1>6, <3>1, <3>3
      <4> QED BY Zenon, <2>2, <4>1
    <3>4. CASE \E q \in DOMAIN j[3] : x = j[3][q][1] \/ x = j[3][q][2]
      <4>1. PICK q \in DOMAIN j[3] : x = j[3][q][1] \/ x = j[3][q][2]
        BY Zenon, <3>4
      <4>5. j[3] = MovePostings(d, e, i[3]) /\ DOMAIN j[3] = DOMAIN i[3]
        BY Zenon, <1>6, <3>1
      <4>6. q \in DOMAIN i[3]
        BY Zenon, <4>5
      <4>7. /\ MovePostings(d, e, i[3])[q][1] = Move(d, e, i[3][q][1])
            /\ MovePostings(d, e, i[3])[q][2] = Move(d, e, i[3][q][2])
        BY Zenon, <1>6, <4>6
      <4>2. q \in DOMAIN i[3] /\ j[3][q][1] = Move(d, e, i[3][q][1]) /\ j[3][q][2] = Move(d, e, i[3][q][2])
        BY <4>5, <4>6, <4>7
      <4>3. i[3][q][1] \in IdsIn(state, i) /\ i[3][q][2] \in IdsIn(state, i)
        BY Zenon, <1>5, <4>2
      <4> QED BY Zenon, <2>2, <4>1, <4>2, <4>3
    <3> QED BY Zenon, <2>3, <3>2, <3>3, <3>4
  <2>4. ASSUME NEW m \in DOMAIN texts, x = texts[m] PROVE x \in 1..Len(e)
    <3>1. PICK i \in ids : m = Move(d, e, i[2])
      BY Zenon, <1>3
    <3>2. x = Move(d, e, DescId(state, i[2])) /\ DescId(state, i[2]) \in IdsIn(state, i)
      BY Zenon, <1>3, <1>5, <2>4, <3>1
    <3> QED BY Zenon, <2>2, <3>2
  <2> QED BY Zenon, <1>9, <1>10, <2>3, <2>4
<1>11. ASSUME NEW x \in 1..Len(e) PROVE x \in UsedIn(new)
  <2>1. PICK i \in ids : \E y \in IdsIn(state, i) : x = Move(d, e, y)
    BY Zenon DEF ids
  <2>2. PICK y \in IdsIn(state, i) : x = Move(d, e, y)
    BY Zenon, <2>1
  <2> DEFINE j == to(i)
  <2>3. j \in SeriesIds(moved)
    BY Zenon, <1>2
  <2>4. /\ j[1] = Move(d, e, i[1]) /\ j[2] = Move(d, e, i[2])
        /\ \A q \in DOMAIN i[3] : q \in DOMAIN j[3] /\ j[3][q][1] = Move(d, e, i[3][q][1]) /\ j[3][q][2] = Move(d, e, i[3][q][2])
    <3>1. j[1] = Move(d, e, i[1]) /\ j[2] = Move(d, e, i[2])
          /\ j[3] = MovePostings(d, e, i[3]) /\ DOMAIN MovePostings(d, e, i[3]) = DOMAIN i[3]
      BY Zenon, <1>6
    <3> HIDE DEF j
    <3>2. ASSUME NEW q \in DOMAIN i[3]
          PROVE  q \in DOMAIN j[3] /\ j[3][q][1] = Move(d, e, i[3][q][1]) /\ j[3][q][2] = Move(d, e, i[3][q][2])
      BY Zenon, <1>6, <3>1
    <3> QED BY Zenon, <3>1, <3>2
  <2> HIDE DEF j
  <2>5. x # 0
    BY Zenon, <1>8
  <2>6. y = i[1] \/ y = i[2] \/ y = DescId(state, i[2]) \/ \E q \in DOMAIN i[3] : y = i[3][q][1] \/ y = i[3][q][2]
    BY <1>5
  <2>7. CASE y = i[1] \/ y = i[2]
    <3>1. x = j[1] \/ x = j[2]
      BY Zenon, <2>2, <2>4, <2>7
    <3> QED BY Zenon, <1>9, <2>3, <2>5, <3>1
  <2>8. CASE y = DescId(state, i[2])
    <3>1. Move(d, e, i[2]) \in DOMAIN texts /\ x = texts[Move(d, e, i[2])]
      BY Zenon, <1>3, <2>2, <2>8
    <3> QED BY Zenon, <1>9, <2>5, <3>1
  <2>9. CASE \E q \in DOMAIN i[3] : y = i[3][q][1] \/ y = i[3][q][2]
    <3>1. PICK q \in DOMAIN i[3] : y = i[3][q][1] \/ y = i[3][q][2]
      BY Zenon, <2>9
    <3>2. q \in DOMAIN j[3] /\ (x = j[3][q][1] \/ x = j[3][q][2])
      BY Zenon, <2>2, <2>4, <3>1
    <3> QED BY Zenon, <1>9, <2>3, <2>5, <3>2
  <2> QED BY Zenon, <2>6, <2>7, <2>8, <2>9
<1>12. UsedIn(new) = 1..Len(e)
  <2>1. \A x : x \in UsedIn(new) <=> x \in 1..Len(e)
    BY Zenon, <1>10, <1>11
  <2> DEFINE S == 1..Len(e)
  <2> HIDE DEF S
  <2> QED BY Zenon, <2>1
<1> QED BY Zenon, <1>1, <1>7, <1>12 DEF new

\* What compaction makes of a store.
LEMMA CompactedIs ==
  ASSUME NEW state, StateOK(state), NEW new \in Compacted(state)
  PROVE  /\ StateOK(new) /\ StatePoints(new) = StatePoints(state)
         /\ \A i \in SeriesIds(state.keys) :
              LET u == Lookup(state.dict, i[2])
              IN  DescIn(new.dict, new.descs, u) = DescIn(state.dict, state.descs, u)
         /\ UsedIn(new) = DOMAIN new.dict
<1>1. PICK walk \in Walks(state.keys) : new = Encoded(state, InternAll(<<>>, StringsOf(state, walk)))
  BY Zenon DEF Compacted
<1> DEFINE e == InternAll(<<>>, StringsOf(state, walk))
<1>2. /\ e \in Dicts /\ HasAll(state, e)
      /\ \A x \in 1..Len(e) : \E i \in SeriesIds(state.keys) : \E y \in IdsIn(state, i) : x = Move(state.dict, e, y)
  BY CompactDict
<1>3. new = Encoded(state, e)
  BY <1>1
<1> HIDE DEF e
<1>4. /\ StateOK(Encoded(state, e)) /\ StatePoints(Encoded(state, e)) = StatePoints(state)
      /\ \A i \in SeriesIds(state.keys) :
           DescIn(Encoded(state, e).dict, Encoded(state, e).descs, Lookup(state.dict, i[2]))
             = DescIn(state.dict, state.descs, Lookup(state.dict, i[2]))
  <2> DEFINE m == Encoded(state, e)
  <2>1. LET n == Encoded(state, e)
        IN  /\ StateOK(n) /\ StatePoints(n) = StatePoints(state)
            /\ \A i \in SeriesIds(state.keys) :
                 LET u == Lookup(state.dict, i[2])
                 IN  DescIn(n.dict, n.descs, u) = DescIn(state.dict, state.descs, u)
    BY <1>2, EncodedOK
  <2> QED BY Zenon, <2>1
<1>5. UsedIn(Encoded(state, e)) = DOMAIN Encoded(state, e).dict
  BY <1>2, EncodedUses
<1> QED BY Zenon, <1>3, <1>4, <1>5

-----------------------------------------------------------------------------
(* The store after an operation.                                            *)

\* The metrics that are kept are those with points.
LEMMA PointNames ==
  ASSUME NEW state, StateOK(state)
  PROVE  \A u : (\E y \in StatePoints(state) : u = y[1][2]) <=> \E i \in SeriesIds(state.keys) : u = Lookup(state.dict, i[2])
<1> DEFINE d == state.dict
           tree == state.keys
<1>1. \A y : y \in StatePoints(state) <=>
        \E i \in SeriesIds(tree) : \E x \in PointsOf(At(tree, i)) : y = <<MeantIn(d, i), x[1], x[2]>>
  BY PointsAre DEF StatePoints
<1>2. \A i : MeantIn(d, i)[2] = Lookup(d, i[2])
  BY DEF MeantIn
<1>3. \A i \in SeriesIds(tree) : \E x : x \in PointsOf(At(tree, i))
  <2> TAKE i \in SeriesIds(tree)
  <2>1. SeriesOK(At(tree, i)) /\ At(tree, i).values # <<>>
    BY DEF StateOK, SeriesAllOK
  <2> DEFINE s == At(tree, i)
             n == Len(s.timestamps)
  <2> HIDE DEF s
  <2>2. <<s.timestamps[n], Last(s.values)>> \in PointsOf(s)
    BY <2>1, LastIsNewest DEF s
  <2> QED BY <2>2 DEF s
<1>4. ASSUME NEW y \in StatePoints(state) PROVE \E i \in SeriesIds(tree) : y[1][2] = Lookup(d, i[2])
  <2>1. PICK i \in SeriesIds(tree) : \E x \in PointsOf(At(tree, i)) : y = <<MeantIn(d, i), x[1], x[2]>>
    BY Zenon, <1>1
  <2>2. PICK x \in PointsOf(At(tree, i)) : y = <<MeantIn(d, i), x[1], x[2]>>
    BY Zenon, <2>1
  <2>3. y[1] = MeantIn(d, i)
    BY <2>2
  <2> QED BY <1>2, <2>3
<1>5. ASSUME NEW i \in SeriesIds(tree) PROVE \E y \in StatePoints(state) : Lookup(d, i[2]) = y[1][2]
  <2>1. PICK x : x \in PointsOf(At(tree, i))
    BY Zenon, <1>3
  <2> DEFINE y == <<MeantIn(d, i), x[1], x[2]>>
  <2>2. y \in StatePoints(state)
    BY Zenon, <1>1, <2>1
  <2>3. y[1][2] = Lookup(d, i[2])
    BY <1>2
  <2> HIDE DEF y
  <2> QED BY <2>2, <2>3
<1> HIDE DEF d, tree
<1> QED BY Zenon, <1>4, <1>5 DEF d, tree

\* What is left of a state, from the second cutoff on.
Left(state, new, cutoff) ==
  /\ StateOK(new) /\ StatePoints(new) = {y \in StatePoints(state) : y[2] >= cutoff}
  /\ \A y \in StatePoints(new) : DescIn(new.dict, new.descs, y[1][2]) = DescIn(state.dict, state.descs, y[1][2])

LEMMA LeftIs ==
  ASSUME NEW state, StateOK(state), NEW cutoff \in Int, NEW new
  PROVE  LET trimmed == [dict |-> state.dict, keys |-> Trimmed(state.keys, cutoff), descs |-> state.descs]
         IN  /\ new.dict = trimmed.dict /\ new.keys = trimmed.keys /\ new.descs = trimmed.descs
                  => Left(state, new, cutoff)
             /\ \A next \in Compacted(trimmed) :
                  new.dict = next.dict /\ new.keys = next.keys /\ new.descs = next.descs
                    => Left(state, new, cutoff) /\ UsedIn(new) = DOMAIN new.dict
<1> DEFINE tree == Trimmed(state.keys, cutoff)
           trimmed == [dict |-> state.dict, keys |-> tree, descs |-> state.descs]
<1>1. /\ SeriesAllOK(state.dict, tree) /\ Full(tree)
      /\ PointsIn(state.dict, tree) = {y \in StatePoints(state) : y[2] >= cutoff}
  BY TrimmedOK DEF StateOK, StatePoints
<1>2. trimmed.dict = state.dict /\ trimmed.keys = tree /\ trimmed.descs = state.descs
  <2> HIDE DEF tree
  <2> QED OBVIOUS
<1> HIDE DEF trimmed, tree
<1>3. state.dict \in Dicts /\ DescsOK(state.dict, state.descs)
  BY DEF StateOK
<1>4. StateOK(trimmed) /\ StatePoints(trimmed) = {y \in StatePoints(state) : y[2] >= cutoff}
  BY <1>1, <1>2, <1>3 DEF StateOK, StatePoints
<1>5. ASSUME new.dict = trimmed.dict, new.keys = trimmed.keys, new.descs = trimmed.descs
      PROVE  Left(state, new, cutoff)
  <2>1. StateOK(new) /\ StatePoints(new) = StatePoints(trimmed)
    BY <1>4, <1>5 DEF StateOK, StatePoints
  <2>2. new.dict = state.dict /\ new.descs = state.descs
    BY <1>2, <1>5
  <2> QED BY <1>4, <2>1, <2>2 DEF Left
<1>6. ASSUME NEW next \in Compacted(trimmed), new.dict = next.dict, new.keys = next.keys, new.descs = next.descs
      PROVE  Left(state, new, cutoff) /\ UsedIn(new) = DOMAIN new.dict
  <2>1. /\ StateOK(next) /\ StatePoints(next) = StatePoints(trimmed)
        /\ \A i \in SeriesIds(trimmed.keys) :
             DescIn(next.dict, next.descs, Lookup(trimmed.dict, i[2])) = DescIn(trimmed.dict, trimmed.descs, Lookup(trimmed.dict, i[2]))
        /\ UsedIn(next) = DOMAIN next.dict
    BY <1>4, CompactedIs
  <2>2. StateOK(new) /\ StatePoints(new) = StatePoints(next)
    BY <1>6, <2>1 DEF StateOK, StatePoints
  <2>3. UsedIn(new) = UsedIn(next)
    BY Zenon, <1>6 DEF UsedIn
  <2>4. ASSUME NEW y \in StatePoints(new)
        PROVE  DescIn(new.dict, new.descs, y[1][2]) = DescIn(state.dict, state.descs, y[1][2])
    <3>1. y \in StatePoints(trimmed)
      BY <2>1, <2>2
    <3>2. PICK i \in SeriesIds(trimmed.keys) : y[1][2] = Lookup(trimmed.dict, i[2])
      BY <1>4, <3>1, PointNames
    <3> QED BY Zenon, <1>2, <1>6, <2>1, <3>2
  <2>5. Left(state, new, cutoff)
    BY <1>4, <2>1, <2>2, <2>4 DEF Left
  <2> QED BY Zenon, <1>6, <2>1, <2>3, <2>5
<1> QED BY Zenon, <1>5, <1>6 DEF trimmed, tree

-----------------------------------------------------------------------------
(* The operations.                                                          *)

StoreNow == [dict |-> dict, keys |-> keys, descs |-> descs]

FiniteNames(call) == {call.samples[i].name : i \in {i \in DOMAIN call.samples : call.samples[i].value # NaN}}

LEMMA NamesAreFinite ==
  ASSUME NEW call, CallOK(call)
  PROVE  /\ IsFiniteSet(FiniteNames(call))
         /\ \A name : name \in FiniteNames(call) <=> Finites(call, name) # {}
         /\ \A name \in FiniteNames(call) : name \in Texts
<1> DEFINE S == {i \in DOMAIN call.samples : call.samples[i].value # NaN}
           f == [i \in S |-> call.samples[i].name]
           T == FiniteNames(call)
<1>1. Len(call.samples) \in Nat /\ DOMAIN call.samples = 1..Len(call.samples)
      /\ \A i \in DOMAIN call.samples : SampleOK(call.samples[i])
  BY DEF CallOK
<1>2. IsFiniteSet(DOMAIN call.samples)
  <2> DEFINE n == Len(call.samples)
  <2>1. n \in Nat
    BY <1>1
  <2> HIDE DEF n
  <2>2. 1 \in Int /\ n \in Int
    BY <2>1
  <2>3. IsFiniteSet(1..n)
    BY <2>2, FS_Interval
  <2> QED BY <1>1, <2>3 DEF n
<1>3. S \subseteq DOMAIN call.samples
  OBVIOUS
<1>4. T = {call.samples[i].name : i \in S}
  BY Zenon DEF FiniteNames
<1>5. f \in [S -> T] /\ \A t \in T : \E i \in S : f[i] = t
  BY <1>4
<1>6. IsFiniteSet(T)
  <2>1. IsFiniteSet(S)
    BY <1>2, <1>3, FS_Subset
  <2> HIDE DEF S, T, f
  <2>2. f \in Surjection(S, T)
    BY <1>5 DEF Surjection
  <2> QED BY <2>1, <2>2, FS_Surjection
<1>7. \A name : name \in T <=> Finites(call, name) # {}
  BY <1>4 DEF Finites
<1>8. \A name \in T : name \in Texts
  BY <1>1, <1>4 DEF SampleOK
<1> QED BY <1>6, <1>7, <1>8

\* What a call makes of the store.
Ingested(old, new, call) ==
  \E order, first, added :
    /\ order \in SetToSeqs(FiniteNames(call))
    /\ first.dict = Intern(old.dict, call.key) /\ first.keys = old.keys /\ first.descs = old.descs
    /\ MetricsMade(first, added, call, order) /\ Left(added, new, call.at - Retention)

LEMMA CutoffIs ==
  ASSUME NEW at \in Times
  PROVE  at - Retention \in Int
<1>1. Retention \in Int
  BY StoreAssumption
<1>2. at \in Int
  BY ExposedAssumption
<1> QED BY <1>1, <1>2

LEMMA FirstIs ==
  ASSUME NEW state, StateOK(state), NEW call, CallOK(call)
  PROVE  LET first == [dict |-> Intern(state.dict, call.key), keys |-> state.keys, descs |-> state.descs, removed |-> FALSE]
         IN  StateOK(first) /\ Knows(first.dict, call.key)
<1> DEFINE d == Intern(state.dict, call.key)
           first == [dict |-> d, keys |-> state.keys, descs |-> state.descs, removed |-> FALSE]
<1>1. first.dict = d /\ first.keys = state.keys /\ first.descs = state.descs
  <2> HIDE DEF d
  <2> QED OBVIOUS
<1> HIDE DEF first
<1>2. state.dict \in Dicts /\ call.key \in Strings
  BY DEF StateOK, CallOK, Strings
<1>3. Extends(state.dict, d) /\ Range(d) = Range(state.dict) \cup ({call.key} \ {NoString})
  BY <1>2, InternIs
<1>4. d \in Dicts /\ Knows(d, call.key)
  <2> HIDE DEF d
  <2>1. call.key = NoString \/ call.key \in Range(d)
    BY <1>3
  <2> QED BY <1>3, <2>1 DEF Extends, Knows
<1>5. SeriesAllOK(d, state.keys) /\ DescsOK(d, state.descs) /\ Full(state.keys)
  BY <1>3, PointsStay, DescsStay DEF StateOK
<1> QED BY <1>1, <1>4, <1>5 DEF StateOK, first

LEMMA IngestIs ==
  ASSUME StateOK(StoreNow), NEW call, CallOK(call), Ingest(call)
  PROVE  /\ pending' = pending \ {call}
         /\ FiniteNames(call) = {} => UNCHANGED storeVars
         /\ FiniteNames(call) # {} => Ingested(StoreNow, StoreNow', call)
         /\ lastCompact' = lastCompact
            \/ (lastCompact' = call.at /\ UsedIn(StoreNow') = DOMAIN dict')
<1> DEFINE names == FiniteNames(call)
           first == [dict |-> Intern(dict, call.key), keys |-> keys, descs |-> descs, removed |-> FALSE]
           cutoff == call.at - Retention
           Added(order) == AddMetrics(first, call, order)
           TrimmedOf(added) == [dict |-> added.dict, keys |-> Trimmed(added.keys, cutoff), descs |-> added.descs]
           now == StoreNow'
<1>1. /\ pending' = pending \ {call}
      /\ names = {} => UNCHANGED storeVars
      /\ names # {} => \E order \in SetToSeqs(names) :
           \/ (\E state \in Compacted(TrimmedOf(Added(order))) : Becomes(state)) /\ lastCompact' = call.at
           \/ Becomes(TrimmedOf(Added(order))) /\ UNCHANGED lastCompact
  <2>1. names # {} => \E order \in SetToSeqs(names) :
           LET added == AddMetrics(first, call, order)
               trimmed == [dict |-> added.dict, keys |-> Trimmed(added.keys, cutoff), descs |-> added.descs]
               removed == added.removed \/ TrimRemoves(added.keys, cutoff)
           IN  IF removed /\ (lastCompact = 0 \/ call.at - lastCompact >= CompactEvery)
               THEN (\E state \in Compacted(trimmed) : Becomes(state)) /\ lastCompact' = call.at
               ELSE Becomes(trimmed) /\ UNCHANGED lastCompact
    BY Zenon DEF Ingest, FiniteNames
  <2>2. pending' = pending \ {call} /\ (names = {} => UNCHANGED storeVars)
    BY Zenon DEF Ingest, FiniteNames
  <2> HIDE DEF names
  <2> QED BY Zenon, <2>1, <2>2
<1>2. IsFiniteSet(names) /\ (\A name : name \in names <=> Finites(call, name) # {}) /\ (\A name \in names : name \in Texts)
  BY NamesAreFinite
<1>3. now.dict = dict' /\ now.keys = keys' /\ now.descs = descs'
  BY DEF StoreNow
<1>4. StateOK(first) /\ Knows(first.dict, call.key)
  <2>1. StoreNow.dict = dict /\ StoreNow.keys = keys /\ StoreNow.descs = descs
    BY DEF StoreNow
  <2>2. StateOK([dict |-> Intern(StoreNow.dict, call.key), keys |-> StoreNow.keys, descs |-> StoreNow.descs, removed |-> FALSE])
        /\ Knows([dict |-> Intern(StoreNow.dict, call.key), keys |-> StoreNow.keys, descs |-> StoreNow.descs, removed |-> FALSE].dict, call.key)
    BY FirstIs
  <2> QED BY Zenon, <2>1, <2>2
<1>5. /\ first.dict = Intern(StoreNow.dict, call.key) /\ first.keys = StoreNow.keys /\ first.descs = StoreNow.descs
  BY DEF StoreNow
<1>6. cutoff \in Int
  BY CutoffIs DEF CallOK
<1> HIDE DEF names, first, cutoff, now
<1>7. CASE names = {}
  BY Zenon, <1>1, <1>7 DEF storeVars, names
<1>8. CASE names # {}
  <2>1. PICK order \in SetToSeqs(names) :
           \/ (\E state \in Compacted(TrimmedOf(Added(order))) : Becomes(state)) /\ lastCompact' = call.at
           \/ Becomes(TrimmedOf(Added(order))) /\ UNCHANGED lastCompact
    BY Zenon, <1>1, <1>8
  <2>2. /\ Len(order) \in Nat /\ DOMAIN order = 1..Len(order)
        /\ \A i \in 1..Len(order) : order[i] \in names
    <3> DEFINE n == Cardinality(names)
    <3>1. n \in Nat
      BY <1>2, FS_CardinalityType
    <3>2. order \in [1..n -> names]
      BY DEF SetToSeqs
    <3> HIDE DEF n
    <3> QED BY <3>1, <3>2
  <2> DEFINE added == Added(order)
  <2>3. StateOK(added) /\ MetricsMade(first, added, call, order)
    <3>1. \A i \in 1..Len(order) : order[i] \in Texts /\ Finites(call, order[i]) # {}
      BY <1>2, <2>2
    <3> QED BY <1>4, <2>2, <3>1, AddMetricsAre
  <2> HIDE DEF added
  <2>4. \/ (\E state \in Compacted(TrimmedOf(added)) : Becomes(state)) /\ lastCompact' = call.at
        \/ Becomes(TrimmedOf(added)) /\ UNCHANGED lastCompact
    BY Zenon, <2>1 DEF added
  <2>5. /\ now.dict = TrimmedOf(added).dict /\ now.keys = TrimmedOf(added).keys /\ now.descs = TrimmedOf(added).descs
             => Left(added, now, cutoff)
        /\ \A next \in Compacted(TrimmedOf(added)) :
             now.dict = next.dict /\ now.keys = next.keys /\ now.descs = next.descs
               => Left(added, now, cutoff) /\ UsedIn(now) = DOMAIN now.dict
    BY <1>6, <2>3, LeftIs
  <2>6. Left(added, now, cutoff) /\ (lastCompact' = lastCompact \/ (lastCompact' = call.at /\ UsedIn(now) = DOMAIN dict'))
    <3>1. CASE \E state \in Compacted(TrimmedOf(added)) : Becomes(state) /\ lastCompact' = call.at
      <4>1. PICK state \in Compacted(TrimmedOf(added)) : Becomes(state) /\ lastCompact' = call.at
        BY Zenon, <3>1
      <4>2. now.dict = state.dict /\ now.keys = state.keys /\ now.descs = state.descs
        BY Zenon, <1>3, <4>1 DEF Becomes
      <4> QED BY Zenon, <1>3, <2>5, <4>1, <4>2
    <3>2. CASE Becomes(TrimmedOf(added)) /\ UNCHANGED lastCompact
      <4>1. now.dict = TrimmedOf(added).dict /\ now.keys = TrimmedOf(added).keys /\ now.descs = TrimmedOf(added).descs
        BY Zenon, <1>3, <3>2 DEF Becomes
      <4> QED BY Zenon, <2>5, <3>2, <4>1
    <3> QED BY Zenon, <2>4, <3>1, <3>2
  <2>7. Ingested(StoreNow, now, call)
    <3>1. order \in SetToSeqs(FiniteNames(call)) /\ Left(added, now, call.at - Retention)
      BY <2>1, <2>6 DEF names, cutoff
    <3> QED BY Zenon, <1>5, <2>3, <3>1 DEF Ingested
  <2> QED BY Zenon, <1>1, <1>8, <2>6, <2>7 DEF now, names
<1> QED BY Zenon, <1>7, <1>8

LEMMA QueryIs ==
  ASSUME StateOK(StoreNow), NEW now \in Times, Query(now)
  PROVE  /\ UNCHANGED pending
         /\ Left(StoreNow, StoreNow', now - Retention)
         /\ lastCompact' = lastCompact
            \/ (lastCompact' = now /\ UsedIn(StoreNow') = DOMAIN dict')
<1> DEFINE cutoff == now - Retention
           trimmed == [dict |-> dict, keys |-> Trimmed(keys, cutoff), descs |-> descs]
           old == StoreNow
           next == StoreNow'
<1>1. /\ \/ (\E state \in Compacted(trimmed) : Becomes(state)) /\ lastCompact' = now
         \/ Becomes(trimmed) /\ UNCHANGED lastCompact
      /\ UNCHANGED pending
  BY Zenon DEF Query
<1>2. next.dict = dict' /\ next.keys = keys' /\ next.descs = descs'
  BY DEF StoreNow
<1>3. trimmed = [dict |-> old.dict, keys |-> Trimmed(old.keys, cutoff), descs |-> old.descs]
  BY DEF StoreNow
<1>4. cutoff \in Int
  BY CutoffIs
<1> HIDE DEF cutoff, next, old
<1>5. /\ next.dict = trimmed.dict /\ next.keys = trimmed.keys /\ next.descs = trimmed.descs
           => Left(old, next, cutoff)
      /\ \A state \in Compacted(trimmed) :
           next.dict = state.dict /\ next.keys = state.keys /\ next.descs = state.descs
             => Left(old, next, cutoff) /\ UsedIn(next) = DOMAIN next.dict
  <2> DEFINE of(s) == [dict |-> s.dict, keys |-> Trimmed(s.keys, cutoff), descs |-> s.descs]
  <2>1. StateOK(old)
    BY DEF old
  <2>2. /\ next.dict = of(old).dict /\ next.keys = of(old).keys /\ next.descs = of(old).descs
           => Left(old, next, cutoff)
        /\ \A state \in Compacted(of(old)) :
             next.dict = state.dict /\ next.keys = state.keys /\ next.descs = state.descs
               => Left(old, next, cutoff) /\ UsedIn(next) = DOMAIN next.dict
    BY <1>4, <2>1, LeftIs
  <2> HIDE DEF trimmed
  <2> QED BY Zenon, <1>3, <2>2
<1> HIDE DEF trimmed
<1>6. CASE \E state \in Compacted(trimmed) : Becomes(state) /\ lastCompact' = now
  <2>1. PICK state \in Compacted(trimmed) : Becomes(state) /\ lastCompact' = now
    BY Zenon, <1>6
  <2>2. next.dict = state.dict /\ next.keys = state.keys /\ next.descs = state.descs
    BY Zenon, <1>2, <2>1 DEF Becomes
  <2> QED BY Zenon, <1>1, <1>2, <1>5, <2>1, <2>2 DEF next, old, cutoff
<1>7. CASE Becomes(trimmed) /\ UNCHANGED lastCompact
  <2>1. next.dict = trimmed.dict /\ next.keys = trimmed.keys /\ next.descs = trimmed.descs
    BY Zenon, <1>2, <1>7 DEF Becomes
  <2> QED BY Zenon, <1>1, <1>5, <1>7, <2>1 DEF next, old, cutoff
<1> QED BY Zenon, <1>1, <1>6, <1>7

-----------------------------------------------------------------------------
(* What a tick hands to the store.                                          *)

\* The items of a list at some places are items of it.
LEMMA PickedAre ==
  ASSUME NEW list, Len(list) \in Nat, DOMAIN list = 1..Len(list), NEW places, places \subseteq DOMAIN list
  PROVE  /\ Len(Picked(list, places)) \in Nat
         /\ DOMAIN Picked(list, places) = 1..Len(Picked(list, places))
         /\ \A i \in DOMAIN Picked(list, places) : \E x \in places : Picked(list, places)[i] = list[x]
<1> DEFINE before == {pair \in places \X places : pair[1] < pair[2]}
           order == Ranked(places, before)
           new == Picked(list, places)
<1>1. new = [n \in DOMAIN order |-> list[order[n]]]
  BY Zenon DEF Picked
<1>2. IsFiniteSet(places) /\ \A x \in places : x \in Int
  <2> DEFINE n == Len(list)
  <2>1. n \in Nat
    OBVIOUS
  <2> HIDE DEF n
  <2>2. 1 \in Int /\ n \in Int /\ \A x \in 1..n : x \in Int
    BY <2>1
  <2>3. IsFiniteSet(1..n)
    BY <2>2, FS_Interval
  <2>4. places \subseteq 1..n
    BY DEF n
  <2> QED BY <2>2, <2>3, <2>4, FS_Subset
<1>3. \A x, y \in places : <<x, y>> \in before <=> x < y
  OBVIOUS
<1> HIDE DEF before
<1>4. Orders(before, places)
  BY <1>2, <1>3 DEF Orders
<1>5. InOrder(order, places, before)
  BY <1>2, <1>4, RankedInOrder
<1> HIDE DEF order
<1>6. Len(order) \in Nat /\ DOMAIN order = 1..Len(order) /\ \A i \in DOMAIN order : order[i] \in places
  BY <1>5 DEF InOrder
<1> HIDE DEF new
<1>7. DOMAIN new = DOMAIN order /\ \A i \in DOMAIN order : new[i] = list[order[i]]
  BY <1>1
<1>8. Len(new) = Len(order)
  <2> DEFINE n == Len(order)
  <2>1. n \in Nat /\ DOMAIN order = 1..n
    BY <1>6
  <2> HIDE DEF n
  <2>2. new = [i \in 1..n |-> list[order[i]]]
    BY <1>1, <2>1
  <2>3. Len(new) = n
    BY <2>1, <2>2
  <2> QED BY <2>3 DEF n
<1>9. DOMAIN new = 1..Len(new) /\ Len(new) \in Nat
  BY Zenon, <1>6, <1>7, <1>8
<1>10. \A i \in DOMAIN new : \E x \in places : new[i] = list[x]
  BY Zenon, <1>6, <1>7
<1> QED BY Zenon, <1>9, <1>10 DEF new

\* A sample as a page of target t shows it.
GivenSample(t, x) ==
  /\ DOMAIN x = {"name", "labels", "value"} /\ x.name \in Texts /\ x.value \in Int
  /\ LabelsOf(Marked(t, x)) \in LabelSets /\ ScrapePath(t, x.labels) \in Texts \ {NoString}

LEMMA MarkedIs ==
  ASSUME NEW t, NEW x, GivenSample(t, x)
  PROVE  SampleOK(Marked(t, x))
<1> DEFINE labels == [scraped_from |-> ScrapedFrom(t, x.labels)] @@ TargetLabels[t] @@ x.labels
           marks == IF t \in DropScrapePath THEN Restrict(labels, DOMAIN labels \ {"scrape_path"})
                    ELSE [scrape_path |-> ScrapePath(t, x.labels)] @@ labels
<1>1. Marked(t, x) = [x EXCEPT !.labels = marks]
  BY Zenon DEF Marked
<1> HIDE DEF marks
<1>2. DOMAIN x = {"name", "labels", "value"}
  BY DEF GivenSample
<1>3. Marked(t, x).name = x.name /\ Marked(t, x).value = x.value
  BY <1>1, <1>2
<1> QED BY <1>3 DEF GivenSample, SampleOK

\* The lists that the paths of a target give.
LEMMA PagesAre ==
  ASSUME NEW t \in Targets, NEW got \in Answers(t)
  PROVE  /\ Len(Exposed[t]) \in Nat /\ DOMAIN got = 1..Len(Exposed[t])
         /\ \A p \in DOMAIN got :
              /\ got[p].samples \in Seq(Range(got[p].samples)) /\ got[p].descs \in Seq(Range(got[p].descs))
              /\ \A i \in DOMAIN got[p].samples : GivenSample(t, got[p].samples[i])
              /\ \A i \in DOMAIN got[p].descs : got[p].descs[i].text \in Texts
<1> DEFINE nothing == [samples |-> <<>>, descs |-> <<>>]
           one(p) == Exposed[t][p] \cup {nothing}
<1>1. DOMAIN got = DOMAIN Exposed[t] /\ \A p \in DOMAIN got : got[p] \in one(p)
  <2>1. got \in {got1 \in [DOMAIN Exposed[t] -> UNION {one(p) : p \in DOMAIN Exposed[t]}] :
                   \A p \in DOMAIN got1 : got1[p] \in one(p)}
    BY Zenon DEF Answers
  <2> HIDE DEF one
  <2> QED BY <2>1
<1>2. Len(Exposed[t]) \in Nat /\ DOMAIN Exposed[t] = 1..Len(Exposed[t])
  <2>1. Exposed[t] \in Seq(Range(Exposed[t]))
    BY ExposedAssumption
  <2> QED BY <2>1
<1>3. ASSUME NEW p \in DOMAIN got
      PROVE  /\ got[p].samples \in Seq(Range(got[p].samples)) /\ got[p].descs \in Seq(Range(got[p].descs))
             /\ \A i \in DOMAIN got[p].samples : GivenSample(t, got[p].samples[i])
             /\ \A i \in DOMAIN got[p].descs : got[p].descs[i].text \in Texts
  <2> DEFINE page == got[p]
  <2>1. page \in Exposed[t][p] \/ page = nothing
    BY <1>1
  <2> HIDE DEF page
  <2>2. CASE page \in Exposed[t][p]
    <3>1. p \in DOMAIN Exposed[t]
      BY <1>1
    <3>2. /\ page.samples \in Seq(Range(page.samples)) /\ page.descs \in Seq(Range(page.descs))
          /\ \A i \in DOMAIN page.descs : page.descs[i].text \in STRING
          /\ \A i \in DOMAIN page.samples :
               /\ DOMAIN page.samples[i] = {"name", "labels", "value"}
               /\ page.samples[i].name \in STRING /\ page.samples[i].value \in Int
               /\ LabelsOf(Marked(t, page.samples[i])) \in Range(Canonical)
               /\ ScrapePath(t, page.samples[i].labels) \in STRING \ {NoString}
      BY Zenon, <2>2, <3>1, ExposedAssumption
    <3>3. \A i \in DOMAIN page.samples : GivenSample(t, page.samples[i])
      BY Zenon, <3>2 DEF GivenSample, Texts, LabelSets
    <3> QED BY Zenon, <3>2, <3>3 DEF page, Texts
  <2>3. CASE page = nothing
    <3>1. page.samples = <<>> /\ page.descs = <<>>
      BY <2>3
    <3>2. <<>> \in Seq(Range(<<>>)) /\ DOMAIN <<>> = {}
      OBVIOUS
    <3>3. page.samples \in Seq(Range(page.samples)) /\ DOMAIN page.samples = {}
          /\ page.descs \in Seq(Range(page.descs)) /\ DOMAIN page.descs = {}
      BY Zenon, <3>1, <3>2
    <3> QED BY <3>3 DEF page
  <2> QED BY <2>1, <2>2, <2>3
<1> QED BY <1>1, <1>2, <1>3

LEMMA FlatIs ==
  ASSUME NEW lists, lists \in Seq(Range(lists)), \A p \in DOMAIN lists : lists[p] \in Seq(Range(lists[p]))
  PROVE  /\ Len(FlattenSeq(lists)) \in Nat /\ DOMAIN FlattenSeq(lists) = 1..Len(FlattenSeq(lists))
         /\ \A h \in DOMAIN FlattenSeq(lists) :
              \E p \in DOMAIN lists : \E j \in DOMAIN lists[p] : FlattenSeq(lists)[h] = lists[p][j]
<1> DEFINE S == UNION {Range(lists[p]) : p \in DOMAIN lists}
           T == Seq(S)
           flat == FlattenSeq(lists)
<1>1. \A p \in DOMAIN lists : \A x \in Range(lists[p]) : x \in S
  OBVIOUS
<1>2. \A p \in DOMAIN lists : lists[p] \in T
  <2> HIDE DEF S
  <2> TAKE p \in DOMAIN lists
  <2> DEFINE R == Range(lists[p])
             list == lists[p]
  <2>1. list \in Seq(R) /\ \A x \in R : x \in S
    BY <1>1
  <2> HIDE DEF R, list
  <2>2. list \in Seq(S)
    BY <2>1
  <2> QED BY <2>2 DEF list
<1> HIDE DEF T, S
<1>3. lists \in Seq(T)
  <2> DEFINE A == Range(lists)
  <2>1. lists \in Seq(A)
    OBVIOUS
  <2> HIDE DEF A
  <2> QED BY <1>2, <2>1
<1>4. /\ flat \in Seq(S)
      /\ \A h \in DOMAIN flat : \E i \in DOMAIN lists : \E j \in DOMAIN lists[i] : flat[h] = lists[i][j]
  <2>1. lists \in Seq(Seq(S))
    BY Zenon, <1>3 DEF T
  <2> QED BY Zenon, <2>1, Flattened
<1> HIDE DEF flat
<1>5. Len(flat) \in Nat /\ DOMAIN flat = 1..Len(flat)
  BY <1>4
<1> QED BY Zenon, <1>4, <1>5 DEF flat

\* The calls of a tick are as the store expects them.
LEMMA TickCalls ==
  ASSUME NEW t \in Targets, NEW at \in Times, NEW got \in Answers(t)
  PROVE  LET samples == WithoutStateMetrics(t, FlattenSeq([p \in DOMAIN got |-> got[p].samples]))
             given == WithoutStateMetrics(t, FlattenSeq([p \in DOMAIN got |-> got[p].descs]))
             path(i) == ScrapePath(t, samples[i].labels)
             marked == [i \in DOMAIN samples |-> Marked(t, samples[i])]
             of(key) == Picked(marked, {i \in DOMAIN samples : path(i) = key})
         IN  \A key \in {path(i) : i \in DOMAIN samples} :
               CallOK([target |-> t, key |-> key, samples |-> of(key), descs |-> given, at |-> at])
<1> DEFINE pages == [p \in DOMAIN got |-> got[p].samples]
           texts == [p \in DOMAIN got |-> got[p].descs]
           allSamples == FlattenSeq(pages)
           allTexts == FlattenSeq(texts)
           samples == WithoutStateMetrics(t, allSamples)
           given == WithoutStateMetrics(t, allTexts)
           path(i) == ScrapePath(t, samples[i].labels)
           marked == [i \in DOMAIN samples |-> Marked(t, samples[i])]
           of(key) == Picked(marked, {i \in DOMAIN samples : path(i) = key})
           n == Len(Exposed[t])
<1>1. n \in Nat /\ DOMAIN got = 1..n
  BY PagesAre
<1>2. \A p \in DOMAIN got :
        /\ got[p].samples \in Seq(Range(got[p].samples)) /\ got[p].descs \in Seq(Range(got[p].descs))
        /\ \A i \in DOMAIN got[p].samples : GivenSample(t, got[p].samples[i])
        /\ \A i \in DOMAIN got[p].descs : got[p].descs[i].text \in Texts
  BY PagesAre
<1> HIDE DEF n
<1>3. /\ pages = [p \in 1..n |-> pages[p]] /\ texts = [p \in 1..n |-> texts[p]]
      /\ \A p \in 1..n : pages[p] = got[p].samples /\ texts[p] = got[p].descs
  BY <1>1
<1>10. pages \in Seq(Range(pages)) /\ texts \in Seq(Range(texts)) /\ DOMAIN pages = 1..n /\ DOMAIN texts = 1..n
  <2> HIDE DEF pages, texts
  <2>1. DOMAIN pages = 1..n /\ DOMAIN texts = 1..n
    BY Zenon, <1>3
  <2> DEFINE A == Range(pages)
             B == Range(texts)
  <2>2. \A p \in 1..n : pages[p] \in A /\ texts[p] \in B
    BY <2>1 DEF Range
  <2> HIDE DEF A, B
  <2>3. pages \in Seq(A)
    <3>1. pages = [p \in 1..n |-> pages[p]] /\ n \in Nat /\ \A p \in 1..n : pages[p] \in A
      BY <1>1, <1>3, <2>2
    <3> QED BY <3>1
  <2>4. texts \in Seq(B)
    <3>1. texts = [p \in 1..n |-> texts[p]] /\ n \in Nat /\ \A p \in 1..n : texts[p] \in B
      BY <1>1, <1>3, <2>2
    <3> QED BY <3>1
  <2> QED BY <2>1, <2>3, <2>4 DEF A, B
<1> HIDE DEF pages, texts
<1>4. /\ Len(allSamples) \in Nat /\ DOMAIN allSamples = 1..Len(allSamples)
      /\ \A h \in DOMAIN allSamples : GivenSample(t, allSamples[h])
  <2>1. \A p \in DOMAIN pages : pages[p] \in Seq(Range(pages[p]))
    BY <1>1, <1>2, <1>3, <1>10
  <2>2. /\ Len(allSamples) \in Nat /\ DOMAIN allSamples = 1..Len(allSamples)
        /\ \A h \in DOMAIN allSamples : \E p \in DOMAIN pages : \E j \in DOMAIN pages[p] : allSamples[h] = pages[p][j]
    BY Zenon, <1>10, <2>1, FlatIs
  <2> HIDE DEF allSamples
  <2>3. \A p \in DOMAIN pages : \A j \in DOMAIN pages[p] : GivenSample(t, pages[p][j])
    BY Zenon, <1>1, <1>2, <1>3, <1>10
  <2> QED BY Zenon, <2>2, <2>3
<1>5. /\ Len(allTexts) \in Nat /\ DOMAIN allTexts = 1..Len(allTexts)
      /\ \A h \in DOMAIN allTexts : allTexts[h].text \in Texts
  <2>1. \A p \in DOMAIN texts : texts[p] \in Seq(Range(texts[p]))
    BY <1>1, <1>2, <1>3, <1>10
  <2>2. /\ Len(allTexts) \in Nat /\ DOMAIN allTexts = 1..Len(allTexts)
        /\ \A h \in DOMAIN allTexts : \E p \in DOMAIN texts : \E j \in DOMAIN texts[p] : allTexts[h] = texts[p][j]
    BY Zenon, <1>10, <2>1, FlatIs
  <2> HIDE DEF allTexts
  <2>3. \A p \in DOMAIN texts : \A j \in DOMAIN texts[p] : texts[p][j].text \in Texts
    BY Zenon, <1>1, <1>2, <1>3, <1>10
  <2> QED BY Zenon, <2>2, <2>3
<1> HIDE DEF allSamples, allTexts
<1>6. /\ Len(samples) \in Nat /\ DOMAIN samples = 1..Len(samples)
      /\ \A i \in DOMAIN samples : GivenSample(t, samples[i])
  <2> DEFINE places == {i \in DOMAIN allSamples : t \in StateAggregated => allSamples[i].name \notin StateMetricNames}
  <2>1. samples = Picked(allSamples, places)
    BY Zenon DEF WithoutStateMetrics
  <2>2. places \subseteq DOMAIN allSamples
    OBVIOUS
  <2> HIDE DEF places, samples
  <2>3. /\ Len(samples) \in Nat /\ DOMAIN samples = 1..Len(samples)
        /\ \A i \in DOMAIN samples : \E x \in places : samples[i] = allSamples[x]
    BY <1>4, <2>1, <2>2, PickedAre
  <2> QED BY <1>4, <2>2, <2>3
<1>7. /\ Len(given) \in Nat /\ DOMAIN given = 1..Len(given)
      /\ \A i \in DOMAIN given : given[i].text \in Texts
  <2> DEFINE places == {i \in DOMAIN allTexts : t \in StateAggregated => allTexts[i].name \notin StateMetricNames}
  <2>1. given = Picked(allTexts, places)
    BY Zenon DEF WithoutStateMetrics
  <2>2. places \subseteq DOMAIN allTexts
    OBVIOUS
  <2> HIDE DEF places, given
  <2>3. /\ Len(given) \in Nat /\ DOMAIN given = 1..Len(given)
        /\ \A i \in DOMAIN given : \E x \in places : given[i] = allTexts[x]
    BY <1>5, <2>1, <2>2, PickedAre
  <2> QED BY <1>5, <2>2, <2>3
<1> HIDE DEF samples, given
<1>8. /\ Len(marked) \in Nat /\ DOMAIN marked = 1..Len(marked) /\ DOMAIN marked = DOMAIN samples
      /\ \A i \in DOMAIN marked : SampleOK(marked[i])
  <2> DEFINE m == Len(samples)
  <2>1. m \in Nat /\ DOMAIN samples = 1..m
    BY <1>6
  <2> HIDE DEF m
  <2>2. marked = [i \in 1..m |-> Marked(t, samples[i])]
    BY <2>1
  <2>3. Len(marked) = m /\ DOMAIN marked = 1..m /\ \A i \in 1..m : marked[i] = Marked(t, samples[i])
    BY <2>1, <2>2
  <2>4. \A i \in DOMAIN samples : SampleOK(Marked(t, samples[i]))
    BY <1>6, MarkedIs
  <2> HIDE DEF marked
  <2> QED BY Zenon, <2>1, <2>3, <2>4
<1> HIDE DEF marked
<1>9. ASSUME NEW key \in {path(i) : i \in DOMAIN samples}
      PROVE  CallOK([target |-> t, key |-> key, samples |-> of(key), descs |-> given, at |-> at])
  <2> DEFINE places == {i \in DOMAIN samples : path(i) = key}
             list == of(key)
             call == [target |-> t, key |-> key, samples |-> list, descs |-> given, at |-> at]
  <2>1. key \in Texts \ {NoString}
    <3>1. PICK i \in DOMAIN samples : key = path(i)
      OBVIOUS
    <3> QED BY <1>6, <3>1 DEF GivenSample
  <2>2. places \subseteq DOMAIN marked
    BY <1>8
  <2>3. list = Picked(marked, places)
    OBVIOUS
  <2> HIDE DEF places, list
  <2>4. /\ Len(list) \in Nat /\ DOMAIN list = 1..Len(list)
        /\ \A i \in DOMAIN list : \E x \in places : list[i] = marked[x]
    BY <1>8, <2>2, <2>3, PickedAre
  <2>5. \A i \in DOMAIN list : SampleOK(list[i])
    BY <1>8, <2>2, <2>4
  <2>6. call.target = t /\ call.key = key /\ call.samples = list /\ call.descs = given /\ call.at = at
    OBVIOUS
  <2> HIDE DEF call
  <2>7. CallOK(call)
    BY <1>7, <2>1, <2>4, <2>5, <2>6 DEF CallOK
  <2> QED BY <2>7 DEF call, list
<1> HIDE DEF of
<1> QED BY <1>9 DEF samples, given, marked, of, allSamples, allTexts, pages, texts

-----------------------------------------------------------------------------
(* The invariant.                                                           *)

StoreInv ==
  /\ StateOK(StoreNow)
  /\ \A call \in pending : CallOK(call)
  /\ DOMAIN collected \subseteq Targets
  /\ ticks \in 0..MaxTicks
  /\ lastCompact \in Times \cup {0}

LEMMA StoreInvStarts == Init => StoreInv
<1> SUFFICES ASSUME Init PROVE StoreInv
  OBVIOUS
<1>1. /\ StoreNow.dict = <<>> /\ StoreNow.keys = <<>> /\ StoreNow.descs = <<>>
      /\ lastCompact = 0 /\ pending = {} /\ collected = <<>> /\ ticks = 0
  BY DEF Init, InitStore, StoreNow
<1>2. DOMAIN <<>> = {}
  OBVIOUS
<1> DEFINE none == <<>>
<1>3. DOMAIN none = {} /\ none \in Dicts
  BY <1>2, EmptyDict
<1> HIDE DEF none
<1>4. StateOK(StoreNow)
  <2>1. SeriesIds(none) = {}
    BY <1>3, IdsOfTree
  <2>2. IsFiniteSet({})
    BY FS_EmptySet
  <2>3. SeriesAllOK(none, none)
    BY <2>1, <2>2 DEF SeriesAllOK
  <2>4. DescsOK(none, none) /\ Full(none)
    BY <1>3 DEF DescsOK, Full
  <2>5. StoreNow.dict = none /\ StoreNow.keys = none /\ StoreNow.descs = none
    BY <1>1 DEF none
  <2> QED BY <1>3, <2>3, <2>4, <2>5 DEF StateOK
<1>5. 0 \in 0..MaxTicks
  BY ExposedAssumption
<1>6. DOMAIN collected = {}
  BY Zenon, <1>1, <1>2
<1> QED BY <1>1, <1>4, <1>5, <1>6 DEF StoreInv

LEMMA TickKeeps ==
  ASSUME StoreInv, NEW t \in Targets, NEW at \in Times, Tick(t, at)
  PROVE  /\ \A call \in pending' : CallOK(call)
         /\ DOMAIN collected' \subseteq Targets /\ ticks' \in 0..MaxTicks
         /\ UNCHANGED <<dict, keys, descs, lastCompact>>
<1>1. ticks < MaxTicks /\ ticks' = ticks + 1 /\ UNCHANGED <<dict, keys, descs, lastCompact>>
  BY Zenon DEF Tick
<1>2. ticks' \in 0..MaxTicks
  BY <1>1, ExposedAssumption DEF StoreInv
<1>3. PICK got \in Answers(t) :
       LET samples == WithoutStateMetrics(t, FlattenSeq([p \in DOMAIN got |-> got[p].samples]))
           given == WithoutStateMetrics(t, FlattenSeq([p \in DOMAIN got |-> got[p].descs]))
           path(i) == ScrapePath(t, samples[i].labels)
           marked == [i \in DOMAIN samples |-> Marked(t, samples[i])]
           of(key) == Picked(marked, {i \in DOMAIN samples : path(i) = key})
       IN  /\ collected' = [u \in DOMAIN collected \cup {t} |-> IF u = t THEN marked ELSE collected[u]]
           /\ pending' = pending \cup
                {[target |-> t, key |-> key, samples |-> of(key), descs |-> given, at |-> at] :
                   key \in {path(i) : i \in DOMAIN samples}}
  BY Zenon DEF Tick
<1> DEFINE samples == WithoutStateMetrics(t, FlattenSeq([p \in DOMAIN got |-> got[p].samples]))
           given == WithoutStateMetrics(t, FlattenSeq([p \in DOMAIN got |-> got[p].descs]))
           path(i) == ScrapePath(t, samples[i].labels)
           marked == [i \in DOMAIN samples |-> Marked(t, samples[i])]
           of(key) == Picked(marked, {i \in DOMAIN samples : path(i) = key})
           paths == {path(i) : i \in DOMAIN samples}
           callOf(key) == [target |-> t, key |-> key, samples |-> of(key), descs |-> given, at |-> at]
<1>4. /\ collected' = [u \in DOMAIN collected \cup {t} |-> IF u = t THEN marked ELSE collected[u]]
      /\ pending' = pending \cup {callOf(key) : key \in paths}
  BY Zenon, <1>3
<1>5. \A key \in paths : CallOK(callOf(key))
  BY Zenon, TickCalls
<1> HIDE DEF samples, given, path, marked, of, paths, callOf
<1>6. DOMAIN collected' = DOMAIN collected \cup {t}
  BY <1>4
<1>7. DOMAIN collected' \subseteq Targets
  BY <1>6 DEF StoreInv
<1>8. ASSUME NEW call \in pending' PROVE CallOK(call)
  <2>1. call \in pending \/ \E key \in paths : call = callOf(key)
    BY <1>4
  <2> QED BY <1>5, <2>1 DEF StoreInv
<1> QED BY <1>1, <1>2, <1>7, <1>8

\* A step of the store.
LEMMA StepIs ==
  ASSUME StoreInv, [Next]_vars
  PROVE  \/ /\ \E t \in Targets, at \in Times : Tick(t, at)
            /\ UNCHANGED <<dict, keys, descs, lastCompact>>
         \/ \E call \in pending : Ingest(call) /\ CallOK(call) /\ UNCHANGED <<collected, collectedDescs, ticks>>
         \/ \E now \in Times : Query(now) /\ UNCHANGED <<collected, collectedDescs, ticks>>
         \/ UNCHANGED vars
<1>1. CASE \E t \in Targets, at \in Times : Tick(t, at)
  <2>1. PICK t \in Targets, at \in Times : Tick(t, at)
    BY Zenon, <1>1
  <2>2. UNCHANGED <<dict, keys, descs, lastCompact>>
    BY <2>1, TickKeeps
  <2> QED BY Zenon, <1>1, <2>2
<1>2. CASE \E call \in pending : Ingests(call)
  <2>1. PICK call \in pending : Ingests(call)
    BY Zenon, <1>2
  <2>2. CallOK(call)
    BY DEF StoreInv
  <2> QED BY Zenon, <2>1, <2>2 DEF Ingests
<1>3. CASE \E now \in Times : Queries(now)
  BY Zenon, <1>3 DEF Queries
<1> QED BY Zenon, <1>1, <1>2, <1>3 DEF Next

LEMMA StoreInvStays == StoreInv /\ [Next]_vars => StoreInv'
<1> SUFFICES ASSUME StoreInv, [Next]_vars PROVE StoreInv'
  OBVIOUS
<1> DEFINE new == StoreNow'
<1>1. /\ StateOK(StoreNow) /\ \A call \in pending : CallOK(call)
      /\ DOMAIN collected \subseteq Targets /\ ticks \in 0..MaxTicks /\ lastCompact \in Times \cup {0}
  BY Zenon DEF StoreInv
<1>2. StoreInv' <=> /\ StateOK(new) /\ \A call \in pending' : CallOK(call)
                    /\ DOMAIN collected' \subseteq Targets /\ ticks' \in 0..MaxTicks /\ lastCompact' \in Times \cup {0}
  BY Zenon DEF StoreInv
<1>3. CASE UNCHANGED <<dict, keys, descs, lastCompact>> /\ \E t \in Targets, at \in Times : Tick(t, at)
  <2>1. PICK t \in Targets, at \in Times : Tick(t, at)
    BY Zenon, <1>3
  <2>2. /\ \A call \in pending' : CallOK(call)
        /\ DOMAIN collected' \subseteq Targets /\ ticks' \in 0..MaxTicks
    BY <2>1, TickKeeps
  <2>3. new = StoreNow /\ lastCompact' = lastCompact
    BY <1>3 DEF StoreNow
  <2> HIDE DEF new
  <2> QED BY Zenon, <1>1, <1>2, <2>2, <2>3
<1>4. CASE \E call \in pending : Ingest(call) /\ CallOK(call) /\ UNCHANGED <<collected, collectedDescs, ticks>>
  <2>1. PICK call \in pending : Ingest(call) /\ CallOK(call) /\ UNCHANGED <<collected, collectedDescs, ticks>>
    BY Zenon, <1>4
  <2>2. /\ pending' = pending \ {call}
        /\ FiniteNames(call) = {} => UNCHANGED storeVars
        /\ FiniteNames(call) # {} => Ingested(StoreNow, new, call)
        /\ lastCompact' = lastCompact \/ lastCompact' = call.at
    BY Zenon, <1>1, <2>1, IngestIs
  <2>3. StateOK(new)
    <3>1. CASE FiniteNames(call) = {}
      <4>1. new = StoreNow
        BY <2>2, <3>1 DEF StoreNow, storeVars
      <4> HIDE DEF new
      <4> QED BY Zenon, <1>1, <4>1
    <3>2. CASE FiniteNames(call) # {}
      <4> HIDE DEF new
      <4> QED BY Zenon, <2>2, <3>2 DEF Ingested, Left
    <3> QED BY <3>1, <3>2
  <2> HIDE DEF new
  <2>4. \A c \in pending' : CallOK(c)
    BY <1>1, <2>2
  <2>5. lastCompact' \in Times \cup {0}
    BY <1>1, <2>1, <2>2 DEF CallOK
  <2>6. DOMAIN collected' \subseteq Targets /\ ticks' \in 0..MaxTicks
    BY <1>1, <2>1
  <2> QED BY Zenon, <1>2, <2>3, <2>4, <2>5, <2>6
<1>5. CASE \E now \in Times : Query(now) /\ UNCHANGED <<collected, collectedDescs, ticks>>
  <2>1. PICK now \in Times : Query(now) /\ UNCHANGED <<collected, collectedDescs, ticks>>
    BY Zenon, <1>5
  <2>2. /\ UNCHANGED pending /\ Left(StoreNow, new, now - Retention)
        /\ lastCompact' = lastCompact \/ lastCompact' = now
    BY Zenon, <1>1, <2>1, QueryIs
  <2> HIDE DEF new
  <2>3. StateOK(new)
    BY Zenon, <2>2 DEF Left
  <2>4. lastCompact' \in Times \cup {0}
    BY <1>1, <2>2
  <2>5. DOMAIN collected' \subseteq Targets /\ ticks' \in 0..MaxTicks /\ \A c \in pending' : CallOK(c)
    BY <1>1, <2>1, <2>2
  <2> QED BY Zenon, <1>2, <2>3, <2>4, <2>5
<1>6. CASE UNCHANGED vars
  <2>1. new = StoreNow /\ pending' = pending /\ collected' = collected /\ ticks' = ticks /\ lastCompact' = lastCompact
    BY <1>6 DEF vars, StoreNow
  <2> HIDE DEF new
  <2> QED BY Zenon, <1>1, <1>2, <2>1
<1> QED BY Zenon, <1>3, <1>4, <1>5, <1>6, StepIs

THEOREM StoreInvHolds == Spec => []StoreInv
BY StoreInvStarts, StoreInvStays, PTL DEF Spec

\* Compaction leaves the strings in use and no others, in every store, however many
\* keys, metrics, labels and series there are.
THEOREM OnlyUsedStringsStay == Spec => CompactionIsExact
<1>1. StoreInv /\ [Next]_vars => [lastCompact' # lastCompact => UsedIds' = DOMAIN dict']_vars
  <2> SUFFICES ASSUME StoreInv, [Next]_vars, lastCompact' # lastCompact PROVE UsedIds' = DOMAIN dict'
    BY Zenon
  <2>1. UsedIds' = UsedIn(StoreNow')
    BY DEF UsedIds, UsedIn, LabelIds, StoreNow
  <2>2. StateOK(StoreNow)
    BY Zenon DEF StoreInv
  <2>3. CASE UNCHANGED <<dict, keys, descs, lastCompact>>
    BY <2>3
  <2>4. CASE \E call \in pending : Ingest(call) /\ CallOK(call) /\ UNCHANGED <<collected, collectedDescs, ticks>>
    BY Zenon, <2>1, <2>2, <2>4, IngestIs
  <2>5. CASE \E now \in Times : Query(now) /\ UNCHANGED <<collected, collectedDescs, ticks>>
    BY Zenon, <2>1, <2>2, <2>5, QueryIs
  <2>6. CASE UNCHANGED vars
    BY <2>6 DEF vars
  <2> QED BY Zenon, <2>3, <2>4, <2>5, <2>6, StepIs
<1> QED BY <1>1, StoreInvHolds, PTL DEF Spec, CompactionIsExact

-----------------------------------------------------------------------------
(* Properties.                                                              *)

LEMMA StoreTyped == StoreInv => TypeOK
<1> SUFFICES ASSUME StoreInv PROVE TypeOK
  OBVIOUS
<1>1. /\ dict \in Dicts /\ SeriesAllOK(dict, keys) /\ DescsOK(dict, descs) /\ Full(keys)
      /\ \A call \in pending : CallOK(call)
      /\ DOMAIN collected \subseteq Targets /\ ticks \in 0..MaxTicks /\ lastCompact \in Times \cup {0}
  BY DEF StoreInv, StateOK, StoreNow
<1>2. dict \in Seq(STRING) /\ IsInjective(dict)
  BY <1>1 DEF Dicts, Texts
<1>3. \A k \in DOMAIN keys : DOMAIN keys[k] # {} /\ \A n \in DOMAIN keys[k] : DOMAIN keys[k][n] # {}
  BY <1>1 DEF Full
<1>4. \A s \in AllSeries : DOMAIN s.timestamps = DOMAIN s.values /\ s.values # <<>>
  <2> TAKE s \in AllSeries
  <2>1. PICK k \in DOMAIN keys : \E n \in DOMAIN keys[k] : s \in Range(keys[k][n])
    BY DEF AllSeries
  <2>2. PICK n \in DOMAIN keys[k] : s \in Range(keys[k][n])
    BY <2>1
  <2>3. PICK p \in DOMAIN keys[k][n] : s = keys[k][n][p]
    BY <2>2 DEF Range
  <2>4. <<k, n, p>> \in SeriesIds(keys) /\ s = At(keys, <<k, n, p>>)
    BY <2>3, IdsOfTree DEF At
  <2>5. SeriesOK(s) /\ s.values # <<>>
    BY <1>1, <2>4 DEF SeriesAllOK
  <2>6. Len(s.timestamps) = Len(s.values) /\ s.timestamps \in Seq(Int) /\ s.values \in Seq(Int)
    BY <2>5 DEF SeriesOK, SeriesKind
  <2> DEFINE t == s.timestamps
             v == s.values
  <2>7. t \in Seq(Int) /\ v \in Seq(Int) /\ Len(t) = Len(v)
    BY <2>6
  <2> HIDE DEF t, v
  <2>8. DOMAIN t = DOMAIN v
    BY <2>7
  <2> QED BY <2>5, <2>8 DEF t, v
<1>5. \A n \in DOMAIN descs : descs[n] \in 0..Len(dict)
  BY <1>1 DEF DescsOK
<1>6. \A call \in pending : call.target \in Targets /\ call.at \in Times
  BY <1>1 DEF CallOK
<1> QED BY Zenon, <1>1, <1>2, <1>3, <1>4, <1>5, <1>6 DEF TypeOK

\* The points of the model are those of the invariant.
LEMMA PointsAreThese == Points = StatePoints(StoreNow)
<1> DEFINE of(i) == LET s == keys[i[1]][i[2]][i[3]]
                    IN  {<<Meant(i), s.timestamps[j], s.values[j]>> : j \in DOMAIN s.timestamps}
           also(i) == {<<MeantIn(dict, i), x[1], x[2]>> : x \in PointsOf(At(keys, i))}
<1>1. Points = UNION {of(i) : i \in SeriesIds(keys)}
  BY Zenon DEF Points
<1>2. StatePoints(StoreNow) = UNION {also(i) : i \in SeriesIds(keys)}
  BY DEF StatePoints, PointsIn, StoreNow
<1>3. \A i : of(i) = also(i)
  <2> TAKE i
  <2> DEFINE s == At(keys, i)
             m == MeantIn(dict, i)
  <2>1. of(i) = {<<m, s.timestamps[j], s.values[j]>> : j \in DOMAIN s.timestamps}
    BY Zenon DEF At, Meant, MeantIn
  <2>2. also(i) = {<<m, x[1], x[2]>> : x \in {<<s.timestamps[j], s.values[j]>> : j \in DOMAIN s.timestamps}}
    BY Zenon DEF PointsOf
  <2> DEFINE a == s.timestamps
             b == s.values
             T == {<<a[j], b[j]>> : j \in DOMAIN a}
  <2>3. of(i) = {<<m, a[j], b[j]>> : j \in DOMAIN a} /\ also(i) = {<<m, x[1], x[2]>> : x \in T}
    BY Zenon, <2>1, <2>2
  <2> HIDE DEF of, also, s, m, a, b
  <2>4. \A j \in DOMAIN a : <<a[j], b[j]>>[1] = a[j] /\ <<a[j], b[j]>>[2] = b[j]
    OBVIOUS
  <2>5. \A x \in T : \E j \in DOMAIN a : x[1] = a[j] /\ x[2] = b[j]
    BY <2>4
  <2>6. \A j \in DOMAIN a : \E x \in T : x[1] = a[j] /\ x[2] = b[j]
    BY <2>4
  <2> HIDE DEF T
  <2> QED BY <2>3, <2>5, <2>6
<1> HIDE DEF of, also
<1> QED BY Zenon, <1>1, <1>2, <1>3

\* Nothing is counted twice.
LEMMA CountsAreRight ==
  ASSUME StoreInv
  PROVE  /\ MetricsStats.series = Cardinality({x[1] : x \in Points})
         /\ MetricsStats.points = Cardinality(Points)
<1> DEFINE ids == SeriesIds(keys)
           points == StatePoints(StoreNow)
           meant(i) == MeantIn(dict, i)
           t(i) == At(keys, i).timestamps
           v(i) == At(keys, i).values
           places == UNION {{<<i, j>> : j \in DOMAIN keys[i[1]][i[2]][i[3]].timestamps} : i \in SeriesIds(keys)}
<1>1. MetricsStats.series = Cardinality(ids) /\ MetricsStats.points = Cardinality(places)
  <2> DEFINE a == Cardinality(DOMAIN keys)
             b == Cardinality(UNION {{<<k, n>> : n \in DOMAIN keys[k]} : k \in DOMAIN keys})
             c == Cardinality(ids)
             d == Cardinality(places)
  <2>1. MetricsStats = [keys |-> a, strings |-> Len(dict), metrics |-> b, series |-> c, points |-> d]
    BY Zenon DEF MetricsStats
  <2> HIDE DEF a, b, c, d
  <2>2. MetricsStats.series = c /\ MetricsStats.points = d
    BY <2>1
  <2> QED BY <2>2 DEF c, d
<1>2. /\ dict \in Dicts /\ IsFiniteSet(ids)
      /\ \A i \in ids : IdOK(dict, i) /\ SeriesOK(At(keys, i)) /\ At(keys, i).values # <<>>
  BY DEF StoreInv, StateOK, StoreNow, SeriesAllOK
<1>3. \A y : y \in points <=> \E i \in ids : \E x \in PointsOf(At(keys, i)) : y = <<meant(i), x[1], x[2]>>
  BY PointsAre DEF StatePoints, StoreNow
<1>4. \A i, j \in ids : meant(i) = meant(j) => i = j
  BY <1>2, MeantOnce
<1>5. \A y : y \in places <=> \E i \in ids : \E j \in DOMAIN t(i) : y = <<i, j>>
  <2> DEFINE of(i) == {<<i, j>> : j \in DOMAIN keys[i[1]][i[2]][i[3]].timestamps}
  <2>1. places = UNION {of(i) : i \in ids}
    OBVIOUS
  <2>2. \A y, i : y \in of(i) <=> \E j \in DOMAIN keys[i[1]][i[2]][i[3]].timestamps : y = <<i, j>>
    OBVIOUS
  <2> HIDE DEF of, places, ids
  <2>3. \A y : y \in places <=> \E i \in ids : y \in of(i)
    BY <2>1
  <2> QED BY Zenon, <2>2, <2>3 DEF At
<1>6. ASSUME NEW i \in ids
      PROVE  /\ Len(t(i)) \in Nat /\ DOMAIN t(i) = 1..Len(t(i)) /\ DOMAIN t(i) # {}
             /\ \A j, h \in DOMAIN t(i) : t(i)[j] = t(i)[h] => j = h
             /\ PointsOf(At(keys, i)) = {<<t(i)[j], v(i)[j]>> : j \in DOMAIN t(i)}
  <2> DEFINE s == At(keys, i)
             a == s.timestamps
             b == s.values
  <2>1. SeriesOK(s) /\ b # <<>>
    BY <1>2
  <2>2. a \in Seq(Int) /\ b \in Seq(Int) /\ Len(a) = Len(b) /\ \A j, h \in 1..Len(a) : j < h => a[j] < a[h]
    BY <2>1 DEF SeriesOK, SeriesKind
  <2>3. PointsOf(s) = {<<a[j], b[j]>> : j \in DOMAIN a}
    BY Zenon DEF PointsOf
  <2> HIDE DEF a, b, s
  <2>4. Len(a) \in Nat /\ DOMAIN a = 1..Len(a) /\ \A j \in 1..Len(a) : j \in Int /\ a[j] \in Int
    BY <2>2
  <2>5. DOMAIN a # {}
    <3>1. Len(b) # 0 /\ Len(b) \in Nat
      BY <2>1, <2>2
    <3> DEFINE n == Len(a)
    <3>2. n \in Nat /\ n # 0 /\ DOMAIN a = 1..n
      BY <2>2, <2>4, <3>1
    <3> HIDE DEF n
    <3>3. 1 \in 1..n
      BY <3>2
    <3> QED BY <3>2, <3>3
  <2>6. \A j, h \in DOMAIN a : a[j] = a[h] => j = h
    <3> SUFFICES ASSUME NEW j \in 1..Len(a), NEW h \in 1..Len(a), a[j] = a[h], j # h PROVE FALSE
      BY <2>4
    <3>1. j < h \/ h < j
      BY <2>4
    <3> QED BY <2>2, <2>4, <3>1
  <2> QED BY <2>3, <2>4, <2>5, <2>6 DEF s, a, b
<1> HIDE DEF ids, points, meant, t, v, places
<1>7. Cardinality(ids) = Cardinality({x[1] : x \in points})
  <2> DEFINE f == [i \in ids |-> meant(i)]
             image == {f[i] : i \in ids}
  <2>1. \A i, j \in ids : f[i] = f[j] => i = j
    BY <1>4
  <2>2. image = {x[1] : x \in points}
    <3>1. ASSUME NEW x \in points PROVE x[1] \in image
      <4>1. PICK i \in ids : \E z \in PointsOf(At(keys, i)) : x = <<meant(i), z[1], z[2]>>
        BY <1>3
      <4>2. x[1] = f[i]
        BY <4>1
      <4> QED BY <4>2
    <3>2. ASSUME NEW i \in ids PROVE \E x \in points : f[i] = x[1]
      <4>1. PICK j : j \in DOMAIN t(i)
        BY <1>6
      <4>2. <<t(i)[j], v(i)[j]>> \in PointsOf(At(keys, i))
        BY <1>6, <4>1
      <4> DEFINE z == <<t(i)[j], v(i)[j]>>
                 y == <<meant(i), z[1], z[2]>>
      <4>3. y \in points
        BY Zenon, <1>3, <4>2
      <4>4. y[1] = f[i]
        OBVIOUS
      <4> HIDE DEF y, f
      <4> QED BY <4>3, <4>4
    <3> HIDE DEF f
    <3> QED BY <3>1, <3>2
  <2>3. Cardinality(image) = Cardinality(ids)
    <3> HIDE DEF f
    <3> QED BY <1>2, <2>1, SameSize
  <2> QED BY <2>2, <2>3
<1>8. IsFiniteSet(places)
  <2> DEFINE of(i) == {<<i, j>> : j \in DOMAIN t(i)}
             all == {of(i) : i \in ids}
  <2>1. \A i \in ids : IsFiniteSet(of(i))
    <3> TAKE i \in ids
    <3> DEFINE n == Len(t(i))
               f == [j \in 1..n |-> <<i, j>>]
               S == of(i)
    <3>1. n \in Nat /\ DOMAIN t(i) = 1..n
      BY <1>6
    <3> HIDE DEF n
    <3>2. 1 \in Int /\ n \in Int
      BY <3>1
    <3>3. IsFiniteSet(1..n)
      BY <3>2, FS_Interval
    <3>4. f \in [1..n -> S] /\ \A y \in S : \E j \in 1..n : f[j] = y
      BY <3>1
    <3> HIDE DEF f, S
    <3>5. f \in Surjection(1..n, S)
      BY <3>4 DEF Surjection
    <3>6. IsFiniteSet(S)
      BY <3>3, <3>5, FS_Surjection
    <3> QED BY <3>6 DEF S
  <2>2. \A i, y : y \in of(i) <=> \E j \in DOMAIN t(i) : y = <<i, j>>
    OBVIOUS
  <2> HIDE DEF of
  <2>3. places = UNION all
    <3>1. \A y : y \in places <=> \E i \in ids : y \in of(i)
      BY Zenon, <1>5, <2>2
    <3> QED BY <3>1
  <2>4. IsFiniteSet(all)
    <3> DEFINE f == [i \in ids |-> of(i)]
    <3>1. f \in [ids -> all] /\ \A y \in all : \E i \in ids : f[i] = y
      OBVIOUS
    <3> HIDE DEF f, all
    <3>2. f \in Surjection(ids, all)
      BY <3>1 DEF Surjection
    <3> QED BY <1>2, <3>2, FS_Surjection
  <2>5. \A S \in all : IsFiniteSet(S)
    BY <2>1
  <2> HIDE DEF all
  <2> QED BY <2>3, <2>4, <2>5, FS_UNION
<1>9. Cardinality(places) = Cardinality(points)
  <2> DEFINE f == [y \in places |-> <<meant(y[1]), t(y[1])[y[2]], v(y[1])[y[2]]>>]
             image == {f[y] : y \in places}
  <2>1. \A y \in places : y = <<y[1], y[2]>> /\ y[1] \in ids /\ y[2] \in DOMAIN t(y[1])
    <3> TAKE y \in places
    <3>1. PICK i \in ids : \E j \in DOMAIN t(i) : y = <<i, j>>
      BY Zenon, <1>5
    <3>2. PICK j \in DOMAIN t(i) : y = <<i, j>>
      BY <3>1
    <3>3. y[1] = i /\ y[2] = j
      BY <3>2
    <3> QED BY <3>2, <3>3
  <2>2. \A x, y \in places : f[x] = f[y] => x = y
    <3> SUFFICES ASSUME NEW x \in places, NEW y \in places, f[x] = f[y] PROVE x = y
      OBVIOUS
    <3>1. meant(x[1]) = meant(y[1]) /\ t(x[1])[x[2]] = t(y[1])[y[2]]
      OBVIOUS
    <3>2. x[1] = y[1]
      BY <1>4, <2>1, <3>1
    <3>3. x[2] = y[2]
      BY <1>6, <2>1, <3>1, <3>2
    <3> QED BY <2>1, <3>2, <3>3
  <2>3. image = points
    <3>1. ASSUME NEW y \in places PROVE f[y] \in points
      <4> DEFINE i == y[1]
                 j == y[2]
                 z == <<t(i)[j], v(i)[j]>>
      <4>1. i \in ids /\ j \in DOMAIN t(i)
        BY <2>1
      <4>2. z \in PointsOf(At(keys, i)) /\ z[1] = t(i)[j] /\ z[2] = v(i)[j]
        BY <1>6, <4>1
      <4>3. f[y] = <<meant(i), z[1], z[2]>>
        BY <4>2
      <4> HIDE DEF f, z, i, j
      <4> QED BY Zenon, <1>3, <4>1, <4>2, <4>3
    <3>2. ASSUME NEW x \in points PROVE \E y \in places : f[y] = x
      <4>1. PICK i \in ids : \E z \in PointsOf(At(keys, i)) : x = <<meant(i), z[1], z[2]>>
        BY Zenon, <1>3
      <4>2. PICK z \in PointsOf(At(keys, i)) : x = <<meant(i), z[1], z[2]>>
        BY Zenon, <4>1
      <4>3. PICK j \in DOMAIN t(i) : z = <<t(i)[j], v(i)[j]>>
        BY <1>6
      <4> DEFINE y == <<i, j>>
      <4>4. y \in places
        BY Zenon, <1>5
      <4>5. y[1] = i /\ y[2] = j
        OBVIOUS
      <4> HIDE DEF y
      <4>6. f[y] = <<meant(i), t(i)[j], v(i)[j]>>
        BY <4>4, <4>5
      <4>7. f[y] = x
        BY <4>2, <4>3, <4>6
      <4> QED BY <4>4, <4>7
    <3> HIDE DEF f
    <3> QED BY <3>1, <3>2
  <2>4. Cardinality(image) = Cardinality(places)
    <3> HIDE DEF f
    <3> QED BY <1>8, <2>2, SameSize
  <2> QED BY <2>3, <2>4
<1> QED BY Zenon, <1>1, <1>7, <1>9, PointsAreThese DEF points

\* One value: the set of the values has one member.
LEMMA OneValue ==
  ASSUME NEW lo \in Int, NEW hi \in Int, lo <= hi, NEW v
  PROVE  (\A i \in lo..hi : v[i] = v[hi]) <=> Cardinality({v[i] : i \in lo..hi}) = 1
<1> DEFINE T == {v[i] : i \in lo..hi}
<1>1. hi \in lo..hi
  OBVIOUS
<1>2. ASSUME \A i \in lo..hi : v[i] = v[hi] PROVE Cardinality(T) = 1
  <2>1. T = {v[hi]}
    BY <1>1, <1>2
  <2> QED BY <2>1, FS_Singleton
<1>3. ASSUME Cardinality(T) = 1 PROVE \A i \in lo..hi : v[i] = v[hi]
  <2>1. IsFiniteSet(T)
    <3> DEFINE S == lo..hi
               f == [i \in S |-> v[i]]
    <3>1. IsFiniteSet(S)
      BY FS_Interval
    <3>2. f \in [S -> T] /\ \A y \in T : \E i \in S : f[i] = y
      OBVIOUS
    <3> HIDE DEF S, f, T
    <3>3. f \in Surjection(S, T)
      BY <3>2 DEF Surjection
    <3> QED BY <3>1, <3>3, FS_Surjection
  <2>2. \A i \in lo..hi : v[i] \in T
    OBVIOUS
  <2> HIDE DEF T
  <2>3. \E x : T = {x}
    BY <1>3, <2>1, FS_Singleton
  <2> QED BY <1>1, <2>2, <2>3
<1> QED BY <1>2, <1>3

\* The points of a series between two seconds, as a document shows them.
WindowShown(s, from, to) ==
  LET start == Older(s, from)
      end == Older(s, to + 1)
      times == SubSeq(s.timestamps, start + 1, end)
      values == SubSeq(s.values, start + 1, end)
      seen == {x \in PointsOf(s) : x[1] \in from..to}
  IN  /\ start # end <=> seen # {}
      /\ start # end =>
           /\ \A i, j \in DOMAIN times : i < j => times[i] < times[j]
           /\ {<<times[i], values[i]>> : i \in DOMAIN times} = seen
           /\ ConstantRunEndingAt(s, end) >= end - start <=> Cardinality({x[2] : x \in seen}) = 1

LEMMA WindowIs ==
  ASSUME NEW s, SeriesOK(s), NEW from \in Int, NEW to \in Int, from < to
  PROVE  WindowShown(s, from, to)
<1> DEFINE start == Older(s, from)
           end == Older(s, to + 1)
           t == s.timestamps
           v == s.values
           n == Len(t)
           times == SubSeq(t, start + 1, end)
           values == SubSeq(v, start + 1, end)
           seen == {x \in PointsOf(s) : x[1] \in from..to}
<1>1. /\ t \in Seq(Int) /\ v \in Seq(Int) /\ n \in Nat /\ Len(v) = n /\ DOMAIN t = 1..n /\ DOMAIN v = 1..n
      /\ \A i \in 1..n : t[i] \in Int /\ v[i] \in Int
  BY SeriesFacts
<1>2. \A i, j \in 1..n : i < j => t[i] < t[j]
  BY DEF SeriesOK
<1>3. /\ start \in 0..n /\ \A i \in 1..n : t[i] < from <=> i <= start
      /\ end \in 0..n /\ \A i \in 1..n : t[i] < to + 1 <=> i <= end
  <2>1. to + 1 \in Int
    OBVIOUS
  <2>2. start \in 0..n /\ \A i \in 1..n : t[i] < from <=> i <= start
    BY OlderIs
  <2>3. end \in 0..n /\ \A i \in 1..n : t[i] < to + 1 <=> i <= end
    BY <2>1, OlderIs
  <2> QED BY Zenon, <2>2, <2>3
<1>4. PointsOf(s) = {<<t[j], v[j]>> : j \in 1..n}
  <2>1. PointsOf(s) = {<<t[j], v[j]>> : j \in DOMAIN t}
    BY Zenon DEF PointsOf
  <2> HIDE DEF t, v, n
  <2> QED BY Zenon, <1>1, <2>1
<1>5. end \in 1..n /\ start \in 0..(end - 1) =>
        (ConstantRunEndingAt(s, end) >= end - start <=> \A i \in (start + 1)..end : v[i] = v[end])
  <2> SUFFICES ASSUME end \in 1..n, start \in 0..(end - 1)
               PROVE  ConstantRunEndingAt(s, end) >= end - start <=> \A i \in (start + 1)..end : v[i] = v[end]
    OBVIOUS
  <2> HIDE DEF start, end
  <2> QED BY RunBefore
<1> DEFINE constant == ConstantRunEndingAt(s, end) >= end - start
<1> HIDE DEF start, end, t, v, n, constant
<1>6. start \in Int /\ end \in Int /\ 0 <= start /\ start <= n /\ 0 <= end /\ end <= n
  BY <1>1, <1>3
<1>7. start <= end
  <2> SUFFICES ASSUME end < start PROVE FALSE
    BY <1>6
  <2>1. start \in 1..n
    BY <1>1, <1>6
  <2>2. t[start] < from /\ t[start] \in Int
    BY <1>1, <1>3, <1>6, <2>1
  <2>3. t[start] < to + 1
    BY <2>2
  <2>4. start <= end
    BY <1>3, <2>1, <2>3
  <2> QED BY <1>6, <2>4
<1>8. \A i \in 1..n : t[i] \in from..to <=> i \in (start + 1)..end
  <2> TAKE i \in 1..n
  <2>1. i \in Int /\ t[i] \in Int /\ (t[i] < from <=> i <= start) /\ (t[i] < to + 1 <=> i <= end)
    BY <1>1, <1>3
  <2> QED BY <1>6, <2>1
<1>9. \A i \in (start + 1)..end : i \in 1..n
  BY <1>1, <1>6
<1>10. \A y : y \in seen <=> \E i \in (start + 1)..end : y = <<t[i], v[i]>>
  <2>1. ASSUME NEW y \in seen PROVE \E i \in (start + 1)..end : y = <<t[i], v[i]>>
    <3>1. PICK j \in 1..n : y = <<t[j], v[j]>>
      BY <1>4
    <3>2. y[1] = t[j] /\ y[1] \in from..to
      BY <3>1
    <3>3. j \in (start + 1)..end
      BY <1>8, <3>2
    <3> QED BY <3>1, <3>3
  <2>2. ASSUME NEW i \in (start + 1)..end PROVE <<t[i], v[i]>> \in seen
    <3>1. <<t[i], v[i]>> \in PointsOf(s)
      BY <1>4, <1>9
    <3>2. <<t[i], v[i]>>[1] = t[i]
      OBVIOUS
    <3>3. t[i] \in from..to
      BY <1>8, <1>9
    <3> QED BY <3>1, <3>2, <3>3
  <2> HIDE DEF seen
  <2> QED BY Zenon, <2>1, <2>2
<1> HIDE DEF seen
<1>11. start # end <=> seen # {}
  <2>1. start # end => start + 1 \in (start + 1)..end
    BY <1>6, <1>7
  <2>2. start = end => (start + 1)..end = {}
    BY <1>6
  <2> QED BY <1>10, <2>1, <2>2
<1> DEFINE m == end - start
<1>12. ASSUME start # end
       PROVE  /\ m \in Nat /\ start + 1 <= end
              /\ times \in Seq(Int) /\ Len(times) = m /\ \A i \in 1..m : times[i] = t[start + i]
              /\ values \in Seq(Int) /\ Len(values) = m /\ \A i \in 1..m : values[i] = v[start + i]
              /\ \A i \in 1..m : start + i \in (start + 1)..end
              /\ \A i \in (start + 1)..end : i - start \in 1..m /\ start + (i - start) = i
  <2>1. start + 1 \in Int /\ \A i \in (start + 1)..end : t[i] \in Int /\ v[i] \in Int
    BY <1>1, <1>6, <1>9
  <2>2. /\ times \in Seq(Int) /\ Len(times) = IF start + 1 <= end THEN end - (start + 1) + 1 ELSE 0
        /\ \A i \in 1..(end - (start + 1) + 1) : times[i] = t[(start + 1) + i - 1]
    BY <1>6, <2>1, SubSeqProperties
  <2>3. /\ values \in Seq(Int) /\ Len(values) = IF start + 1 <= end THEN end - (start + 1) + 1 ELSE 0
        /\ \A i \in 1..(end - (start + 1) + 1) : values[i] = v[(start + 1) + i - 1]
    BY <1>6, <2>1, SubSeqProperties
  <2>4. start + 1 <= end /\ end - (start + 1) + 1 = m /\ \A i \in 1..m : (start + 1) + i - 1 = start + i
    BY <1>6, <1>7, <1>12
  <2>5. /\ m \in Nat
        /\ \A i \in 1..m : start + i \in (start + 1)..end
        /\ \A i \in (start + 1)..end : i - start \in 1..m /\ start + (i - start) = i
    BY <1>6, <1>7
  <2> HIDE DEF m, times, values
  <2> QED BY <2>2, <2>3, <2>4, <2>5
<1> HIDE DEF times, values, m
<1>13. ASSUME start # end PROVE \A i, j \in DOMAIN times : i < j => times[i] < times[j]
  <2> SUFFICES ASSUME NEW i \in 1..m, NEW j \in 1..m, i < j PROVE times[i] < times[j]
    BY <1>12, <1>13
  <2>1. start + i < start + j /\ start + i \in 1..n /\ start + j \in 1..n
    BY <1>6, <1>9, <1>12, <1>13
  <2> QED BY <1>2, <1>12, <1>13, <2>1
<1>14. ASSUME start # end PROVE {<<times[i], values[i]>> : i \in DOMAIN times} = seen
  <2> DEFINE T == {<<times[i], values[i]>> : i \in DOMAIN times}
  <2>1. DOMAIN times = 1..m
    BY <1>12, <1>14
  <2>2. ASSUME NEW y \in T PROVE y \in seen
    <3>1. PICK i \in 1..m : y = <<times[i], values[i]>>
      BY <2>1
    <3>2. y = <<t[start + i], v[start + i]>> /\ start + i \in (start + 1)..end
      BY <1>12, <1>14, <3>1
    <3> QED BY Zenon, <1>10, <3>2
  <2>3. ASSUME NEW y \in seen PROVE y \in T
    <3>1. PICK i \in (start + 1)..end : y = <<t[i], v[i]>>
      BY Zenon, <1>10
    <3>2. i - start \in 1..m /\ times[i - start] = t[i] /\ values[i - start] = v[i]
      BY <1>12, <1>14
    <3>3. y = <<times[i - start], values[i - start]>>
      BY <3>1, <3>2
    <3> QED BY <2>1, <3>2, <3>3
  <2> HIDE DEF T
  <2>4. T = seen
    BY <2>2, <2>3
  <2> QED BY <2>4 DEF T
<1>15. ASSUME start # end PROVE constant <=> Cardinality({x[2] : x \in seen}) = 1
  <2>1. start + 1 <= end /\ start + 1 \in Int /\ end \in Int
    BY <1>6, <1>12, <1>15
  <2>2. end \in 1..n /\ start \in 0..(end - 1)
    BY <1>1, <1>6, <2>1
  <2>3. constant <=> \A i \in (start + 1)..end : v[i] = v[end]
    BY Zenon, <1>5, <2>2 DEF constant
  <2>4. {x[2] : x \in seen} = {v[i] : i \in (start + 1)..end}
    <3>1. ASSUME NEW x \in seen PROVE \E i \in (start + 1)..end : x[2] = v[i]
      <4>1. PICK i \in (start + 1)..end : x = <<t[i], v[i]>>
        BY Zenon, <1>10
      <4> QED BY <4>1
    <3>2. ASSUME NEW i \in (start + 1)..end PROVE \E x \in seen : x[2] = v[i]
      <4>1. <<t[i], v[i]>> \in seen /\ <<t[i], v[i]>>[2] = v[i]
        BY <1>10
      <4> QED BY Zenon, <4>1
    <3> QED BY <3>1, <3>2
  <2>5. (\A i \in (start + 1)..end : v[i] = v[end]) <=> Cardinality({v[i] : i \in (start + 1)..end}) = 1
    BY <2>1, OneValue
  <2> QED BY Zenon, <2>3, <2>4, <2>5
<1> QED BY Zenon, <1>11, <1>13, <1>14, <1>15 DEF start, end, times, values, seen, t, v, constant, WindowShown

\* What a document shows of a series.
SeriesShown(i, from, to) ==
  LET s == At(keys, i)
      start == Older(s, from)
      end == Older(s, to + 1)
  IN  [labels |-> Labels(dict, i[3]),
       timestamps |-> SubSeq(s.timestamps, start + 1, end),
       values |-> SubSeq(s.values, start + 1, end),
       constant |-> ConstantRunEndingAt(s, end) >= end - start]

EntriesOf(key, from, to) == UNION {{<<m.name, m.help, s>> : s \in m.series} : m \in Document(key, from, to)}

LEMMA EntriesAre ==
  ASSUME StoreInv, NEW key, NEW from, NEW to, \E i \in SeriesIds(keys) : Lookup(dict, i[1]) = key
  PROVE  \A x : x \in EntriesOf(key, from, to) <=>
           \E i \in SeriesIds(keys) :
             /\ Lookup(dict, i[1]) = key /\ Older(At(keys, i), from) # Older(At(keys, i), to + 1)
             /\ x = <<Lookup(dict, i[2]), Lookup(dict, DescId(StoreNow, i[2])), SeriesShown(i, from, to)>>
<1> DEFINE ids == SeriesIds(keys)
           k == Id(dict, key)
           Has(s) == Older(s, from) # Older(s, to + 1)
           Help(n) == Lookup(dict, IF n \in DOMAIN descs THEN descs[n] ELSE 0)
           One(p, s) ==
             LET start == Older(s, from)
                 end == Older(s, to + 1)
             IN  IF start = end THEN {}
                 ELSE {[labels |-> Labels(dict, p),
                        timestamps |-> SubSeq(s.timestamps, start + 1, end),
                        values |-> SubSeq(s.values, start + 1, end),
                        constant |-> ConstantRunEndingAt(s, end) >= end - start]}
           All(n) == UNION {One(p, keys[k][n][p]) : p \in DOMAIN keys[k][n]}
           M(n) == [name |-> Lookup(dict, n), series |-> All(n), help |-> Help(n)]
           some == {n \in DOMAIN keys[k] : All(n) # {}}
           document == Document(key, from, to)
<1>1. document = IF ~ Contains(dict, key) \/ k \notin DOMAIN keys THEN {} ELSE {M(n) : n \in some}
  BY Zenon DEF Document
<1>2. dict \in Dicts /\ \A i \in ids : IdOK(dict, i)
  BY DEF StoreInv, StateOK, StoreNow, SeriesAllOK
<1>3. \A i : i \in ids <=>
        /\ i = <<i[1], i[2], i[3]>> /\ i[1] \in DOMAIN keys
        /\ i[2] \in DOMAIN keys[i[1]] /\ i[3] \in DOMAIN keys[i[1]][i[2]]
  BY IdsOfTree
<1> HIDE DEF ids
<1>4. \A i \in ids : i[1] \in 1..Len(dict) /\ Id(dict, Lookup(dict, i[1])) = i[1]
  <2> TAKE i \in ids
  <2>1. i[1] \in 1..Len(dict)
    BY <1>2 DEF IdOK
  <2>2. i[1] \in 0..Len(dict)
    <3> DEFINE len == Len(dict)
    <3>1. len \in Nat /\ i[1] \in 1..len
      BY <1>2, <2>1 DEF Dicts
    <3> HIDE DEF len
    <3>2. i[1] \in 0..len
      BY <3>1
    <3> QED BY <3>2 DEF len
  <2> QED BY <1>2, <2>1, <2>2, LookupIs
<1>5. PICK first \in ids : Lookup(dict, first[1]) = key
  BY DEF ids
<1>6. Contains(dict, key) /\ k \in DOMAIN keys /\ Lookup(dict, k) = key
  <2>1. first[1] \in 1..Len(dict) /\ first[1] = k
    BY <1>4, <1>5
  <2>2. first[1] \in DOMAIN keys
    BY Zenon, <1>3
  <2>3. first[1] \in DOMAIN dict
    BY <1>2, <2>1 DEF Dicts
  <2>4. dict[first[1]] = key
    BY <1>5, <2>3 DEF Lookup
  <2>5. \E i \in 1..Len(dict) : dict[i] = key
    BY <2>1, <2>4
  <2> QED BY <1>5, <2>1, <2>2, <2>5 DEF Contains
<1>7. document = {M(n) : n \in some}
  BY Zenon, <1>1, <1>6
<1>8. \A n, x : x \in All(n) <=> \E p \in DOMAIN keys[k][n] : x \in One(p, keys[k][n][p])
  <2> HIDE DEF One
  <2> QED OBVIOUS
<1>9. \A n, p, x : x \in One(p, keys[k][n][p]) <=> Has(At(keys, <<k, n, p>>)) /\ x = SeriesShown(<<k, n, p>>, from, to)
  <2> TAKE n, p, x
  <2> DEFINE s == keys[k][n][p]
             i == <<k, n, p>>
             shown == SeriesShown(i, from, to)
  <2>1. At(keys, i) = s /\ i[3] = p
    BY DEF At
  <2>2. shown = [labels |-> Labels(dict, p),
                 timestamps |-> SubSeq(s.timestamps, Older(s, from) + 1, Older(s, to + 1)),
                 values |-> SubSeq(s.values, Older(s, from) + 1, Older(s, to + 1)),
                 constant |-> ConstantRunEndingAt(s, Older(s, to + 1)) >= Older(s, to + 1) - Older(s, from)]
    <3> HIDE DEF i, s
    <3> QED BY Zenon, <2>1 DEF SeriesShown
  <2> HIDE DEF i, shown
  <2>3. One(p, s) = IF Older(s, from) = Older(s, to + 1) THEN {} ELSE {shown}
    BY Zenon, <2>2
  <2> HIDE DEF One, s
  <2>4. x \in One(p, s) <=> Older(s, from) # Older(s, to + 1) /\ x = shown
    BY <2>3
  <2> QED BY Zenon, <2>1, <2>4 DEF s, i, shown
<1> HIDE DEF One, All
<1>10. \A x : x \in EntriesOf(key, from, to) <=>
         \E n \in DOMAIN keys[k] : \E s \in All(n) : x = <<Lookup(dict, n), Help(n), s>>
  <2> DEFINE Of(m) == {<<m.name, m.help, s>> : s \in m.series}
  <2>1. EntriesOf(key, from, to) = UNION {Of(m) : m \in document}
    BY Zenon DEF EntriesOf
  <2>2. \A n : M(n).name = Lookup(dict, n) /\ M(n).help = Help(n) /\ M(n).series = All(n)
    <3> HIDE DEF Help
    <3> QED OBVIOUS
  <2> HIDE DEF M, Help, document
  <2>3. \A m, x : x \in Of(m) <=> \E s \in m.series : x = <<m.name, m.help, s>>
    OBVIOUS
  <2> HIDE DEF Of
  <2>4. \A x : x \in EntriesOf(key, from, to) <=> \E n \in some : x \in Of(M(n))
    <3> HIDE DEF some
    <3> QED BY <1>7, <2>1
  <2>5. \A n, x : x \in Of(M(n)) <=> \E s \in All(n) : x = <<Lookup(dict, n), Help(n), s>>
    BY Zenon, <2>2, <2>3
  <2>6. \A n : n \in some <=> n \in DOMAIN keys[k] /\ All(n) # {}
    OBVIOUS
  <2>7. \A n : \A s \in All(n) : All(n) # {}
    OBVIOUS
  <2> HIDE DEF some
  <2> QED BY Zenon, <2>4, <2>5, <2>6, <2>7
<1>11. \A n : Help(n) = Lookup(dict, DescId(StoreNow, n))
  <2>1. StoreNow.descs = descs
    BY DEF StoreNow
  <2> HIDE DEF StoreNow
  <2> QED BY Zenon, <2>1 DEF DescId
<1> HIDE DEF Help, Has, document, some
<1> DEFINE Shown(i) == <<Lookup(dict, i[2]), Lookup(dict, DescId(StoreNow, i[2])), SeriesShown(i, from, to)>>
<1>12. ASSUME NEW x, x \in EntriesOf(key, from, to)
       PROVE  \E i \in ids : Lookup(dict, i[1]) = key /\ Has(At(keys, i)) /\ x = Shown(i)
  <2>1. PICK n \in DOMAIN keys[k] : \E s \in All(n) : x = <<Lookup(dict, n), Help(n), s>>
    BY Zenon, <1>10, <1>12
  <2>2. PICK s \in All(n) : x = <<Lookup(dict, n), Help(n), s>>
    BY Zenon, <2>1
  <2>3. PICK p \in DOMAIN keys[k][n] : s \in One(p, keys[k][n][p])
    BY Zenon, <1>8
  <2> DEFINE i == <<k, n, p>>
  <2>4. i[1] = k /\ i[2] = n /\ i[3] = p /\ i = <<i[1], i[2], i[3]>>
    OBVIOUS
  <2>5. Has(At(keys, i)) /\ s = SeriesShown(i, from, to)
    BY Zenon, <1>9, <2>3
  <2> HIDE DEF i
  <2>6. i \in ids
    BY <1>3, <1>6, <2>4
  <2>7. x = Shown(i)
    BY Zenon, <1>11, <2>2, <2>4, <2>5
  <2> QED BY Zenon, <1>6, <2>4, <2>5, <2>6, <2>7
<1>13. ASSUME NEW i \in ids, Lookup(dict, i[1]) = key, Has(At(keys, i)) PROVE Shown(i) \in EntriesOf(key, from, to)
  <2>1. i[1] = k /\ i = <<k, i[2], i[3]>>
    <3>1. i[1] = k
      BY <1>4, <1>13
    <3> QED BY Zenon, <1>3, <3>1
  <2>2. i[2] \in DOMAIN keys[k] /\ i[3] \in DOMAIN keys[k][i[2]]
    BY Zenon, <1>3, <2>1
  <2>3. SeriesShown(i, from, to) \in One(i[3], keys[k][i[2]][i[3]])
    BY Zenon, <1>9, <1>13, <2>1
  <2>4. SeriesShown(i, from, to) \in All(i[2])
    BY Zenon, <1>8, <2>2, <2>3
  <2> QED BY Zenon, <1>10, <1>11, <2>2, <2>4
<1> QED BY Zenon, <1>12, <1>13 DEF ids, Has

\* The points of one series between two seconds.
WindowOf(points, s, from, to) == {<<x[2], x[3]>> : x \in {x \in points : x[1] = s /\ x[2] \in from..to}}

LEMMA WindowIsOfSeries ==
  ASSUME StoreInv, NEW i \in SeriesIds(keys), NEW from, NEW to
  PROVE  WindowOf(Points, MeantIn(dict, i), from, to) = {x \in PointsOf(At(keys, i)) : x[1] \in from..to}
<1> DEFINE ids == SeriesIds(keys)
           m == MeantIn(dict, i)
           Near == from..to
           some == {x \in Points : x[1] = m /\ x[2] \in Near}
           seen == {x \in PointsOf(At(keys, i)) : x[1] \in Near}
           window == {<<x[2], x[3]>> : x \in some}
<1>1. \A y : y \in Points <=> \E j \in ids : \E x \in PointsOf(At(keys, j)) : y = <<MeantIn(dict, j), x[1], x[2]>>
  <2>1. Points = PointsIn(dict, keys)
    BY PointsAreThese DEF StatePoints, StoreNow
  <2>2. \A y : y \in PointsIn(dict, keys) <=>
          \E j \in ids : \E x \in PointsOf(At(keys, j)) : y = <<MeantIn(dict, j), x[1], x[2]>>
    BY PointsAre
  <2> QED BY Zenon, <2>1, <2>2
<1>2. dict \in Dicts /\ \A j \in ids : IdOK(dict, j) /\ SeriesOK(At(keys, j))
  BY DEF StoreInv, StateOK, StoreNow, SeriesAllOK
<1>3. \A j \in ids : MeantIn(dict, j) = m => j = i
  BY <1>2, MeantOnce
<1>4. \A x \in PointsOf(At(keys, i)) : x = <<x[1], x[2]>>
  BY DEF PointsOf
<1> HIDE DEF ids, m, Near
<1>5. ASSUME NEW w \in window PROVE w \in seen
  <2>1. PICK y \in some : w = <<y[2], y[3]>>
    OBVIOUS
  <2>2. y \in Points /\ y[1] = m /\ y[2] \in Near
    OBVIOUS
  <2>3. PICK j \in ids : \E x \in PointsOf(At(keys, j)) : y = <<MeantIn(dict, j), x[1], x[2]>>
    BY Zenon, <1>1, <2>2
  <2>4. PICK x \in PointsOf(At(keys, j)) : y = <<MeantIn(dict, j), x[1], x[2]>>
    BY Zenon, <2>3
  <2>5. y[1] = MeantIn(dict, j) /\ y[2] = x[1] /\ y[3] = x[2]
    BY <2>4
  <2>6. j = i
    BY <1>3, <2>2, <2>5
  <2>7. w = x
    BY <1>4, <2>1, <2>5, <2>6
  <2> QED BY <2>2, <2>5, <2>6, <2>7
<1>6. ASSUME NEW w \in seen PROVE w \in window
  <2>1. w \in PointsOf(At(keys, i)) /\ w[1] \in Near /\ w = <<w[1], w[2]>>
    BY <1>4
  <2> DEFINE y == <<m, w[1], w[2]>>
  <2>2. y \in Points
    BY Zenon, <1>1, <2>1 DEF ids, m
  <2>3. y[1] = m /\ y[2] = w[1] /\ y[3] = w[2]
    OBVIOUS
  <2> HIDE DEF y
  <2>4. y \in some
    BY <2>1, <2>2, <2>3
  <2> HIDE DEF some
  <2> QED BY <2>1, <2>3, <2>4
<1>7. window = seen
  <2> HIDE DEF window, seen
  <2> QED BY <1>5, <1>6
<1> QED BY Zenon, <1>7 DEF WindowOf, window, seen, some, m, Near

LEMMA DescribedIs ==
  ASSUME StoreInv, NEW i \in SeriesIds(keys)
  PROVE  Described[Lookup(dict, i[2])] = Lookup(dict, DescId(StoreNow, i[2]))
<1> DEFINE name == Lookup(dict, i[2])
           names == {Lookup(dict, n) : n \in UNION {DOMAIN keys[k] : k \in DOMAIN keys}}
           of(u) == Lookup(dict, IF Id(dict, u) \in DOMAIN descs THEN descs[Id(dict, u)] ELSE 0)
<1>1. Described = [u \in names |-> of(u)]
  BY Zenon DEF Described
<1>2. i[1] \in DOMAIN keys /\ i[2] \in DOMAIN keys[i[1]]
  BY IdsOfTree
<1>3. name \in names
  BY <1>2
<1>4. Id(dict, name) = i[2]
  <2>1. dict \in Dicts /\ i[2] \in 0..Len(dict)
    BY DEF StoreInv, StateOK, StoreNow, SeriesAllOK, IdOK
  <2> QED BY <2>1, LookupIs
<1>5. Described[name] = of(name)
  <2> HIDE DEF names, of, name
  <2> QED BY <1>1, <1>3
<1>6. of(name) = Lookup(dict, DescId(StoreNow, i[2]))
  <2>1. StoreNow.descs = descs
    BY DEF StoreNow
  <2> HIDE DEF StoreNow, name
  <2> QED BY Zenon, <1>4, <2>1 DEF DescId
<1> HIDE DEF of
<1>7. Described[name] = Lookup(dict, DescId(StoreNow, i[2]))
  BY Zenon, <1>5, <1>6
<1> QED BY Zenon, <1>7 DEF name

\* An entry of a document is of a series.
EntryOf(x, s, from, to) ==
  LET times == x[3].timestamps
  IN  /\ x[1] = s[2] /\ x[2] = Described[s[2]] /\ x[3].labels = s[3]
      /\ \A i, j \in DOMAIN times : i < j => times[i] < times[j]
      /\ {<<times[i], x[3].values[i]>> : i \in DOMAIN times} = WindowOf(Points, s, from, to)
      /\ x[3].constant <=> Cardinality({point[2] : point \in WindowOf(Points, s, from, to)}) = 1

LEMMA EntryIsRight ==
  ASSUME StoreInv, NEW i \in SeriesIds(keys), NEW from \in Int, NEW to \in Int, from < to
  PROVE  LET s == MeantIn(dict, i)
             x == <<Lookup(dict, i[2]), Lookup(dict, DescId(StoreNow, i[2])), SeriesShown(i, from, to)>>
             has == Older(At(keys, i), from) # Older(At(keys, i), to + 1)
         IN  /\ has <=> WindowOf(Points, s, from, to) # {}
             /\ has => EntryOf(x, s, from, to)
<1> DEFINE s == MeantIn(dict, i)
           a == At(keys, i)
           start == Older(a, from)
           end == Older(a, to + 1)
           times == SubSeq(a.timestamps, start + 1, end)
           values == SubSeq(a.values, start + 1, end)
           constant == ConstantRunEndingAt(a, end) >= end - start
           seen == {x \in PointsOf(a) : x[1] \in from..to}
           name == Lookup(dict, i[2])
           help == Lookup(dict, DescId(StoreNow, i[2]))
           shown == SeriesShown(i, from, to)
           x == <<name, help, shown>>
<1>1. SeriesOK(a)
  BY DEF StoreInv, StateOK, StoreNow, SeriesAllOK
<1>2. /\ start # end <=> seen # {}
      /\ start # end =>
           /\ \A j, h \in DOMAIN times : j < h => times[j] < times[h]
           /\ {<<times[j], values[j]>> : j \in DOMAIN times} = seen
           /\ constant <=> Cardinality({y[2] : y \in seen}) = 1
  <2>1. WindowShown(a, from, to)
    <3> HIDE DEF a
    <3> QED BY <1>1, WindowIs
  <2> QED BY Zenon, <2>1 DEF WindowShown
<1>3. WindowOf(Points, s, from, to) = seen
  BY WindowIsOfSeries
<1>4. s[2] = name /\ s[3] = Labels(dict, i[3])
  BY DEF MeantIn
<1>5. Described[name] = help
  BY DescribedIs
<1>6. shown = [labels |-> Labels(dict, i[3]), timestamps |-> times, values |-> values, constant |-> constant]
  BY Zenon DEF SeriesShown
<1> HIDE DEF s, seen, times, values, constant, name, help, shown, a, start, end
<1>7. shown.labels = Labels(dict, i[3]) /\ shown.timestamps = times /\ shown.values = values /\ shown.constant = constant
  BY <1>6
<1>8. x[1] = name /\ x[2] = help /\ x[3] = shown
  OBVIOUS
<1> HIDE DEF x
<1>9. ASSUME start # end PROVE EntryOf(x, s, from, to)
  <2>1. /\ \A j, h \in DOMAIN times : j < h => times[j] < times[h]
        /\ {<<times[j], values[j]>> : j \in DOMAIN times} = seen
        /\ constant <=> Cardinality({y[2] : y \in seen}) = 1
    BY Zenon, <1>2, <1>9
  <2>2. x[1] = s[2] /\ x[2] = Described[s[2]] /\ x[3].labels = s[3]
    BY Zenon, <1>4, <1>5, <1>7, <1>8
  <2>3. x[3].timestamps = times /\ x[3].values = values /\ x[3].constant = constant
    BY Zenon, <1>7, <1>8
  <2> QED BY Zenon, <1>3, <2>1, <2>2, <2>3 DEF EntryOf
<1>10. start # end <=> WindowOf(Points, s, from, to) # {}
  BY Zenon, <1>2, <1>3
<1> QED BY Zenon, <1>9, <1>10 DEF x, s, a, start, end, name, help, shown

LEMMA DocumentIsRight ==
  ASSUME StoreInv, NEW key, NEW y \in Points, key = y[1][1], NEW from \in Int, NEW to \in Int, from < to
  PROVE  LET entries == EntriesOf(key, from, to)
             due == {s \in {x[1] : x \in Points} : s[1] = key /\ WindowOf(Points, s, from, to) # {}}
         IN  /\ \A x \in entries : \E s \in due : EntryOf(x, s, from, to)
             /\ \A s \in due : \E x \in entries : EntryOf(x, s, from, to)
<1> DEFINE ids == SeriesIds(keys)
           Has(i) == Older(At(keys, i), from) # Older(At(keys, i), to + 1)
           Shown(i) == <<Lookup(dict, i[2]), Lookup(dict, DescId(StoreNow, i[2])), SeriesShown(i, from, to)>>
           entries == EntriesOf(key, from, to)
           Window(s) == WindowOf(Points, s, from, to)
           due == {s \in {x[1] : x \in Points} : s[1] = key /\ Window(s) # {}}
           Of(i) == MeantIn(dict, i)
<1>1. \A x : x \in Points <=> \E j \in ids : \E z \in PointsOf(At(keys, j)) : x = <<Of(j), z[1], z[2]>>
  <2>1. Points = PointsIn(dict, keys)
    BY PointsAreThese DEF StatePoints, StoreNow
  <2>2. \A x : x \in PointsIn(dict, keys) <=>
          \E j \in ids : \E z \in PointsOf(At(keys, j)) : x = <<Of(j), z[1], z[2]>>
    BY PointsAre
  <2> QED BY Zenon, <2>1, <2>2
<1>2. \A i : Of(i)[1] = Lookup(dict, i[1])
  BY DEF MeantIn
<1>3. \A i \in ids : (Has(i) <=> Window(Of(i)) # {}) /\ (Has(i) => EntryOf(Shown(i), Of(i), from, to))
  BY EntryIsRight
<1>4. \A x \in Points : \E i \in ids : x[1] = Of(i)
  <2> TAKE x \in Points
  <2>1. PICK i \in ids : \E z \in PointsOf(At(keys, i)) : x = <<Of(i), z[1], z[2]>>
    BY Zenon, <1>1
  <2>2. x[1] = Of(i)
    BY <2>1
  <2> QED BY <2>2
<1>5. \E i \in ids : Lookup(dict, i[1]) = key
  <2>1. PICK i \in ids : y[1] = Of(i)
    BY Zenon, <1>4
  <2> QED BY <1>2, <2>1
<1>6. \A x : x \in entries <=> \E i \in ids : Lookup(dict, i[1]) = key /\ Has(i) /\ x = Shown(i)
  BY <1>5, EntriesAre
<1>7. \A i \in ids : Has(i) => \E x \in Points : x[1] = Of(i)
  <2> TAKE i \in ids
  <2> SUFFICES ASSUME Has(i) PROVE \E x \in Points : x[1] = Of(i)
    OBVIOUS
  <2>1. PICK w : w \in Window(Of(i))
    BY Zenon, <1>3
  <2> HIDE DEF Of
  <2>2. PICK x \in {x \in Points : x[1] = Of(i) /\ x[2] \in from..to} : w = <<x[2], x[3]>>
    BY Zenon, <2>1 DEF WindowOf
  <2> QED BY <2>2
<1> HIDE DEF ids, Has, Shown, entries, Window, Of
<1>8. \A s : s \in due <=> (\E x \in Points : x[1] = s) /\ s[1] = key /\ Window(s) # {}
  OBVIOUS
<1> HIDE DEF due
<1>9. ASSUME NEW x \in entries PROVE \E s \in due : EntryOf(x, s, from, to)
  <2>1. PICK i \in ids : Lookup(dict, i[1]) = key /\ Has(i) /\ x = Shown(i)
    BY Zenon, <1>6
  <2>2. Of(i) \in due
    BY Zenon, <1>2, <1>3, <1>7, <1>8, <2>1
  <2> QED BY Zenon, <1>3, <2>1, <2>2
<1>10. ASSUME NEW s \in due PROVE \E x \in entries : EntryOf(x, s, from, to)
  <2>0. PICK x \in Points : x[1] = s
    BY Zenon, <1>8
  <2>1. PICK i \in ids : s = Of(i)
    BY Zenon, <1>4, <2>0
  <2>2. Lookup(dict, i[1]) = key /\ Has(i)
    BY Zenon, <1>2, <1>3, <1>8, <2>1
  <2>3. Shown(i) \in entries /\ EntryOf(Shown(i), s, from, to)
    BY Zenon, <1>3, <1>6, <2>1, <2>2
  <2> QED BY Zenon, <2>3
<1> QED BY Zenon, <1>9, <1>10 DEF entries, due, Window

\* What the store keeps is well formed, and its documents and statistics say what it
\* keeps, whatever calls and reads there were.
THEOREM DocumentsTellWhatWasMeasured == Spec => []StoreIsRight
<1>1. StoreInv => DocumentsAreRight
  <2> SUFFICES ASSUME StoreInv PROVE DocumentsAreRight
    OBVIOUS
  <2> DEFINE points == Points
             described == Described
             shown(key, from, to) == UNION {{<<m.name, m.help, s>> : s \in m.series} : m \in Document(key, from, to)}
             window(s, from, to) == {<<x[2], x[3]>> : x \in {x \in points : x[1] = s /\ x[2] \in from..to}}
             due(key, from, to) == {s \in {x[1] : x \in points} : s[1] = key /\ window(s, from, to) # {}}
             isOf(x, s, from, to) ==
               LET times == x[3].timestamps
               IN  /\ x[1] = s[2] /\ x[2] = described[s[2]] /\ x[3].labels = s[3]
                   /\ \A i, j \in DOMAIN times : i < j => times[i] < times[j]
                   /\ {<<times[i], x[3].values[i]>> : i \in DOMAIN times} = window(s, from, to)
                   /\ x[3].constant <=> Cardinality({point[2] : point \in window(s, from, to)}) = 1
  <2>1. \A s, from, to : window(s, from, to) = WindowOf(Points, s, from, to)
    BY Zenon DEF WindowOf
  <2>2. \A x, s, from, to : isOf(x, s, from, to) <=> EntryOf(x, s, from, to)
    BY Zenon DEF EntryOf, WindowOf
  <2>3. \A key, from, to : shown(key, from, to) = EntriesOf(key, from, to)
    BY Zenon DEF EntriesOf
  <2>4. \A t \in Times : t \in Int
    BY ExposedAssumption
  <2>5. ASSUME NEW key \in {x[1][1] : x \in points}, NEW to \in Times, NEW from \in {t \in Times : t < to}
        PROVE  /\ \A x \in shown(key, from, to) : \E s \in due(key, from, to) : isOf(x, s, from, to)
               /\ \A s \in due(key, from, to) : \E x \in shown(key, from, to) : isOf(x, s, from, to)
    <3>1. PICK y \in Points : key = y[1][1]
      OBVIOUS
    <3>2. from \in Int /\ to \in Int /\ from < to
      BY <2>4
    <3> DEFINE owed == {s \in {x[1] : x \in Points} : s[1] = key /\ WindowOf(Points, s, from, to) # {}}
    <3>3. /\ \A x \in EntriesOf(key, from, to) : \E s \in owed : EntryOf(x, s, from, to)
          /\ \A s \in owed : \E x \in EntriesOf(key, from, to) : EntryOf(x, s, from, to)
      BY <3>1, <3>2, DocumentIsRight
    <3>4. due(key, from, to) = owed
      BY Zenon DEF WindowOf
    <3> HIDE DEF owed, due, shown, isOf
    <3> QED BY Zenon, <2>2, <2>3, <3>3, <3>4
  <2>6. MetricsStats.series = Cardinality({x[1] : x \in points}) /\ MetricsStats.points = Cardinality(points)
    BY CountsAreRight
  <2> HIDE DEF isOf, due, shown
  <2>7. \A key \in {x[1][1] : x \in points} : \A to \in Times : \A from \in {t \in Times : t < to} :
          LET entries == shown(key, from, to)
          IN  /\ \A x \in entries : \E s \in due(key, from, to) : isOf(x, s, from, to)
              /\ \A s \in due(key, from, to) : \E x \in entries : isOf(x, s, from, to)
    BY Zenon, <2>5
  <2> QED BY Zenon, <2>6, <2>7 DEF DocumentsAreRight, shown, due, isOf
<1>2. StoreInv => StoreIsRight
  BY <1>1, StoreTyped DEF StoreIsRight
<1> QED BY <1>2, StoreInvHolds, PTL

-----------------------------------------------------------------------------
(* The store implements SeriesStore.                                        *)

\* What both modules take from the community modules is the same.
LEMMA SameSizes ==
  ASSUME NEW S
  PROVE  SeriesStore!Cardinality(S) = Cardinality(S)
BY Zenon DEF SeriesStore!Cardinality, Cardinality

LEMMA SameLeast ==
  ASSUME NEW S
  PROVE  SeriesStore!Min(S) = Min(S)
BY Zenon DEF SeriesStore!Min, Min

LEMMA SameRestriction ==
  ASSUME NEW f, NEW S
  PROVE  SeriesStore!Restrict(f, S) = Restrict(f, S)
BY Zenon DEF SeriesStore!Restrict, Restrict

\* Points are triples of a series, a second and a value, a series one of its key, metric and labels.
PointsKind(points) ==
  \A y \in points : /\ y = <<y[1], y[2], y[3]>> /\ y[1] = <<y[1][1], y[1][2], y[1][3]>>
                    /\ y[2] \in Int /\ y[3] \in Int

LEMMA PointsAreTriples ==
  ASSUME NEW state, StateOK(state)
  PROVE  PointsKind(StatePoints(state))
<1> DEFINE d == state.dict
           tree == state.keys
<1>1. SeriesAllOK(d, tree)
  BY DEF StateOK
<1> HIDE DEF d, tree
<1>2. ASSUME NEW y \in PointsIn(d, tree)
      PROVE  /\ y = <<y[1], y[2], y[3]>> /\ y[1] = <<y[1][1], y[1][2], y[1][3]>>
             /\ y[2] \in Int /\ y[3] \in Int
  <2>1. PICK i \in SeriesIds(tree) : \E x \in PointsOf(At(tree, i)) : y = <<MeantIn(d, i), x[1], x[2]>>
    BY PointsAre
  <2>2. PICK x \in PointsOf(At(tree, i)) : y = <<MeantIn(d, i), x[1], x[2]>>
    BY <2>1
  <2>3. SeriesOK(At(tree, i))
    BY <1>1 DEF SeriesAllOK
  <2> DEFINE s == At(tree, i)
  <2>4. PICK j \in 1..Len(s.timestamps) : x = <<s.timestamps[j], s.values[j]>>
    BY <2>3, SeriesFacts DEF PointsOf
  <2>5. s.timestamps[j] \in Int /\ s.values[j] \in Int
    BY <2>3, SeriesFacts
  <2> HIDE DEF s
  <2>6. x[1] \in Int /\ x[2] \in Int
    BY <2>4, <2>5
  <2>7. MeantIn(d, i) = <<MeantIn(d, i)[1], MeantIn(d, i)[2], MeantIn(d, i)[3]>>
    BY DEF MeantIn
  <2>8. y[1] = MeantIn(d, i) /\ y[2] = x[1] /\ y[3] = x[2] /\ y = <<y[1], y[2], y[3]>>
    BY <2>2
  <2> QED BY <2>6, <2>7, <2>8
<1> QED BY <1>2 DEF PointsKind, StatePoints, d, tree

\* What SeriesStore says of a call, in the words used here.
SeriesOf(call, i) == <<call.key, call.samples[i].name, LabelsOf(call.samples[i])>>

LEMMA SameWords ==
  ASSUME NEW call
  PROVE  /\ \A sample : SeriesStore!LabelsOf(sample) = LabelsOf(sample)
         /\ \A name : SeriesStore!Of(call, name) = Finites(call, name)
         /\ \A name : name \in SeriesStore!Names(call) <=> Finites(call, name) # {}
<1>1. \A sample : SeriesStore!LabelsOf(sample) = LabelsOf(sample)
  BY SameRestriction DEF SeriesStore!LabelsOf, LabelsOf
<1>2. \A name : SeriesStore!Of(call, name) = Finites(call, name)
  BY Zenon DEF SeriesStore!Of, Finites
<1>3. ASSUME NEW name PROVE name \in SeriesStore!Names(call) <=> Finites(call, name) # {}
  <2>1. name \in SeriesStore!Names(call) <=>
          name \in {call.samples[i].name : i \in DOMAIN call.samples} /\ SeriesStore!Of(call, name) # {}
    BY DEF SeriesStore!Names
  <2>2. SeriesStore!Of(call, name) # {} => name \in {call.samples[i].name : i \in DOMAIN call.samples}
    BY DEF SeriesStore!Of
  <2> QED BY <1>2, <2>1, <2>2
<1> QED BY <1>1, <1>2, <1>3

\* A series has a point that is later than a call.
Late(points, at, s) == \E x \in points : x[1] = s /\ x[2] > at

\* A call with these samples has a say about a series.
SaysOf(points, call, some, s) == (\E i \in some : SeriesOf(call, i) = s) /\ ~Late(points, call.at, s)

\* This is what it says: the smallest of what it says of one series counts.
Says(call, some, y) ==
  \E i \in some :
    /\ y = <<SeriesOf(call, i), call.at, call.samples[i].value>>
    /\ \A j \in some : SeriesOf(call, j) = SeriesOf(call, i) => call.samples[i].value <= call.samples[j].value

Measures(points, call, some, y) ==
  \/ y \in points /\ ~(y[2] = call.at /\ SaysOf(points, call, some, y[1]))
  \/ Says(call, some, y) /\ ~Late(points, call.at, y[1])

\* Some samples have a smallest one.
LEMMA FiniteHasLeast ==
  ASSUME NEW D, IsFiniteSet(D), D # {}, NEW v, \A i \in D : v[i] \in Int
  PROVE  \E i \in D : \A j \in D : v[i] <= v[j]
<1> DEFINE OK(s) == s = {} \/ \E i \in s : \A j \in s : v[i] <= v[j]
           G == {s \in SUBSET D : OK(s)}
<1>1. {} \in G
  OBVIOUS
<1>2. ASSUME NEW s \in SUBSET D, s # {}, \A x \in s : s \ {x} \in G PROVE s \in G
  <2>1. PICK x \in s : TRUE
    BY <1>2
  <2>2. OK(s \ {x})
    BY <1>2
  <2>3. CASE s \ {x} = {}
    <3>1. \A j \in s : j = x
      BY <2>3
    <3>2. v[x] \in Int
      BY <1>2
    <3> QED BY <3>1, <3>2
  <2>4. CASE s \ {x} # {}
    <3>1. PICK i \in s \ {x} : \A j \in s \ {x} : v[i] <= v[j]
      BY <2>2, <2>4
    <3>2. v[x] \in Int /\ v[i] \in Int /\ \A j \in s : v[j] \in Int
      BY <1>2
    <3>3. CASE v[i] <= v[x]
      <4>1. \A j \in s : v[i] <= v[j]
        BY <3>1, <3>3
      <4> QED BY <4>1
    <3>4. CASE v[x] <= v[i]
      <4>1. \A j \in s : v[x] <= v[j]
        BY <3>1, <3>2, <3>4
      <4> QED BY <4>1
    <3> QED BY <3>2, <3>3, <3>4
  <2> QED BY <2>3, <2>4
<1> HIDE DEF G
<1>3. D \in G
  BY <1>1, <1>2, SubsetsGrow
<1> QED BY <1>3 DEF G

LEMMA MeasuredIs ==
  ASSUME NEW call, CallOK(call), NEW some, some \subseteq DOMAIN call.samples, NEW points
  PROVE  \A y : y \in SeriesStore!Measured(call, some, points) <=> Measures(points, call, some, y)
<1> DEFINE seriesOf(i) == <<call.key, call.samples[i].name, SeriesStore!LabelsOf(call.samples[i])>>
           late == {x[1] : x \in {x \in points : x[2] > call.at}}
           measured == {seriesOf(i) : i \in some} \ late
           ofSeries(s) == {i \in some : seriesOf(i) = s}
           value(s) == SeriesStore!Min({call.samples[i].value : i \in ofSeries(s)})
           all == SeriesStore!Measured(call, some, points)
<1>1. all = {x \in points : x[1] \notin measured \/ x[2] # call.at} \cup {<<s, call.at, value(s)>> : s \in measured}
  BY Zenon DEF SeriesStore!Measured
<1>2. \A i : seriesOf(i) = SeriesOf(call, i)
  BY SameWords DEF SeriesOf
<1>3. \A s : s \in late <=> Late(points, call.at, s)
  BY DEF Late
<1> HIDE DEF seriesOf, late, all
<1>4. \A s : s \in measured <=> SaysOf(points, call, some, s)
  BY <1>2, <1>3 DEF SaysOf
<1>5. ASSUME NEW i \in some,
             \A j \in some : SeriesOf(call, j) = SeriesOf(call, i) => call.samples[i].value <= call.samples[j].value
      PROVE  value(SeriesOf(call, i)) = call.samples[i].value
  <2> DEFINE S == {call.samples[j].value : j \in ofSeries(SeriesOf(call, i))}
             a == call.samples[i].value
  <2>1. S \subseteq Int
    BY DEF CallOK, SampleOK
  <2>2. a \in S
    BY <1>2
  <2>3. \A h \in S : a <= h
    BY <1>2, <1>5
  <2>4. value(SeriesOf(call, i)) = Min(S)
    BY SameLeast
  <2> HIDE DEF S, a, value
  <2>5. Min(S) = a
    BY <2>1, <2>2, <2>3, LeastIsMin
  <2> QED BY <2>4, <2>5 DEF a
<1>6. ASSUME NEW s, \E i \in some : SeriesOf(call, i) = s
      PROVE  \E i \in some : /\ SeriesOf(call, i) = s
                             /\ \A j \in some : SeriesOf(call, j) = SeriesOf(call, i) =>
                                  call.samples[i].value <= call.samples[j].value
  <2> DEFINE D == {i \in some : SeriesOf(call, i) = s}
             v == [i \in DOMAIN call.samples |-> call.samples[i].value]
  <2>1. IsFiniteSet(D)
    <3> DEFINE len == Len(call.samples)
    <3>1. len \in Nat /\ DOMAIN call.samples = 1..len
      BY DEF CallOK
    <3> HIDE DEF len
    <3>2. IsFiniteSet(1..len)
      BY <3>1, FS_Interval
    <3>3. D \subseteq 1..len
      BY <3>1
    <3> QED BY <3>2, <3>3, FS_Subset
  <2>2. D # {} /\ \A i \in D : v[i] \in Int
    BY <1>6 DEF CallOK, SampleOK
  <2>3. \A i \in D : v[i] = call.samples[i].value
    OBVIOUS
  <2>4. \A i : i \in D <=> i \in some /\ SeriesOf(call, i) = s
    OBVIOUS
  <2> HIDE DEF D, v
  <2>5. \E i \in D : \A j \in D : v[i] <= v[j]
    BY <2>1, <2>2, FiniteHasLeast
  <2> QED BY <2>3, <2>4, <2>5
<1> HIDE DEF value, measured
<1>7. ASSUME NEW y
      PROVE  (\E s \in measured : y = <<s, call.at, value(s)>>) <=> Says(call, some, y) /\ ~Late(points, call.at, y[1])
  <2>1. ASSUME NEW s \in measured, y = <<s, call.at, value(s)>>
        PROVE  Says(call, some, y) /\ ~Late(points, call.at, y[1])
    <3>1. (\E i \in some : SeriesOf(call, i) = s) /\ ~Late(points, call.at, s)
      BY <1>4, <2>1 DEF SaysOf
    <3>2. PICK i \in some : /\ SeriesOf(call, i) = s
                            /\ \A j \in some : SeriesOf(call, j) = SeriesOf(call, i) =>
                                 call.samples[i].value <= call.samples[j].value
      BY <1>6, <3>1
    <3>3. value(s) = call.samples[i].value
      BY <1>5, <3>2
    <3>4. y[1] = s
      BY <2>1
    <3>5. y = <<SeriesOf(call, i), call.at, call.samples[i].value>>
      BY <2>1, <3>2, <3>3
    <3>6. Says(call, some, y)
      BY Zenon, <3>2, <3>5 DEF Says
    <3> QED BY <3>1, <3>4, <3>6
  <2>2. ASSUME Says(call, some, y), ~Late(points, call.at, y[1])
        PROVE  \E s \in measured : y = <<s, call.at, value(s)>>
    <3>1. PICK i \in some :
            /\ y = <<SeriesOf(call, i), call.at, call.samples[i].value>>
            /\ \A j \in some : SeriesOf(call, j) = SeriesOf(call, i) => call.samples[i].value <= call.samples[j].value
      BY Zenon, <2>2 DEF Says
    <3>2. y[1] = SeriesOf(call, i)
      BY <3>1
    <3>3. SeriesOf(call, i) \in measured
      BY <1>4, <2>2, <3>2 DEF SaysOf
    <3>4. value(SeriesOf(call, i)) = call.samples[i].value
      BY <1>5, <3>1
    <3> QED BY <3>1, <3>3, <3>4
  <2> QED BY <2>1, <2>2
<1>8. ASSUME NEW y PROVE y \in all <=> Measures(points, call, some, y)
  <2>1. y \in all <=> \/ y \in points /\ ~(y[2] = call.at /\ y[1] \in measured)
                      \/ \E s \in measured : y = <<s, call.at, value(s)>>
    BY <1>1
  <2> QED BY Zenon, <1>4, <1>7, <2>1 DEF Measures
<1> QED BY Zenon, <1>8 DEF all

\* What is measured once the first i samples are added, of series S[1], S[2] and so on: the
\* last one of a series counts.
Prefix(points, S, V, at, i, y) ==
  \/ y \in points /\ ~(y[2] = at /\ (\E j \in 1..i : S[j] = y[1]) /\ ~Late(points, at, y[1]))
  \/ \E j \in 1..i : /\ y = <<S[j], at, V[j]>> /\ ~Late(points, at, S[j])
                     /\ \A h \in 1..i : S[h] = S[j] => h <= j

\* That and nothing else.
AllSaid(Q, points, S, V, at, i) == \A y : y \in Q <=> Prefix(points, S, V, at, i, y)

LEMMA PrefixGrows ==
  ASSUME NEW i \in Nat, NEW S, NEW V, NEW at \in Int, NEW points, NEW Q, NEW R,
         AllSaid(Q, points, S, V, at, i), PointsAdded(Q, R, S[i + 1], at, V[i + 1])
  PROVE  AllSaid(R, points, S, V, at, i + 1)
<1> DEFINE s == S[i + 1]
           v == V[i + 1]
           l == i + 1
<1>1. l \in 1..l /\ l \in Nat /\ \A j : j \in 1..l <=> j \in 1..i \/ j = l
  OBVIOUS
<1>2. \A j \in 1..i : ~(l <= j) /\ j <= l
  OBVIOUS
<1>3. \A x : Late(Q, at, x) <=> Late(points, at, x)
  <2>1. ASSUME NEW y, y[2] > at PROVE y \in Q <=> y \in points
    <3>1. y[2] # at
      BY <2>1
    <3>2. ASSUME NEW j \in 1..i, y = <<S[j], at, V[j]>> PROVE FALSE
      <4>1. y[2] = at
        BY <3>2
      <4> QED BY <3>1, <4>1
    <3>3. Prefix(points, S, V, at, i, y) <=> y \in points
      BY Zenon, <3>1, <3>2 DEF Prefix
    <3> QED BY <3>3 DEF AllSaid
  <2> QED BY <2>1 DEF Late
<1>4. CASE Late(points, at, s)
  <2>1. R = Q
    <3>1. Late(Q, at, s)
      BY <1>3, <1>4
    <3> QED BY <3>1 DEF PointsAdded, Late
  <2>2. ASSUME NEW y PROVE Prefix(points, S, V, at, l, y) <=> Prefix(points, S, V, at, i, y)
    <3>1. (\E j \in 1..l : S[j] = y[1]) /\ ~Late(points, at, y[1])
            <=> (\E j \in 1..i : S[j] = y[1]) /\ ~Late(points, at, y[1])
      BY Zenon, <1>1, <1>4
    <3>2. ASSUME NEW j, ~Late(points, at, S[j])
          PROVE  j \in 1..l /\ (\A h \in 1..l : S[h] = S[j] => h <= j)
                   <=> j \in 1..i /\ \A h \in 1..i : S[h] = S[j] => h <= j
      <4>1. S[j] # s
        BY <1>4, <3>2
      <4> HIDE DEF s, v, l
      <4>2. S[l] = s
        BY DEF s, l
      <4>3. j # l /\ \A h : S[h] = S[j] => h # l
        BY <4>1, <4>2
      <4> QED BY Zenon, <1>1, <4>3
    <3> HIDE DEF s, v, l
    <3> QED BY Zenon, <3>1, <3>2 DEF Prefix
  <2> QED BY <2>1, <2>2 DEF AllSaid
<1>5. CASE ~Late(points, at, s)
  <2>1. \A y : y \in R <=> (y \in Q /\ ~(y[1] = s /\ y[2] = at)) \/ y = <<s, at, v>>
    <3>1. ~Late(Q, at, s)
      BY <1>3, <1>5
    <3> HIDE DEF s, v
    <3>2. ~\E y \in Q : y[1] = s /\ y[2] > at
      BY <3>1 DEF Late
    <3>3. PointsAdded(Q, R, s, at, v)
      BY DEF s, v
    <3>4. R = {y \in Q : ~(y[1] = s /\ y[2] = at)} \cup {<<s, at, v>>}
      BY <3>2, <3>3 DEF PointsAdded
    <3> QED BY <3>4
  <2>2. ASSUME NEW y PROVE y \in R <=> Prefix(points, S, V, at, l, y)
    <3> DEFINE Own(n, j) == /\ y = <<S[j], at, V[j]>> /\ ~Late(points, at, S[j])
                            /\ \A h \in 1..n : S[h] = S[j] => h <= j
    <3>1. ASSUME NEW n PROVE Prefix(points, S, V, at, n, y) <=>
                   \/ y \in points /\ ~(y[2] = at /\ (\E j \in 1..n : S[j] = y[1]) /\ ~Late(points, at, y[1]))
                   \/ \E j \in 1..n : Own(n, j)
      BY Zenon DEF Prefix
    <3>2. \A n, j : Own(n, j) => y[1] = S[j] /\ y[2] = at
      OBVIOUS
    <3>3. Own(l, l) <=> y = <<s, at, v>>
      <4>1. \A h \in 1..l : S[h] = S[l] => h <= l
        BY <1>1, <1>2
      <4> QED BY <1>5, <4>1
    <3>4. CASE y[1] = s /\ y[2] = at
      <4>1. \A j \in 1..i : ~Own(l, j)
        <5> SUFFICES ASSUME NEW j \in 1..i, Own(l, j) PROVE FALSE
          OBVIOUS
        <5>1. S[l] = S[j]
          BY <3>2, <3>4
        <5> QED BY <1>1, <1>2, <5>1
      <4>2. \E j \in 1..l : S[j] = y[1]
        BY <1>1, <3>4
      <4>3. ~Late(points, at, y[1])
        BY <1>5, <3>4
      <4> HIDE DEF Own, s, v, l
      <4>4. Prefix(points, S, V, at, l, y) <=> Own(l, l)
        BY Zenon, <1>1, <3>1, <3>4, <4>1, <4>2, <4>3
      <4> QED BY Zenon, <2>1, <3>3, <3>4, <4>4
    <3>5. CASE ~(y[1] = s /\ y[2] = at)
      <4>1. y # <<s, at, v>>
        BY <3>5
      <4>2. \A j \in 1..i : Own(l, j) <=> Own(i, j)
        <5>1. ASSUME NEW j \in 1..i, Own(l, j) \/ Own(i, j) PROVE Own(l, j) /\ Own(i, j)
          <6>1. S[j] # s
            BY <3>2, <3>5, <5>1
          <6> QED BY Zenon, <1>1, <5>1, <6>1
        <5> HIDE DEF Own
        <5> QED BY <5>1
      <4>3. ~Own(l, l)
        BY <3>3, <4>1
      <4>4. y[2] = at => ((\E j \in 1..l : S[j] = y[1]) <=> \E j \in 1..i : S[j] = y[1])
        BY Zenon, <1>1, <3>5
      <4> HIDE DEF Own, s, v, l
      <4>5. (\E j \in 1..l : Own(l, j)) <=> \E j \in 1..i : Own(i, j)
        BY Zenon, <1>1, <4>2, <4>3
      <4>6. Prefix(points, S, V, at, l, y) <=> Prefix(points, S, V, at, i, y)
        BY Zenon, <3>1, <4>4, <4>5
      <4>7. y \in Q <=> Prefix(points, S, V, at, i, y)
        BY Zenon DEF AllSaid
      <4> QED BY Zenon, <2>1, <3>5, <4>1, <4>6, <4>7
    <3> QED BY <3>4, <3>5
  <2> QED BY <2>2 DEF AllSaid
<1> QED BY <1>4, <1>5

LEMMA SamplesSay ==
  ASSUME NEW points, NEW more, NEW key, NEW name, NEW at \in Int, NEW samples,
         Len(samples) \in Nat, SamplesCount(points, more, key, name, at, samples)
  PROVE  LET S == [j \in 1..Len(samples) |-> <<key, name, LabelsOf(samples[j])>>]
             V == [j \in 1..Len(samples) |-> samples[j].value]
         IN  AllSaid(more, points, S, V, at, Len(samples))
<1> DEFINE len == Len(samples)
           S == [j \in 1..len |-> <<key, name, LabelsOf(samples[j])>>]
           V == [j \in 1..len |-> samples[j].value]
<1>0. len \in Nat
  OBVIOUS
<1>1. PICK Q : /\ Q[0] = points /\ Q[len] = more
               /\ \A i \in 1..len : PointsAdded(Q[i - 1], Q[i], <<key, name, LabelsOf(samples[i])>>, at, samples[i].value)
  BY Zenon DEF SamplesCount
<1> HIDE DEF len
<1>2. \A i \in 1..len : PointsAdded(Q[i - 1], Q[i], S[i], at, V[i])
  <2> TAKE i \in 1..len
  <2>1. S[i] = <<key, name, LabelsOf(samples[i])>> /\ V[i] = samples[i].value
    OBVIOUS
  <2> HIDE DEF S, V
  <2> QED BY <1>1, <2>1
<1> HIDE DEF S, V
<1> DEFINE OK(i) == AllSaid(Q[i], points, S, V, at, i)
           G == {i \in 0..len : OK(i)}
<1>3. 0 \in G
  <2>1. 1..0 = {}
    OBVIOUS
  <2>2. \A y : Prefix(points, S, V, at, 0, y) <=> y \in points
    BY Zenon, <2>1 DEF Prefix
  <2>3. OK(0)
    BY Zenon, <1>1, <2>2 DEF AllSaid
  <2> HIDE DEF OK
  <2> QED BY <1>0, <2>3
<1>4. ASSUME NEW i \in 0..(len - 1), i \in G PROVE i + 1 \in G
  <2>1. i \in Nat /\ i + 1 \in 1..len /\ i + 1 \in 0..len /\ (i + 1) - 1 = i
    BY <1>0
  <2>2. PointsAdded(Q[i], Q[i + 1], S[i + 1], at, V[i + 1])
    <3>1. PointsAdded(Q[(i + 1) - 1], Q[i + 1], S[i + 1], at, V[i + 1])
      BY <1>2, <2>1
    <3> QED BY <2>1, <3>1
  <2>3. OK(i)
    BY Zenon, <1>4
  <2>4. OK(i + 1)
    BY Zenon, <2>1, <2>2, <2>3, PrefixGrows
  <2> HIDE DEF OK
  <2> QED BY <2>1, <2>4
<1>5. \A i \in 0..len : i \in G
  <2> HIDE DEF G
  <2> QED BY <1>0, <1>3, <1>4, NatsGrow
<1>6. len \in 0..len
  BY <1>0
<1>7. OK(len)
  BY Zenon, <1>5, <1>6
<1> QED BY Zenon, <1>1, <1>7 DEF S, V, len

\* The samples of a metric that count, as they are sorted.
Taken(call, name, sorted) == {sorted[n] : n \in 1..Min({Cap, Cardinality(Finites(call, name))})}

TakenFacts(call, name, sorted) ==
  LET m == Min({Cap, Cardinality(Finites(call, name))})
      seen == Observed(call, name)
  IN  /\ m \in Nat /\ Len(seen) = m
      /\ \A j \in 1..m : /\ sorted[j] \in Finites(call, name) /\ seen[j] = call.samples[sorted[j]]
                         /\ SeriesOf(call, sorted[j]) = <<call.key, name, LabelsOf(seen[j])>>
                         /\ call.samples[sorted[j]].value \in Int
      /\ \A h, j \in 1..m : h < j => sorted[h] # sorted[j] /\
           call.samples[sorted[h]].value >= call.samples[sorted[j]].value
      /\ \A j \in 1..m, x \in Finites(call, name) \ Taken(call, name, sorted) :
           call.samples[sorted[j]].value >= call.samples[x].value
      /\ Taken(call, name, sorted) \subseteq Finites(call, name)
      /\ Cardinality(Taken(call, name, sorted)) = m

LEMMA TakenAre ==
  ASSUME NEW call, CallOK(call), NEW name, NEW sorted, FirstAre(call, name, sorted)
  PROVE  TakenFacts(call, name, sorted)
<1> DEFINE all == Finites(call, name)
           c == Cardinality(all)
           m == Min({Cap, c})
           seen == Observed(call, name)
           taken == Taken(call, name, sorted)
<1>1. m \in Nat /\ m <= Cap /\ m <= c /\ Len(seen) = m /\ DOMAIN seen = 1..m
  BY ObservedFacts
<1>2. c \in Nat /\ all \subseteq DOMAIN call.samples
  BY FinitesAre
<1>3. /\ sorted \in Seq(all) /\ Len(sorted) = c
      /\ \A i, j \in 1..c : i < j => sorted[i] # sorted[j] /\ call.samples[sorted[i]].value >= call.samples[sorted[j]].value
      /\ \A x \in all : \E i \in 1..c : sorted[i] = x
      /\ seen = [n \in 1..m |-> call.samples[sorted[n]]]
  BY DEF FirstAre, Descending
<1>4. \A j \in 1..c : sorted[j] \in all
  BY <1>3
<1>5. \A x \in all : call.samples[x].name = name /\ call.samples[x].value \in Int
  BY <1>2 DEF Finites, CallOK, SampleOK
<1> HIDE DEF all, c
<1>6. \A j \in 1..m : j \in 1..c
  <2> HIDE DEF m
  <2> QED BY <1>1, <1>2
<1> HIDE DEF m, seen
<1>7. ASSUME NEW j \in 1..m
      PROVE  /\ sorted[j] \in all /\ seen[j] = call.samples[sorted[j]]
             /\ SeriesOf(call, sorted[j]) = <<call.key, name, LabelsOf(seen[j])>>
             /\ call.samples[sorted[j]].value \in Int
  BY <1>3, <1>4, <1>5, <1>6 DEF SeriesOf
<1>8. taken = {sorted[n] : n \in 1..m}
  BY DEF Taken, m, c, all
<1>9. ASSUME NEW j \in 1..m, NEW x \in all \ taken PROVE call.samples[sorted[j]].value >= call.samples[x].value
  <2>1. PICK i \in 1..c : sorted[i] = x
    BY <1>3
  <2>2. i \notin 1..m
    BY <1>8, <1>9, <2>1
  <2>3. j < i
    BY <1>1, <1>2, <2>2
  <2> QED BY <1>3, <1>6, <2>1, <2>3
<1>10. taken \subseteq all
  BY <1>7, <1>8
<1>11. Cardinality(taken) = m
  <2> DEFINE D == 1..m
  <2>1. \A i, j \in D : sorted[i] = sorted[j] => i = j
    <3> SUFFICES ASSUME NEW i \in D, NEW j \in D, sorted[i] = sorted[j] PROVE i = j
      OBVIOUS
    <3>1. i \in 1..c /\ j \in 1..c
      BY <1>6
    <3>2. i < j \/ j < i \/ i = j
      BY <1>1
    <3> QED BY <1>3, <3>1, <3>2
  <2>2. IsFiniteSet(D) /\ Cardinality(D) = m
    BY <1>1, FS_Interval
  <2>3. {sorted[n] : n \in D} = taken
    BY <1>8
  <2> HIDE DEF D, taken
  <2>4. Cardinality({sorted[n] : n \in D}) = Cardinality(D)
    BY <2>1, <2>2, SameSize
  <2> QED BY <2>2, <2>3, <2>4
<1>12. \A h, j \in 1..m : h < j => sorted[h] # sorted[j] /\
          call.samples[sorted[h]].value >= call.samples[sorted[j]].value
  BY <1>3, <1>6
<1> QED BY Zenon, <1>1, <1>7, <1>9, <1>10, <1>11, <1>12 DEF TakenFacts, m, seen, taken, all, c

\* The last sample of a series is the smallest, since larger ones come first.
LEMMA SamplesMeasure ==
  ASSUME NEW call, CallOK(call), NEW name, NEW sorted, FirstAre(call, name, sorted), NEW points, NEW more,
         SamplesCount(points, more, call.key, name, call.at, Observed(call, name))
  PROVE  \A y : y \in more <=> Measures(points, call, Taken(call, name, sorted), y)
<1> DEFINE seen == Observed(call, name)
           m == Min({Cap, Cardinality(Finites(call, name))})
           at == call.at
           taken == Taken(call, name, sorted)
           S == [j \in 1..m |-> <<call.key, name, LabelsOf(seen[j])>>]
           V == [j \in 1..m |-> seen[j].value]
           val(i) == call.samples[i].value
<1>1. /\ m \in Nat /\ Len(seen) = m
      /\ \A j \in 1..m : /\ seen[j] = call.samples[sorted[j]]
                         /\ SeriesOf(call, sorted[j]) = <<call.key, name, LabelsOf(seen[j])>>
                         /\ val(sorted[j]) \in Int
      /\ \A h, j \in 1..m : h < j => val(sorted[h]) >= val(sorted[j])
  <2>1. TakenFacts(call, name, sorted)
    BY Zenon, TakenAre
  <2> QED BY <2>1 DEF TakenFacts
<1>2. taken = {sorted[n] : n \in 1..m}
  BY DEF Taken
<1>3. at \in Int
  BY TimesAreNumbers
<1>4. AllSaid(more, points, S, V, at, m)
  <2>1. Len(seen) \in Nat
    BY <1>1
  <2>2. LET R == [j \in 1..Len(seen) |-> <<call.key, name, LabelsOf(seen[j])>>]
            W == [j \in 1..Len(seen) |-> seen[j].value]
        IN  AllSaid(more, points, R, W, at, Len(seen))
    <3> HIDE DEF seen, at
    <3>1. SamplesCount(points, more, call.key, name, at, seen)
      BY DEF seen, at
    <3> QED BY Zenon, <1>3, <2>1, <3>1, SamplesSay
  <2> HIDE DEF seen, m
  <2> QED BY Zenon, <1>1, <2>2
<1>5. \A j \in 1..m : S[j] = SeriesOf(call, sorted[j]) /\ V[j] = val(sorted[j]) /\ V[j] \in Int
  <2> HIDE DEF m, seen
  <2>1. \A j \in 1..m : S[j] = <<call.key, name, LabelsOf(seen[j])>> /\ V[j] = seen[j].value
    OBVIOUS
  <2> HIDE DEF S, V
  <2> QED BY <1>1, <2>1
<1>6. \A h, j \in 1..m : h < j => V[h] >= V[j]
  <2> HIDE DEF m, seen, S, V, val
  <2> QED BY <1>1, <1>5
<1> HIDE DEF seen, m, at, taken, S, V
<1>7. \A s : (\E i \in taken : SeriesOf(call, i) = s) <=> \E j \in 1..m : S[j] = s
  BY Zenon, <1>2, <1>5
<1> DEFINE Last1(y, j) == /\ y = <<S[j], at, V[j]>> /\ \A h \in 1..m : S[h] = S[j] => h <= j
<1>8. ASSUME NEW y PROVE Says(call, taken, y) <=> \E j \in 1..m : Last1(y, j)
  <2>1. ASSUME NEW j \in 1..m, Last1(y, j) PROVE Says(call, taken, y)
    <3>1. \A h \in 1..m : S[h] = S[j] => V[j] <= V[h]
      <4> TAKE h \in 1..m
      <4> SUFFICES ASSUME S[h] = S[j] PROVE V[j] <= V[h]
        OBVIOUS
      <4>1. h <= j
        BY <2>1
      <4>2. h = j \/ h < j
        BY <1>1, <4>1
      <4>3. V[h] \in Int /\ V[j] \in Int
        BY <1>5
      <4> QED BY <1>6, <4>2, <4>3
    <3>2. sorted[j] \in taken
      BY <1>2
    <3>3. y = <<SeriesOf(call, sorted[j]), at, val(sorted[j])>>
      BY <1>5, <2>1
    <3>4. \A i \in taken : SeriesOf(call, i) = SeriesOf(call, sorted[j]) => val(sorted[j]) <= val(i)
      <4> TAKE i \in taken
      <4>1. PICK h \in 1..m : i = sorted[h]
        BY <1>2
      <4> QED BY <1>5, <3>1, <4>1
    <3> QED BY Zenon, <3>2, <3>3, <3>4 DEF Says, at
  <2>2. ASSUME Says(call, taken, y) PROVE \E j \in 1..m : Last1(y, j)
    <3>1. PICK i \in taken : /\ y = <<SeriesOf(call, i), at, val(i)>>
                             /\ \A j \in taken : SeriesOf(call, j) = SeriesOf(call, i) => val(i) <= val(j)
      BY Zenon, <2>2 DEF Says, at
    <3>2. PICK j \in 1..m : i = sorted[j]
      BY <1>2
    <3> DEFINE H == {h \in 1..m : S[h] = S[j]}
               l == Max(H)
    <3>3. l \in H /\ \A h \in H : h <= l
      <4>1. H \in SUBSET (1..m) /\ H # {}
        OBVIOUS
      <4> HIDE DEF H
      <4> QED BY <1>1, <4>1, GreatestOfFirst
    <3>4. j \in H
      OBVIOUS
    <3> HIDE DEF l
    <3>5. l \in 1..m /\ S[l] = S[j] /\ j <= l /\ \A h \in 1..m : S[h] = S[l] => h <= l
      BY <3>3, <3>4
    <3> HIDE DEF H
    <3>6. V[l] \in Int /\ V[j] \in Int
      BY <1>5, <3>5
    <3>7. V[l] <= V[j]
      <4>1. j = l \/ j < l
        BY <1>1, <3>5
      <4> QED BY <1>6, <3>5, <3>6, <4>1
    <3>8. V[j] <= V[l]
      <4>1. sorted[l] \in taken /\ SeriesOf(call, sorted[l]) = SeriesOf(call, i)
        BY <1>2, <1>5, <3>2, <3>5
      <4>2. val(i) <= val(sorted[l])
        BY <3>1, <4>1
      <4> QED BY <1>5, <3>2, <3>5, <4>2
    <3>9. y = <<S[l], at, V[l]>>
      <4>1. V[l] = V[j]
        BY <3>6, <3>7, <3>8
      <4> QED BY <1>5, <3>1, <3>2, <3>5, <4>1
    <3> QED BY <3>5, <3>9
  <2> QED BY <2>1, <2>2
<1>9. ASSUME NEW y PROVE Prefix(points, S, V, at, m, y) <=> Measures(points, call, taken, y)
  <2>1. (\E j \in 1..m : Last1(y, j) /\ ~Late(points, at, S[j])) <=> Says(call, taken, y) /\ ~Late(points, at, y[1])
    <3>1. \A j : Last1(y, j) => y[1] = S[j]
      OBVIOUS
    <3> HIDE DEF Last1
    <3> QED BY Zenon, <1>8, <3>1
  <2>2. (\E j \in 1..m : S[j] = y[1]) /\ ~Late(points, at, y[1]) <=> SaysOf(points, call, taken, y[1])
    BY Zenon, <1>7 DEF SaysOf, at
  <2>3. Prefix(points, S, V, at, m, y) <=>
          \/ y \in points /\ ~(y[2] = at /\ SaysOf(points, call, taken, y[1]))
          \/ \E j \in 1..m : Last1(y, j) /\ ~Late(points, at, S[j])
    BY Zenon, <2>2 DEF Prefix
  <2> QED BY Zenon, <2>1, <2>3 DEF Measures, at
<1> QED BY Zenon, <1>4, <1>9 DEF AllSaid, taken

\* Some of the largest samples of a metric, as many as the cap allows.
TakesOf(call, name, some) ==
  /\ some \subseteq Finites(call, name)
  /\ Cardinality(some) = Min({Cap, Cardinality(Finites(call, name))})
  /\ \A i \in some, j \in Finites(call, name) \ some : call.samples[i].value >= call.samples[j].value

\* The points before a metric is added, once its samples are, and when the cap is enforced.
MetricStep(points, more, left, call, name, some, stays) ==
  /\ TakesOf(call, name, some)
  /\ \A y : y \in more <=> Measures(points, call, some, y)
  /\ \A s \in Group(more, call.key, name) : \E y \in more : y[1] = s /\ Newest(more, y)
  /\ CapLeaves(more, left, call.key, name, stays)

LEMMA MetricSteps ==
  ASSUME NEW call, CallOK(call), NEW name, NEW state, NEW new, MetricMade(state, new, call, name)
  PROVE  \E more, some, stays : MetricStep(StatePoints(state), more, StatePoints(new), call, name, some, stays)
<1>1. PICK more : /\ SamplesCount(StatePoints(state), more, call.key, name, call.at, Observed(call, name))
                  /\ CapMade(more, StatePoints(new), call.key, name)
  BY Zenon DEF MetricMade
<1>2. PICK sorted : FirstAre(call, name, sorted)
  BY Zenon, ObservedAre
<1> DEFINE some == Taken(call, name, sorted)
<1>3. TakesOf(call, name, some)
  <2>1. TakenFacts(call, name, sorted)
    BY Zenon, <1>2, TakenAre
  <2>2. \A i \in some : \E j \in 1..Min({Cap, Cardinality(Finites(call, name))}) : i = sorted[j]
    BY DEF Taken
  <2> HIDE DEF some
  <2> QED BY Zenon, <2>1, <2>2 DEF TakesOf, TakenFacts, some
<1>4. \A y : y \in more <=> Measures(StatePoints(state), call, some, y)
  BY Zenon, <1>1, <1>2, SamplesMeasure
<1> HIDE DEF some
<1>5. PICK stays : CapLeaves(more, StatePoints(new), call.key, name, stays)
  BY Zenon, <1>1 DEF CapMade
<1>6. \A s \in Group(more, call.key, name) : \E y \in more : y[1] = s /\ Newest(more, y)
  BY Zenon, <1>1 DEF CapMade
<1> QED BY Zenon, <1>3, <1>4, <1>5, <1>6 DEF MetricStep

\* A point is one of a metric of the call's key.
OfMetric(y, call, name) == y[1][1] = call.key /\ y[1][2] = name

LeftOf(points, more, left, call, name, stays) ==
  /\ \A y : ~OfMetric(y, call, name) => (y \in left <=> y \in points)
  /\ \A y : OfMetric(y, call, name) => (y \in left <=> y \in more /\ y[1] \in stays)

LEMMA OthersStay ==
  ASSUME NEW points, NEW more, NEW left, NEW call, NEW name, NEW some, NEW stays,
         MetricStep(points, more, left, call, name, some, stays)
  PROVE  LeftOf(points, more, left, call, name, stays)
<1>1. \A i \in some : SeriesOf(call, i)[1] = call.key /\ SeriesOf(call, i)[2] = name
  BY DEF MetricStep, TakesOf, Finites, SeriesOf
<1>2. \A s : s \in Group(more, call.key, name) <=> (\E y \in more : y[1] = s) /\ s[1] = call.key /\ s[2] = name
  BY DEF Group
<1>3. /\ stays \subseteq Group(more, call.key, name)
      /\ \A y : y \in left <=> y \in more /\ (y[1] \in stays \/ y[1] \notin Group(more, call.key, name))
  BY DEF MetricStep, CapLeaves
<1>4. ASSUME NEW y, ~OfMetric(y, call, name) PROVE y \in left <=> y \in points
  <2>1. ~SaysOf(points, call, some, y[1])
    BY Zenon, <1>1, <1>4 DEF SaysOf, OfMetric
  <2>2. ~Says(call, some, y)
    <3>1. \A i \in some : y[1] # SeriesOf(call, i)
      BY Zenon, <1>1, <1>4 DEF OfMetric
    <3>2. ASSUME NEW i \in some, y = <<SeriesOf(call, i), call.at, call.samples[i].value>> PROVE FALSE
      <4>1. y[1] = SeriesOf(call, i)
        BY <3>2
      <4> QED BY <3>1, <4>1
    <3> QED BY Zenon, <3>2 DEF Says
  <2>3. y \in more <=> y \in points
    BY Zenon, <2>1, <2>2 DEF MetricStep, Measures
  <2>4. y[1] \notin Group(more, call.key, name)
    BY Zenon, <1>2, <1>4 DEF OfMetric
  <2> QED BY Zenon, <1>3, <2>3, <2>4
<1>5. ASSUME NEW y, OfMetric(y, call, name) PROVE y \in left <=> y \in more /\ y[1] \in stays
  <2>1. y \in more => y[1] \in Group(more, call.key, name)
    BY Zenon, <1>2, <1>5 DEF OfMetric
  <2> QED BY Zenon, <1>3, <2>1
<1> QED BY Zenon, <1>4, <1>5 DEF LeftOf

\* The points of a metric are the same, the samples of a metric are some of all of them.
SameOf(first, points, call, name) == \A y : OfMetric(y, call, name) => (y \in first <=> y \in points)

SomeOf(all, some, call, name) == some \subseteq all /\ \A i \in all : call.samples[i].name = name => i \in some

MeasuredOf(first, more, all, call, name) ==
  \A y : OfMetric(y, call, name) => (y \in more <=> Measures(first, call, all, y))

LEMMA MetricIsLocal ==
  ASSUME NEW points, NEW more, NEW left, NEW call, NEW name, NEW some, NEW stays,
         MetricStep(points, more, left, call, name, some, stays),
         NEW first, SameOf(first, points, call, name), NEW all, SomeOf(all, some, call, name)
  PROVE  MeasuredOf(first, more, all, call, name)
<1>0. some \subseteq all
  BY DEF SomeOf
<1>1. \A i \in all : SeriesOf(call, i)[2] = name => i \in some
  BY DEF SeriesOf, SomeOf
<1> SUFFICES ASSUME NEW y, OfMetric(y, call, name) PROVE y \in more <=> Measures(first, call, all, y)
  BY Zenon DEF MeasuredOf
<1>2. \A i \in all : SeriesOf(call, i) = y[1] => i \in some
  BY Zenon, <1>1 DEF OfMetric
<1>3. Late(first, call.at, y[1]) <=> Late(points, call.at, y[1])
  <2>1. \A x : x[1] = y[1] => (x \in first <=> x \in points)
    BY Zenon DEF SameOf, OfMetric
  <2> QED BY Zenon, <2>1 DEF Late
<1>4. SaysOf(first, call, all, y[1]) <=> SaysOf(points, call, some, y[1])
  BY Zenon, <1>0, <1>2, <1>3 DEF SaysOf
<1>5. Says(call, all, y) <=> Says(call, some, y)
  <2> DEFINE Own(i) == y = <<SeriesOf(call, i), call.at, call.samples[i].value>>
             Least(set, i) == \A j \in set : SeriesOf(call, j) = SeriesOf(call, i) => call.samples[i].value <= call.samples[j].value
  <2>1. \A i : Own(i) => y[1] = SeriesOf(call, i)
    OBVIOUS
  <2> HIDE DEF Own
  <2>2. \A i : Own(i) => (i \in all <=> i \in some) /\ (Least(all, i) <=> Least(some, i))
    BY Zenon, <1>0, <1>2, <2>1
  <2>3. /\ Says(call, all, y) <=> \E i \in all : Own(i) /\ Least(all, i)
        /\ Says(call, some, y) <=> \E i \in some : Own(i) /\ Least(some, i)
    BY Zenon DEF Says, Own
  <2> HIDE DEF Least
  <2> QED BY Zenon, <2>2, <2>3
<1>6. y \in more <=> Measures(points, call, some, y)
  BY Zenon DEF MetricStep
<1>7. y \in first <=> y \in points
  BY Zenon DEF SameOf
<1> QED BY Zenon, <1>3, <1>4, <1>5, <1>6, <1>7 DEF Measures

\* The metrics of a call, one after the other: what is there before each of them, once its
\* samples are added, which of these count, and which series stay.
MetricChain(call, order, len, P, N, some, stays) ==
  /\ \A i \in 1..len : MetricStep(P[i - 1], N[i], P[i], call, order[i], some[i], stays[i])
  /\ \A i, j \in 1..len : order[i] = order[j] => i = j

\* All of the samples that count.
AllOf(some, len) == UNION {some[i] : i \in 1..len}

\* In the end a metric has what its own step left of what was there at first.
ChainLeaves(call, order, len, P, N, all, stays) ==
  /\ \A y : (\A i \in 1..len : ~OfMetric(y, call, order[i])) => (y \in P[len] <=> y \in P[0])
  /\ \A i \in 1..len : \A y : OfMetric(y, call, order[i]) =>
       /\ y \in N[i] <=> Measures(P[0], call, all, y)
       /\ y \in P[len] <=> y \in N[i] /\ y[1] \in stays[i]

LEMMA ChainIs ==
  ASSUME NEW call, NEW order, NEW len \in Nat, NEW P, NEW N, NEW some, NEW stays,
         MetricChain(call, order, len, P, N, some, stays)
  PROVE  ChainLeaves(call, order, len, P, N, AllOf(some, len), stays)
<1> DEFINE all == UNION {some[i] : i \in 1..len}
<1>1. /\ \A i \in 1..len : MetricStep(P[i - 1], N[i], P[i], call, order[i], some[i], stays[i])
      /\ \A i, j \in 1..len : order[i] = order[j] => i = j
  BY Zenon DEF MetricChain
<1>2. ASSUME NEW i \in 1..len
      PROVE  /\ \A y : ~OfMetric(y, call, order[i]) => (y \in P[i] <=> y \in P[i - 1])
             /\ \A y : OfMetric(y, call, order[i]) => (y \in P[i] <=> y \in N[i] /\ y[1] \in stays[i])
  <2>1. LeftOf(P[i - 1], N[i], P[i], call, order[i], stays[i])
    BY Zenon, <1>1, OthersStay
  <2> QED BY Zenon, <2>1 DEF LeftOf
<1>3. ASSUME NEW i \in 0..len, NEW y, \A j \in 1..i : ~OfMetric(y, call, order[j])
      PROVE  y \in P[i] <=> y \in P[0]
  <2> DEFINE G == {k \in 0..len : k <= i => (y \in P[k] <=> y \in P[0])}
  <2>1. 0 \in G
    OBVIOUS
  <2>2. ASSUME NEW k \in 0..(len - 1), k \in G PROVE k + 1 \in G
    <3>1. k + 1 \in 1..len /\ k + 1 \in 0..len /\ (k + 1) - 1 = k
      OBVIOUS
    <3>2. ASSUME k + 1 <= i PROVE y \in P[k + 1] <=> y \in P[0]
      <4>1. k + 1 \in 1..i /\ k <= i
        BY <3>1, <3>2
      <4>2. y \in P[k] <=> y \in P[0]
        BY <2>2, <4>1
      <4>3. ~OfMetric(y, call, order[k + 1])
        BY Zenon, <1>3, <4>1
      <4>4. y \in P[k + 1] <=> y \in P[(k + 1) - 1]
        BY Zenon, <1>2, <3>1, <4>3
      <4> QED BY <3>1, <4>2, <4>4
    <3> QED BY <3>1, <3>2
  <2> HIDE DEF G
  <2>3. \A k \in 0..len : k \in G
    BY <2>1, <2>2, NatsGrow
  <2>4. i \in G /\ i <= i
    BY <2>3
  <2> QED BY <2>4 DEF G
<1>4. ASSUME NEW i \in 1..len, NEW y, OfMetric(y, call, order[i])
      PROVE  y \in P[len] <=> y \in P[i]
  <2> DEFINE G == {k \in 0..len : i <= k => (y \in P[k] <=> y \in P[i])}
  <2>1. 0 \in G
    OBVIOUS
  <2>2. ASSUME NEW k \in 0..(len - 1), k \in G PROVE k + 1 \in G
    <3>1. k + 1 \in 1..len /\ k + 1 \in 0..len /\ (k + 1) - 1 = k
      OBVIOUS
    <3>2. ASSUME i <= k PROVE y \in P[k + 1] <=> y \in P[i]
      <4>1. y \in P[k] <=> y \in P[i]
        BY <2>2, <3>2
      <4>2. k + 1 # i
        BY <3>2
      <4>3. ~OfMetric(y, call, order[k + 1])
        <5>1. order[k + 1] # order[i]
          BY <1>1, <3>1, <4>2
        <5> QED BY Zenon, <1>4, <5>1 DEF OfMetric
      <4>4. y \in P[k + 1] <=> y \in P[(k + 1) - 1]
        BY Zenon, <1>2, <3>1, <4>3
      <4> QED BY <3>1, <4>1, <4>4
    <3>3. ASSUME i <= k + 1 PROVE i <= k \/ i = k + 1
      BY <3>3
    <3> QED BY <3>1, <3>2, <3>3
  <2> HIDE DEF G
  <2>3. \A k \in 0..len : k \in G
    BY <2>1, <2>2, NatsGrow
  <2>4. len \in G /\ i <= len
    BY <2>3
  <2> QED BY <2>4 DEF G
<1>5. ASSUME NEW i \in 1..len, NEW y, OfMetric(y, call, order[i])
      PROVE  y \in P[0] <=> y \in P[i - 1]
  <2>1. i - 1 \in 0..len /\ \A j \in 1..(i - 1) : j \in 1..len /\ j # i
    OBVIOUS
  <2>2. \A j \in 1..(i - 1) : ~OfMetric(y, call, order[j])
    <3> TAKE j \in 1..(i - 1)
    <3>1. order[j] # order[i]
      BY <1>1, <2>1
    <3> QED BY Zenon, <1>5, <3>1 DEF OfMetric
  <2>3. \A k \in 0..len : (\A j \in 1..k : ~OfMetric(y, call, order[j])) => (y \in P[k] <=> y \in P[0])
    BY <1>3
  <2> QED BY Zenon, <2>1, <2>2, <2>3
<1>6. ASSUME NEW i \in 1..len
      PROVE  \A y : OfMetric(y, call, order[i]) => (y \in N[i] <=> Measures(P[0], call, all, y))
  <2>1. MetricStep(P[i - 1], N[i], P[i], call, order[i], some[i], stays[i])
    BY <1>1
  <2>2. SameOf(P[0], P[i - 1], call, order[i])
    BY <1>5 DEF SameOf
  <2>3. some[i] \subseteq all
    OBVIOUS
  <2>4. \A x \in all : call.samples[x].name = order[i] => x \in some[i]
    <3> SUFFICES ASSUME NEW x \in all, call.samples[x].name = order[i] PROVE x \in some[i]
      OBVIOUS
    <3>1. PICK j \in 1..len : x \in some[j]
      OBVIOUS
    <3>2. some[j] \subseteq Finites(call, order[j])
      BY <1>1 DEF MetricStep, TakesOf
    <3>3. order[j] = order[i]
      BY <3>1, <3>2 DEF Finites
    <3> QED BY <1>1, <3>1, <3>3
  <2> HIDE DEF all
  <2>5. SomeOf(all, some[i], call, order[i])
    BY <2>3, <2>4 DEF SomeOf
  <2>6. MeasuredOf(P[0], N[i], all, call, order[i])
    BY Zenon, <2>1, <2>2, <2>5, MetricIsLocal
  <2> QED BY Zenon, <2>6 DEF MeasuredOf
<1>7. \A y : (\A i \in 1..len : ~OfMetric(y, call, order[i])) => (y \in P[len] <=> y \in P[0])
  <2>1. \A k \in 0..len : \A y : (\A j \in 1..k : ~OfMetric(y, call, order[j])) => (y \in P[k] <=> y \in P[0])
    BY <1>3
  <2>2. len \in 0..len
    OBVIOUS
  <2> QED BY Zenon, <2>1, <2>2
<1>8. \A i \in 1..len : \A y : OfMetric(y, call, order[i]) => (y \in P[len] <=> y \in N[i] /\ y[1] \in stays[i])
  BY Zenon, <1>2, <1>4
<1> HIDE DEF all
<1> QED BY Zenon, <1>6, <1>7, <1>8 DEF ChainLeaves, AllOf, all

\* Some of the largest, as SeriesStore says it.
LEMMA LargestIs ==
  ASSUME NEW all, NEW some, NEW value
  PROVE  SeriesStore!Largest(all, some, value) <=>
           /\ some \subseteq all /\ Cardinality(some) = Min({Cap, Cardinality(all)})
           /\ \A i \in some, j \in all \ some : value[i] >= value[j]
<1>1. SeriesStore!Cardinality(some) = Cardinality(some) /\ SeriesStore!Cardinality(all) = Cardinality(all)
  BY Zenon, SameSizes
<1>2. SeriesStore!Min({Cap, Cardinality(all)}) = Min({Cap, Cardinality(all)})
  BY Zenon, SameLeast
<1> QED BY Zenon, <1>1, <1>2 DEF SeriesStore!Largest

\* The value of a series: that of its newest point.
NewestOf(points, s) == CHOOSE x \in points : x[1] = s /\ \A y \in points : y[1] = s => y[2] <= x[2]

NewestValues(points, group) == [s \in group |-> NewestOf(points, s)[3]]

LEMMA GroupKept ==
  ASSUME NEW call, NEW name, NEW points, NEW more, NEW left, NEW stays, NEW St,
         CapLeaves(more, left, call.key, name, stays),
         \A s \in Group(more, call.key, name) : \E y \in more : y[1] = s /\ Newest(more, y),
         SameOf(points, more, call, name),
         \A s \in Group(more, call.key, name) : s \in St <=> s \in stays
  PROVE  LET group == Group(points, call.key, name)
         IN  SeriesStore!Largest(group, St \cap group, NewestValues(points, group))
<1> DEFINE group == Group(points, call.key, name)
           v == NewestValues(points, group)
           some == St \cap group
<1>0. \A y : OfMetric(y, call, name) => (y \in points <=> y \in more)
  BY Zenon DEF SameOf
<1>1. group = Group(more, call.key, name)
  BY <1>0 DEF Group, OfMetric
<1>2. /\ stays \subseteq group /\ Cardinality(stays) = Min({Cap, Cardinality(group)})
      /\ \A x, y \in more :
           Newest(more, x) /\ Newest(more, y) /\ x[1] \in stays /\ y[1] \in group \ stays => x[3] >= y[3]
  BY <1>1 DEF CapLeaves
<1>3. \A s \in group : s[1] = call.key /\ s[2] = name
  BY DEF Group
<1>4. \A s \in group : v[s] = NewestOf(points, s)[3]
  BY DEF NewestValues
<1>5. \A s \in group : \E y \in more : y[1] = s /\ Newest(more, y)
  BY <1>1
<1>6. \A s \in group : s \in St <=> s \in stays
  BY <1>1
<1> HIDE DEF group, v
<1>7. some = stays
  BY <1>2, <1>6
<1>8. ASSUME NEW s \in group
      PROVE  \E y \in more : y[1] = s /\ Newest(more, y) /\ v[s] = y[3]
  <2>1. PICK y \in more : y[1] = s /\ Newest(more, y)
    BY <1>5
  <2>2. \A x : x[1] = s => (x \in points <=> x \in more)
    BY Zenon, <1>0, <1>3 DEF OfMetric
  <2>3. y \in points /\ \A x \in points : x[1] = s => x[2] <= y[2]
    BY <2>1, <2>2 DEF Newest
  <2> DEFINE z == NewestOf(points, s)
  <2>4. z \in points /\ z[1] = s /\ \A x \in points : x[1] = s => x[2] <= z[2]
    BY Zenon, <2>1, <2>3 DEF NewestOf
  <2> HIDE DEF z
  <2>5. z \in more /\ \A x \in more : x[1] = z[1] => x[2] <= z[2]
    BY Zenon, <2>2, <2>4
  <2>6. z \in more /\ Newest(more, z)
    BY Zenon, <2>5 DEF Newest
  <2>7. v[s] = z[3]
    BY <1>4 DEF z
  <2> QED BY Zenon, <2>4, <2>6, <2>7
<1>9. \A i \in stays, j \in group \ stays : v[i] >= v[j]
  <2> TAKE i \in stays, j \in group \ stays
  <2>1. PICK x \in more : x[1] = i /\ Newest(more, x) /\ v[i] = x[3]
    BY <1>2, <1>8
  <2>2. PICK y \in more : y[1] = j /\ Newest(more, y) /\ v[j] = y[3]
    BY <1>8
  <2> QED BY <1>2, <2>1, <2>2
<1>10. SeriesStore!Largest(group, some, v)
  <2>1. /\ some \subseteq group /\ Cardinality(some) = Min({Cap, Cardinality(group)})
        /\ \A i \in some, j \in group \ some : v[i] >= v[j]
    BY Zenon, <1>2, <1>7, <1>9
  <2> HIDE DEF some
  <2> QED BY Zenon, <2>1, LargestIs
<1> QED BY Zenon, <1>10 DEF group, v

LEMMA KeptIs ==
  ASSUME NEW call, NEW points, NEW St, NEW left,
         \A s \in St : \E name \in SeriesStore!Names(call) : s \in Group(points, call.key, name),
         \A name \in SeriesStore!Names(call) :
           LET group == Group(points, call.key, name)
           IN  SeriesStore!Largest(group, St \cap group, NewestValues(points, group)),
         \A x : x \in left <=> x \in points /\
           (x[1] \in St \/ x[1][1] # call.key \/ x[1][2] \notin SeriesStore!Names(call))
  PROVE  left \in SeriesStore!Kept(call, points)
<1> DEFINE series == {x[1] : x \in points}
           group(name) == {s \in series : s[1] = call.key /\ s[2] = name}
           newest(s) == CHOOSE x \in points : x[1] = s /\ \A y \in points : y[1] = s => y[2] <= x[2]
           others == {s \in series : s[1] # call.key \/ s[2] \notin SeriesStore!Names(call)}
           stay == {stays \in SUBSET UNION {group(name) : name \in SeriesStore!Names(call)} :
                      \A name \in SeriesStore!Names(call) :
                        SeriesStore!Largest(group(name), stays \cap group(name), [s \in group(name) |-> newest(s)[3]])}
<1>1. SeriesStore!Kept(call, points) = {{x \in points : x[1] \in stays \cup others} : stays \in stay}
  BY Zenon DEF SeriesStore!Kept
<1>2. \A name : group(name) = Group(points, call.key, name)
  BY Zenon DEF Group
<1>3. ASSUME NEW name \in SeriesStore!Names(call)
      PROVE  SeriesStore!Largest(group(name), St \cap group(name), [s \in group(name) |-> newest(s)[3]])
  <2>1. [s \in group(name) |-> newest(s)[3]] = NewestValues(points, group(name))
    BY Zenon DEF NewestValues, NewestOf
  <2>2. SeriesStore!Largest(Group(points, call.key, name), St \cap Group(points, call.key, name),
                            NewestValues(points, Group(points, call.key, name)))
    BY Zenon
  <2> HIDE DEF group, newest
  <2> QED BY Zenon, <1>2, <2>1, <2>2
<1>4. St \in SUBSET UNION {group(name) : name \in SeriesStore!Names(call)}
  <2> HIDE DEF group
  <2> QED BY <1>2
<1>5. St \in stay
  <2> HIDE DEF group, newest
  <2> QED BY <1>3, <1>4
<1>6. left = {x \in points : x[1] \in St \cup others}
  BY DEF others
<1> HIDE DEF stay, others
<1> QED BY <1>1, <1>5, <1>6

\* The metrics of a call, each once.
OrderOf(call, order, len) ==
  /\ \A i \in 1..len : Finites(call, order[i]) # {}
  /\ \A name : Finites(call, name) # {} => \E i \in 1..len : order[i] = name

LEMMA ChainChooses ==
  ASSUME NEW call, CallOK(call), NEW order, NEW len \in Nat, NEW P, NEW N, NEW some, NEW stays,
         MetricChain(call, order, len, P, N, some, stays), OrderOf(call, order, len)
  PROVE  AllOf(some, len) \in SeriesStore!Chosen(call)
<1> DEFINE all == UNION {some[i] : i \in 1..len}
           values(name) == [i \in SeriesStore!Of(call, name) |-> call.samples[i].value]
<1>1. \A i, j \in 1..len : order[i] = order[j] => i = j
  BY Zenon DEF MetricChain
<1>2. ASSUME NEW i \in 1..len PROVE TakesOf(call, order[i], some[i])
  BY Zenon DEF MetricChain, MetricStep
<1>3. /\ \A name : SeriesStore!Of(call, name) = Finites(call, name)
      /\ \A name : name \in SeriesStore!Names(call) <=> Finites(call, name) # {}
  BY Zenon, SameWords
<1>4. ASSUME NEW i \in 1..len PROVE all \cap Finites(call, order[i]) = some[i]
  <2>1. some[i] \subseteq all /\ some[i] \subseteq Finites(call, order[i])
    BY <1>2 DEF TakesOf
  <2>2. ASSUME NEW x \in all, x \in Finites(call, order[i]) PROVE x \in some[i]
    <3>1. PICK j \in 1..len : x \in some[j]
      OBVIOUS
    <3>2. x \in Finites(call, order[j])
      BY <1>2, <3>1 DEF TakesOf
    <3>3. order[j] = order[i]
      BY <2>2, <3>2 DEF Finites
    <3> QED BY <1>1, <3>1, <3>3
  <2> HIDE DEF all
  <2> QED BY <2>1, <2>2
<1>5. all \in SUBSET UNION {SeriesStore!Of(call, name) : name \in SeriesStore!Names(call)}
  <2> SUFFICES ASSUME NEW x \in all PROVE \E name \in SeriesStore!Names(call) : x \in SeriesStore!Of(call, name)
    OBVIOUS
  <2>1. PICK i \in 1..len : x \in some[i]
    OBVIOUS
  <2>2. x \in Finites(call, order[i])
    BY <1>2, <2>1 DEF TakesOf
  <2> QED BY <1>3, <2>2
<1> HIDE DEF all
<1>6. ASSUME NEW name \in SeriesStore!Names(call)
      PROVE  SeriesStore!Largest(SeriesStore!Of(call, name), all \cap SeriesStore!Of(call, name), values(name))
  <2>1. PICK i \in 1..len : order[i] = name
    BY <1>3 DEF OrderOf
  <2> DEFINE F == Finites(call, name)
             v == values(name)
  <2>2. SeriesStore!Of(call, name) = F /\ all \cap F = some[i] /\ \A x \in F : v[x] = call.samples[x].value
    BY <1>3, <1>4, <2>1
  <2> HIDE DEF F, v
  <2>3. /\ some[i] \subseteq F /\ Cardinality(some[i]) = Min({Cap, Cardinality(F)})
        /\ \A x \in some[i], y \in F \ some[i] : v[x] >= v[y]
    BY <1>2, <2>1, <2>2 DEF TakesOf, F
  <2>4. SeriesStore!Largest(F, some[i], v)
    BY Zenon, <2>3, LargestIs
  <2> QED BY Zenon, <2>2, <2>4 DEF v
<1>7. SeriesStore!Chosen(call) =
        {any \in SUBSET UNION {SeriesStore!Of(call, name) : name \in SeriesStore!Names(call)} :
           \A name \in SeriesStore!Names(call) :
             SeriesStore!Largest(SeriesStore!Of(call, name), any \cap SeriesStore!Of(call, name), values(name))}
  BY Zenon DEF SeriesStore!Chosen
<1> HIDE DEF values
<1>8. all \in SeriesStore!Chosen(call)
  BY Zenon, <1>5, <1>6, <1>7
<1> QED BY Zenon, <1>8 DEF all, AllOf

LEMMA ChainKeeps ==
  ASSUME NEW call, CallOK(call), NEW order, NEW len \in Nat, NEW P, NEW N, NEW some, NEW stays,
         MetricChain(call, order, len, P, N, some, stays), OrderOf(call, order, len)
  PROVE  P[len] \in SeriesStore!Kept(call, SeriesStore!Measured(call, AllOf(some, len), P[0]))
<1> DEFINE all == UNION {some[i] : i \in 1..len}
           M == SeriesStore!Measured(call, all, P[0])
           St == UNION {stays[i] : i \in 1..len}
           group(name) == Group(M, call.key, name)
<1>1. /\ \A i \in 1..len : MetricStep(P[i - 1], N[i], P[i], call, order[i], some[i], stays[i])
      /\ \A i, j \in 1..len : order[i] = order[j] => i = j
  BY Zenon DEF MetricChain
<1>2. /\ \A y : (\A i \in 1..len : ~OfMetric(y, call, order[i])) => (y \in P[len] <=> y \in P[0])
      /\ \A i \in 1..len : \A y : OfMetric(y, call, order[i]) =>
           /\ y \in N[i] <=> Measures(P[0], call, all, y)
           /\ y \in P[len] <=> y \in N[i] /\ y[1] \in stays[i]
  <2>1. ChainLeaves(call, order, len, P, N, all, stays)
    <3>1. ChainLeaves(call, order, len, P, N, AllOf(some, len), stays)
      BY Zenon, ChainIs
    <3> QED BY Zenon, <3>1 DEF AllOf
  <2> HIDE DEF all
  <2> QED BY Zenon, <2>1 DEF ChainLeaves
<1>3. \A y : y \in M <=> Measures(P[0], call, all, y)
  <2>1. all \subseteq DOMAIN call.samples
    <3>1. \A i \in 1..len : some[i] \subseteq DOMAIN call.samples
      <4> TAKE i \in 1..len
      <4>1. TakesOf(call, order[i], some[i])
        BY Zenon, <1>1 DEF MetricStep
      <4> QED BY <4>1 DEF TakesOf, Finites
    <3> QED BY <3>1
  <2> HIDE DEF all
  <2> QED BY Zenon, <2>1, MeasuredIs
<1>4. \A name : name \in SeriesStore!Names(call) <=> \E i \in 1..len : order[i] = name
  BY SameWords DEF OrderOf
<1> HIDE DEF M
<1>5. ASSUME NEW i \in 1..len PROVE SameOf(M, N[i], call, order[i])
  BY Zenon, <1>2, <1>3 DEF SameOf
<1>6. ASSUME NEW i \in 1..len
      PROVE  Group(M, call.key, order[i]) = Group(N[i], call.key, order[i])
  BY <1>5 DEF SameOf, Group, OfMetric
<1>7. ASSUME NEW i \in 1..len
      PROVE  /\ CapLeaves(N[i], P[i], call.key, order[i], stays[i])
             /\ \A s \in Group(N[i], call.key, order[i]) : \E y \in N[i] : y[1] = s /\ Newest(N[i], y)
             /\ stays[i] \subseteq Group(N[i], call.key, order[i])
  <2>1. MetricStep(P[i - 1], N[i], P[i], call, order[i], some[i], stays[i])
    BY <1>1
  <2> QED BY Zenon, <2>1 DEF MetricStep, CapLeaves
<1>8. ASSUME NEW i \in 1..len, NEW s, s[1] = call.key, s[2] = order[i] PROVE s \in St <=> s \in stays[i]
  <2>1. ASSUME NEW j \in 1..len, s \in stays[j] PROVE j = i
    <3>1. s[2] = order[j]
      BY <1>7, <2>1 DEF Group
    <3> QED BY <1>1, <1>8, <3>1
  <2> QED BY <2>1
<1>9. \A s \in St : \E name \in SeriesStore!Names(call) : s \in group(name)
  <2> TAKE s \in St
  <2>1. PICK i \in 1..len : s \in stays[i]
    OBVIOUS
  <2>2. s \in group(order[i])
    BY <1>6, <1>7, <2>1
  <2> QED BY <1>4, <2>2
<1> HIDE DEF St
<1>10. ASSUME NEW name \in SeriesStore!Names(call)
       PROVE  SeriesStore!Largest(group(name), St \cap group(name), NewestValues(M, group(name)))
  <2>1. PICK i \in 1..len : order[i] = name
    BY <1>4
  <2> DEFINE more == N[i]
             left == P[i]
             any == stays[i]
  <2>2. \A s \in Group(more, call.key, name) : s \in St <=> s \in any
    BY <1>8, <2>1 DEF Group
  <2>3. /\ CapLeaves(more, left, call.key, name, any)
        /\ \A s \in Group(more, call.key, name) : \E y \in more : y[1] = s /\ Newest(more, y)
        /\ SameOf(M, more, call, name)
    BY <1>5, <1>7, <2>1
  <2> HIDE DEF more, left, any
  <2> QED BY <2>2, <2>3, GroupKept
<1>11. ASSUME NEW x
       PROVE  x \in P[len] <=> x \in M /\ (x[1] \in St \/ x[1][1] # call.key \/ x[1][2] \notin SeriesStore!Names(call))
  <2>1. CASE \E i \in 1..len : OfMetric(x, call, order[i])
    <3>1. PICK i \in 1..len : OfMetric(x, call, order[i])
      BY <2>1
    <3>2. x[1][1] = call.key /\ x[1][2] = order[i] /\ x[1][2] \in SeriesStore!Names(call)
      BY <1>4, <3>1 DEF OfMetric
    <3>3. x[1] \in St <=> x[1] \in stays[i]
      BY <1>8, <3>2
    <3>4. x \in P[len] <=> x \in M /\ x[1] \in stays[i]
      BY Zenon, <1>2, <1>3, <3>1
    <3> QED BY Zenon, <3>2, <3>3, <3>4
  <2>2. CASE ~\E i \in 1..len : OfMetric(x, call, order[i])
    <3>1. x \in P[len] <=> x \in P[0]
      BY Zenon, <1>2, <2>2
    <3>2. x[1][1] # call.key \/ x[1][2] \notin SeriesStore!Names(call)
      BY Zenon, <1>4, <2>2 DEF OfMetric
    <3>3. \A i \in all : SeriesOf(call, i) # x[1]
      <4> SUFFICES ASSUME NEW i \in all, SeriesOf(call, i) = x[1] PROVE FALSE
        OBVIOUS
      <4>1. PICK j \in 1..len : i \in some[j]
        OBVIOUS
      <4>2. call.samples[i].name = order[j]
        <5>1. TakesOf(call, order[j], some[j])
          BY Zenon, <1>1 DEF MetricStep
        <5> QED BY <4>1, <5>1 DEF TakesOf, Finites
      <4>3. x[1][1] = call.key /\ x[1][2] = order[j]
        BY <4>2 DEF SeriesOf
      <4> QED BY Zenon, <2>2, <4>3 DEF OfMetric
    <3> HIDE DEF all
    <3>4. ~SaysOf(P[0], call, all, x[1])
      BY Zenon, <3>3 DEF SaysOf
    <3>5. ~Says(call, all, x)
      <4>1. ASSUME NEW i \in all, x = <<SeriesOf(call, i), call.at, call.samples[i].value>> PROVE FALSE
        <5>1. x[1] = SeriesOf(call, i)
          BY <4>1
        <5> QED BY <3>3, <5>1
      <4> QED BY Zenon, <4>1 DEF Says
    <3>6. x \in M <=> x \in P[0]
      BY Zenon, <1>3, <3>4, <3>5 DEF Measures
    <3> QED BY Zenon, <3>1, <3>2, <3>6
  <2> QED BY <2>1, <2>2
<1> DEFINE left == P[len]
<1>12. left \in SeriesStore!Kept(call, M)
  <2>1. \A x : x \in left <=> x \in M /\ (x[1] \in St \/ x[1][1] # call.key \/ x[1][2] \notin SeriesStore!Names(call))
    BY <1>11
  <2> HIDE DEF left
  <2> QED BY Zenon, <1>9, <1>10, <2>1, KeptIs
<1> QED BY Zenon, <1>12 DEF M, all, AllOf

\* A sequence of a set's members has each of them once.
LEMMA SequenceOfSet ==
  ASSUME NEW S, IsFiniteSet(S), NEW list \in SetToSeqs(S)
  PROVE  /\ Len(list) \in Nat
         /\ \A i \in 1..Len(list) : list[i] \in S
         /\ \A i, j \in 1..Len(list) : list[i] = list[j] => i = j
         /\ \A x \in S : \E i \in 1..Len(list) : list[i] = x
<1> DEFINE n == Cardinality(S)
<1>1. n \in Nat
  BY FS_CardinalityType
<1>2. list \in [1..n -> S] /\ \A i, j \in 1..n : i # j => list[i] # list[j]
  BY DEF SetToSeqs
<1> HIDE DEF n
<1>3. Len(list) = n
  BY <1>1, <1>2
<1>4. list \in Injection(1..n, S)
  BY <1>2 DEF Injection, IsInjective
<1>5. Cardinality(1..n) = n
  <2>1. 1 \in Int /\ n \in Int /\ (1 > n => n = 0) /\ n - 1 + 1 = n
    BY <1>1
  <2> QED BY <2>1, FS_Interval
<1>6. list \in Surjection(1..n, S)
  BY <1>1, <1>4, <1>5, FS_Injection DEF n
<1>7. \A x \in S : \E i \in 1..n : list[i] = x
  BY <1>6 DEF Surjection
<1> QED BY <1>1, <1>2, <1>3, <1>7

\* The steps of a call are such a chain.
LEMMA MetricsChain ==
  ASSUME NEW call, CallOK(call), NEW first, NEW added, NEW order, order \in SetToSeqs(FiniteNames(call)),
         MetricsMade(first, added, call, order)
  PROVE  \E P, N, some, stays :
           /\ P[0] = StatePoints(first) /\ P[Len(order)] = StatePoints(added)
           /\ MetricChain(call, order, Len(order), P, N, some, stays)
           /\ OrderOf(call, order, Len(order))
<1> DEFINE len == Len(order)
<1>1. /\ IsFiniteSet(FiniteNames(call))
      /\ \A name : name \in FiniteNames(call) <=> Finites(call, name) # {}
  BY NamesAreFinite
<1>2. /\ len \in Nat
      /\ \A i \in 1..len : order[i] \in FiniteNames(call)
      /\ \A i, j \in 1..len : order[i] = order[j] => i = j
      /\ \A x \in FiniteNames(call) : \E i \in 1..len : order[i] = x
  BY <1>1, SequenceOfSet
<1>3. PICK F : /\ F[0] = first /\ F[len] = added
               /\ \A i \in 1..len : MetricMade(F[i - 1], F[i], call, order[i])
  BY Zenon DEF MetricsMade
<1> HIDE DEF len
<1> DEFINE P == [i \in 0..len |-> StatePoints(F[i])]
           MoreAt(i, more) == \E some, stays : MetricStep(P[i - 1], more, P[i], call, order[i], some, stays)
           N == [i \in 1..len |-> CHOOSE more : MoreAt(i, more)]
           SomeAt(i, some) == \E stays : MetricStep(P[i - 1], N[i], P[i], call, order[i], some, stays)
           some == [i \in 1..len |-> CHOOSE x : SomeAt(i, x)]
           StayAt(i, left) == MetricStep(P[i - 1], N[i], P[i], call, order[i], some[i], left)
           stays == [i \in 1..len |-> CHOOSE x : StayAt(i, x)]
<1>4. ASSUME NEW i \in 1..len PROVE P[i - 1] = StatePoints(F[i - 1]) /\ P[i] = StatePoints(F[i])
  <2>1. i - 1 \in 0..len /\ i \in 0..len
    BY <1>2
  <2> QED BY <2>1
<1>5. P[0] = StatePoints(first) /\ P[len] = StatePoints(added)
  <2>1. 0 \in 0..len /\ len \in 0..len
    BY <1>2
  <2> QED BY <1>3, <2>1
<1> HIDE DEF P
<1>6. ASSUME NEW i \in 1..len PROVE MetricStep(P[i - 1], N[i], P[i], call, order[i], some[i], stays[i])
  <2>1. MetricMade(F[i - 1], F[i], call, order[i])
    BY <1>3
  <2>2. \E more, x, y : MetricStep(StatePoints(F[i - 1]), more, StatePoints(F[i]), call, order[i], x, y)
    BY Zenon, <2>1, MetricSteps
  <2>3. \E more : MoreAt(i, more)
    BY Zenon, <1>4, <2>2
  <2>4. N[i] = CHOOSE more : MoreAt(i, more)
    BY Zenon
  <2> HIDE DEF N
  <2>5. MoreAt(i, CHOOSE more : MoreAt(i, more))
    <3> HIDE DEF MoreAt
    <3> QED BY Zenon, <2>3
  <2>6. MoreAt(i, N[i])
    <3> HIDE DEF MoreAt
    <3> QED BY Zenon, <2>4, <2>5
  <2>7. \E x : SomeAt(i, x)
    BY Zenon, <2>6
  <2>8. some[i] = CHOOSE x : SomeAt(i, x)
    BY Zenon
  <2> HIDE DEF some
  <2>9. SomeAt(i, some[i])
    <3> HIDE DEF SomeAt
    <3> QED BY Zenon, <2>7, <2>8
  <2>10. \E x : StayAt(i, x)
    BY Zenon, <2>9
  <2>11. stays[i] = CHOOSE x : StayAt(i, x)
    BY Zenon
  <2> HIDE DEF stays
  <2>12. StayAt(i, stays[i])
    <3> HIDE DEF StayAt
    <3> QED BY Zenon, <2>10, <2>11
  <2> QED BY Zenon, <2>12
<1> HIDE DEF N, some, stays
<1>7. MetricChain(call, order, len, P, N, some, stays)
  BY Zenon, <1>2, <1>6 DEF MetricChain
<1>8. OrderOf(call, order, len)
  BY <1>1, <1>2 DEF OrderOf
<1> QED BY Zenon, <1>5, <1>7, <1>8 DEF len

\* What SeriesStore lets a call make of the points.
MayHold(call, points) ==
  UNION {{SeriesStore!Recent(kept, call.at - Retention) :
            kept \in SeriesStore!Kept(call, SeriesStore!Measured(call, some, points))} : some \in SeriesStore!Chosen(call)}

LEMMA PointsIngested ==
  ASSUME NEW call, CallOK(call), NEW old, StateOK(old), NEW new, Ingested(old, new, call)
  PROVE  StatePoints(new) \in MayHold(call, StatePoints(old))
<1>1. PICK order, first, added :
        /\ order \in SetToSeqs(FiniteNames(call))
        /\ first.dict = Intern(old.dict, call.key) /\ first.keys = old.keys /\ first.descs = old.descs
        /\ MetricsMade(first, added, call, order) /\ Left(added, new, call.at - Retention)
  BY Zenon DEF Ingested
<1>2. StatePoints(first) = StatePoints(old)
  <2>1. old.dict \in Dicts /\ SeriesAllOK(old.dict, old.keys) /\ call.key \in Strings
    BY DEF StateOK, CallOK, Strings
  <2>2. Extends(old.dict, first.dict)
    BY <1>1, <2>1, InternIs
  <2> QED BY <1>1, <2>1, <2>2, PointsStay DEF StatePoints
<1> DEFINE len == Len(order)
<1>3. PICK P, N, some, stays :
        /\ P[0] = StatePoints(first) /\ P[len] = StatePoints(added)
        /\ MetricChain(call, order, len, P, N, some, stays) /\ OrderOf(call, order, len)
  BY Zenon, <1>1, MetricsChain
<1>4. len \in Nat
  <2>1. IsFiniteSet(FiniteNames(call))
    BY NamesAreFinite
  <2> QED BY <1>1, <2>1, SequenceOfSet
<1> HIDE DEF len
<1> DEFINE all == AllOf(some, len)
<1>5. all \in SeriesStore!Chosen(call)
  BY Zenon, <1>3, <1>4, ChainChooses
<1>6. P[len] \in SeriesStore!Kept(call, SeriesStore!Measured(call, all, P[0]))
  BY Zenon, <1>3, <1>4, ChainKeeps
<1> HIDE DEF all
<1>7. StatePoints(new) = SeriesStore!Recent(P[len], call.at - Retention)
  <2>1. StatePoints(new) = {y \in P[len] : y[2] >= call.at - Retention}
    BY Zenon, <1>1, <1>3 DEF Left
  <2> QED BY Zenon, <2>1 DEF SeriesStore!Recent
<1>8. P[len] \in SeriesStore!Kept(call, SeriesStore!Measured(call, all, StatePoints(old)))
  BY Zenon, <1>2, <1>3, <1>6
<1> DEFINE Recents(any) ==
             {SeriesStore!Recent(kept, call.at - Retention) :
                kept \in SeriesStore!Kept(call, SeriesStore!Measured(call, any, StatePoints(old)))}
<1>9. StatePoints(new) \in Recents(all)
  BY Zenon, <1>7, <1>8
<1>10. MayHold(call, StatePoints(old)) = UNION {Recents(any) : any \in SeriesStore!Chosen(call)}
  BY Zenon DEF MayHold
<1> HIDE DEF Recents
<1> QED BY Zenon, <1>5, <1>9, <1>10

-----------------------------------------------------------------------------
(* The descriptions, as SeriesStore has them.                               *)

DescribedIn(state) ==
  [name \in {Lookup(state.dict, n) : n \in UNION {DOMAIN state.keys[k] : k \in DOMAIN state.keys}} |->
     DescIn(state.dict, state.descs, name)]

LEMMA DescribedAre ==
  ASSUME NEW state, StateOK(state)
  PROVE  /\ DOMAIN DescribedIn(state) = SeriesStore!Live(StatePoints(state))
         /\ \A name \in DOMAIN DescribedIn(state) :
              /\ DescribedIn(state)[name] = DescIn(state.dict, state.descs, name)
              /\ Knows(state.dict, name) /\ \E y \in StatePoints(state) : name = y[1][2]
<1> DEFINE names == {Lookup(state.dict, n) : n \in UNION {DOMAIN state.keys[k] : k \in DOMAIN state.keys}}
           ids == SeriesIds(state.keys)
<1>1. \A u : u \in names <=> \E i \in ids : u = Lookup(state.dict, i[2])
  <2>1. /\ Full(state.keys)
        /\ \A i \in ids : i[1] \in DOMAIN state.keys /\ i[2] \in DOMAIN state.keys[i[1]]
    BY IdsOfTree DEF StateOK
  <2>2. \A k \in DOMAIN state.keys : \A n \in DOMAIN state.keys[k] : \E i \in ids : i[1] = k /\ i[2] = n
    BY <2>1, BranchesHaveSeries
  <2> HIDE DEF ids
  <2> QED BY <2>1, <2>2
<1>2. DescribedIn(state) = [name \in names |-> DescIn(state.dict, state.descs, name)]
  BY Zenon DEF DescribedIn
<1> HIDE DEF names
<1>3. DOMAIN DescribedIn(state) = names
  BY <1>2
<1>4. \A u : u \in names <=> \E y \in StatePoints(state) : u = y[1][2]
  BY <1>1, PointNames
<1>5. \A u : u \in SeriesStore!Live(StatePoints(state)) <=> \E y \in StatePoints(state) : u = y[1][2]
  BY DEF SeriesStore!Live
<1>6. ASSUME NEW u \in names PROVE Knows(state.dict, u)
  <2>1. PICK i \in ids : u = Lookup(state.dict, i[2])
    BY <1>1
  <2>2. state.dict \in Dicts /\ i[2] \in 0..Len(state.dict)
    BY DEF StateOK, SeriesAllOK, IdOK
  <2> QED BY <2>1, <2>2, LookupIs
<1>7. \A name \in names : DescribedIn(state)[name] = DescIn(state.dict, state.descs, name)
  BY <1>2
<1>8. names = SeriesStore!Live(StatePoints(state))
  BY <1>4, <1>5
<1> QED BY Zenon, <1>3, <1>4, <1>6, <1>7, <1>8

\* The metrics of a call, and their descriptions, one after the other.
DescChain(call, order, len, F) ==
  \A i \in 1..len : /\ Extends(F[i - 1].dict, F[i].dict) /\ Knows(F[i].dict, order[i])
                    /\ DescMade(F[i - 1], F[i], call, order[i])

DescOf(state, u) == DescIn(state.dict, state.descs, u)

LEMMA DescStaysSo ==
  ASSUME NEW call, NEW order, NEW len \in Nat, NEW F, DescChain(call, order, len, F),
         NEW from \in 0..len, NEW u, Knows(F[from].dict, u),
         \A i \in 1..len : from < i => order[i] # u \/ Given(call, u) = {}
  PROVE  DescOf(F[len], u) = DescOf(F[from], u)
<1> DEFINE OK(i) == Knows(F[i].dict, u) /\ DescOf(F[i], u) = DescOf(F[from], u)
           G == {i \in 0..len : from <= i => OK(i)}
<1>1. 0 \in G
  <2>1. from <= 0 => from = 0
    OBVIOUS
  <2>2. OK(from)
    OBVIOUS
  <2> HIDE DEF OK
  <2> QED BY <2>1, <2>2
<1>2. ASSUME NEW i \in 0..(len - 1), i \in G PROVE i + 1 \in G
  <2>1. i + 1 \in 1..len /\ i + 1 \in 0..len /\ (i + 1) - 1 = i
    OBVIOUS
  <2>2. CASE from <= i
    <3>1. OK(i)
      BY <1>2, <2>2
    <3> DEFINE s == F[i]
               t == F[i + 1]
               name == order[i + 1]
    <3>2. Extends(s.dict, t.dict) /\ DescMade(s, t, call, name)
      <4>1. Extends(F[(i + 1) - 1].dict, F[i + 1].dict) /\ DescMade(F[(i + 1) - 1], F[i + 1], call, order[i + 1])
        BY Zenon, <2>1 DEF DescChain
      <4> QED BY <2>1, <4>1
    <3>3. name # u \/ Given(call, u) = {}
      BY <2>1, <2>2
    <3> HIDE DEF s, t, name
    <3>4. Knows(s.dict, u) /\ DescOf(s, u) = DescOf(F[from], u)
      BY <3>1 DEF s
    <3>5. Knows(t.dict, u)
      BY <3>2, <3>4, IdsStay
    <3>6. DescOf(t, u) = DescOf(s, u)
      BY Zenon, <3>2, <3>3, <3>4 DEF DescMade, DescOf
    <3>7. OK(i + 1)
      BY Zenon, <3>4, <3>5, <3>6 DEF t
    <3> HIDE DEF OK
    <3> QED BY <2>1, <3>7
  <2>3. CASE ~(from <= i)
    <3>1. from <= i + 1 => from = i + 1
      BY <2>3
    <3>2. OK(from)
      OBVIOUS
    <3> HIDE DEF OK
    <3> QED BY <2>1, <3>1, <3>2
  <2> QED BY <2>2, <2>3
<1> HIDE DEF G
<1>3. \A i \in 0..len : i \in G
  BY <1>1, <1>2, NatsGrow
<1>4. len \in G /\ from <= len
  BY <1>3
<1>5. OK(len)
  BY <1>4 DEF G
<1> QED BY Zenon, <1>5

\* A metric that the call describes has its first description of it, another one keeps what it had.
LEMMA ChainDescribes ==
  ASSUME NEW call, NEW order, NEW len \in Nat, NEW F, DescChain(call, order, len, F),
         \A i, j \in 1..len : order[i] = order[j] => i = j, NEW u
  PROVE  /\ \A i \in 1..len : order[i] = u => \A text \in Given(call, u) : DescOf(F[len], u) = text
         /\ Knows(F[0].dict, u) /\ ((\A i \in 1..len : order[i] # u) \/ Given(call, u) = {}) =>
              DescOf(F[len], u) = DescOf(F[0], u)
<1>1. ASSUME NEW i \in 1..len, order[i] = u, NEW text \in Given(call, u) PROVE DescOf(F[len], u) = text
  <2>1. Knows(F[i].dict, u) /\ DescOf(F[i], u) = text
    <3>1. Knows(F[i].dict, order[i]) /\ DescMade(F[i - 1], F[i], call, order[i])
      BY Zenon DEF DescChain
    <3>2. \A any \in Given(call, order[i]) : DescIn(F[i].dict, F[i].descs, order[i]) = any
      BY Zenon, <3>1 DEF DescMade
    <3> QED BY Zenon, <1>1, <3>1, <3>2 DEF DescOf
  <2>2. i \in 0..len
    OBVIOUS
  <2>3. \A j \in 1..len : i < j => order[j] # u
    BY <1>1
  <2>4. DescOf(F[len], u) = DescOf(F[i], u)
    BY <2>1, <2>2, <2>3, DescStaysSo
  <2> QED BY Zenon, <2>1, <2>4
<1>2. ASSUME Knows(F[0].dict, u), (\A i \in 1..len : order[i] # u) \/ Given(call, u) = {}
      PROVE  DescOf(F[len], u) = DescOf(F[0], u)
  <2>1. 0 \in 0..len
    OBVIOUS
  <2> QED BY <1>2, <2>1, DescStaysSo
<1> QED BY <1>1, <1>2

LEMMA DescribedIngested ==
  ASSUME NEW call, CallOK(call), NEW old, StateOK(old), NEW new, Ingested(old, new, call)
  PROVE  SeriesStore!MayDescribe(call, DescribedIn(old), DescribedIn(new))
<1> DEFINE was == DescribedIn(old)
           is == DescribedIn(new)
<1>1. PICK order, first, added :
        /\ order \in SetToSeqs(FiniteNames(call))
        /\ first.dict = Intern(old.dict, call.key) /\ first.keys = old.keys /\ first.descs = old.descs
        /\ MetricsMade(first, added, call, order) /\ Left(added, new, call.at - Retention)
  BY Zenon DEF Ingested
<1> DEFINE len == Len(order)
<1>2. /\ len \in Nat
      /\ \A i \in 1..len : order[i] \in FiniteNames(call)
      /\ \A i, j \in 1..len : order[i] = order[j] => i = j
      /\ \A x \in FiniteNames(call) : \E i \in 1..len : order[i] = x
  <2>1. IsFiniteSet(FiniteNames(call))
    BY NamesAreFinite
  <2> QED BY <1>1, <2>1, SequenceOfSet
<1>3. PICK F : F[0] = first /\ F[len] = added /\ DescChain(call, order, len, F)
  BY Zenon, <1>1 DEF MetricsMade, DescChain
<1> HIDE DEF len
<1>4. /\ \A name \in DOMAIN is : /\ is[name] = DescOf(new, name)
                                 /\ \E y \in StatePoints(new) : name = y[1][2]
      /\ \A name \in DOMAIN was : was[name] = DescOf(old, name) /\ Knows(old.dict, name)
  <2>1. StateOK(new)
    BY <1>1 DEF Left
  <2> HIDE DEF is, was
  <2> QED BY <2>1, DescribedAre DEF DescOf, is, was
<1> HIDE DEF is, was
<1>5. ASSUME NEW name \in DOMAIN is PROVE is[name] = DescOf(added, name)
  <2>1. \A y \in StatePoints(new) : DescIn(new.dict, new.descs, y[1][2]) = DescIn(added.dict, added.descs, y[1][2])
    BY Zenon, <1>1 DEF Left
  <2> QED BY Zenon, <1>4, <2>1 DEF DescOf
<1>6. ASSUME NEW name \in DOMAIN was PROVE was[name] = DescOf(first, name) /\ Knows(first.dict, name)
  <2>1. old.dict \in Dicts /\ call.key \in Strings /\ DescsOK(old.dict, old.descs)
    BY DEF StateOK, CallOK, Strings
  <2>2. Extends(old.dict, first.dict)
    BY <1>1, <2>1, InternIs
  <2>3. Knows(old.dict, name) /\ was[name] = DescOf(old, name)
    BY Zenon, <1>4
  <2>4. Knows(first.dict, name) /\ DescIn(first.dict, old.descs, name) = DescIn(old.dict, old.descs, name)
    BY <2>1, <2>2, <2>3, DescStays
  <2> QED BY Zenon, <1>1, <2>3, <2>4 DEF DescOf
<1>7. ASSUME NEW name
      PROVE  /\ \A i \in 1..len : order[i] = name => \A text \in Given(call, name) : DescOf(added, name) = text
             /\ Knows(first.dict, name) /\ ((\A i \in 1..len : order[i] # name) \/ Given(call, name) = {}) =>
                  DescOf(added, name) = DescOf(first, name)
  <2>1. /\ \A i \in 1..len : order[i] = name => \A text \in Given(call, name) : DescOf(F[len], name) = text
        /\ Knows(F[0].dict, name) /\ ((\A i \in 1..len : order[i] # name) \/ Given(call, name) = {}) =>
             DescOf(F[len], name) = DescOf(F[0], name)
    BY <1>2, <1>3, ChainDescribes
  <2> QED BY Zenon, <1>3, <2>1
<1> DEFINE about(name) == {i \in DOMAIN call.descs : name \in call.descs[i].covers}
<1>8. ASSUME NEW name
      PROVE  /\ about(name) # {} => Given(call, name) = {call.descs[SeriesStore!Min(about(name))].text}
             /\ about(name) = {} => Given(call, name) = {}
  <2>1. Given(call, name) = IF about(name) = {} THEN {} ELSE {call.descs[Min(about(name))].text}
    BY Zenon DEF Given, Description
  <2>2. SeriesStore!Min(about(name)) = Min(about(name))
    BY Zenon, SameLeast
  <2> HIDE DEF about
  <2> QED BY <2>1, <2>2
<1>9. \A name : name \in SeriesStore!Names(call) <=> \E i \in 1..len : order[i] = name
  <2>1. \A name : name \in FiniteNames(call) <=> Finites(call, name) # {}
    BY NamesAreFinite
  <2>2. \A name : name \in SeriesStore!Names(call) <=> Finites(call, name) # {}
    BY SameWords
  <2> QED BY Zenon, <1>2, <2>1, <2>2
<1>10. ASSUME NEW name \in DOMAIN is
       PROVE  IF about(name) # {} /\ name \in SeriesStore!Names(call)
              THEN is[name] = call.descs[SeriesStore!Min(about(name))].text
              ELSE name \in DOMAIN was => is[name] = was[name]
  <2> HIDE DEF about
  <2>1. CASE about(name) # {} /\ name \in SeriesStore!Names(call)
    <3>1. PICK i \in 1..len : order[i] = name
      BY <1>9, <2>1
    <3>2. call.descs[SeriesStore!Min(about(name))].text \in Given(call, name)
      BY <1>8, <2>1
    <3>3. DescOf(added, name) = call.descs[SeriesStore!Min(about(name))].text
      BY Zenon, <1>7, <3>1, <3>2
    <3> QED BY Zenon, <1>5, <2>1, <3>3
  <2>2. CASE ~(about(name) # {} /\ name \in SeriesStore!Names(call))
    <3>1. ASSUME name \in DOMAIN was PROVE is[name] = was[name]
      <4>1. (\A i \in 1..len : order[i] # name) \/ Given(call, name) = {}
        BY Zenon, <1>8, <1>9, <2>2
      <4>2. DescOf(added, name) = DescOf(first, name)
        BY Zenon, <1>6, <1>7, <3>1, <4>1
      <4> QED BY Zenon, <1>5, <1>6, <3>1, <4>2
    <3> QED BY Zenon, <2>2, <3>1
  <2> QED BY Zenon, <2>1, <2>2
<1> QED BY Zenon, <1>10 DEF SeriesStore!MayDescribe, is, was

-----------------------------------------------------------------------------
(* Each step is one of SeriesStore, or changes nothing that it speaks of.   *)

LEMMA DescribedIsThis == Described = DescribedIn(StoreNow)
<1>1. StoreNow.dict = dict /\ StoreNow.keys = keys /\ StoreNow.descs = descs
  BY DEF StoreNow
<1> QED BY Zenon, <1>1 DEF Described, DescribedIn, DescIn

LEMMA StoreStarts == Init => SeriesStore!Init
<1> SUFFICES ASSUME Init PROVE SeriesStore!Init
  OBVIOUS
<1>1. dict = <<>> /\ keys = <<>> /\ descs = <<>> /\ pending = {}
  BY DEF Init, InitStore
<1>2. DOMAIN keys = {}
  BY <1>1
<1>3. Points = {}
  <2>1. SeriesIds(keys) = {}
    BY <1>2 DEF SeriesIds
  <2> QED BY <2>1 DEF Points
<1>4. Described = <<>>
  <2> DEFINE names == {Lookup(dict, n) : n \in UNION {DOMAIN keys[k] : k \in DOMAIN keys}}
             of(name) == Lookup(dict, IF Id(dict, name) \in DOMAIN descs THEN descs[Id(dict, name)] ELSE 0)
  <2>1. Described = [name \in names |-> of(name)]
    BY Zenon DEF Described
  <2>2. names = {}
    BY <1>2
  <2> HIDE DEF names, of
  <2> QED BY <2>1, <2>2
<1> QED BY <1>1, <1>3, <1>4 DEF SeriesStore!Init

LEMMA CallIsAllowed ==
  ASSUME StoreInv, NEW call \in pending, Ingest(call), CallOK(call)
  PROVE  SeriesStore!Ingest(call)
<1> DEFINE old == StoreNow
           new == StoreNow'
<1>1. StateOK(old)
  BY DEF StoreInv
<1>2. /\ pending' = pending \ {call}
      /\ FiniteNames(call) = {} => UNCHANGED storeVars
      /\ FiniteNames(call) # {} => Ingested(old, new, call)
  BY <1>1, IngestIs
<1>3. FiniteNames(call) = {} <=> SeriesStore!Names(call) = {}
  <2>1. \A name : name \in FiniteNames(call) <=> Finites(call, name) # {}
    BY NamesAreFinite
  <2>2. \A name : name \in SeriesStore!Names(call) <=> Finites(call, name) # {}
    BY SameWords
  <2> QED BY <2>1, <2>2
<1>4. Points = StatePoints(old) /\ Described = DescribedIn(old)
  BY Zenon, PointsAreThese, DescribedIsThis
<1>5. Points' = StatePoints(new) /\ Described' = DescribedIn(new)
  <2>1. (Points = StatePoints(StoreNow))' /\ (Described = DescribedIn(StoreNow))'
    BY PointsAreThese, DescribedIsThis, PTL
  <2> QED BY <2>1
<1>6. CASE FiniteNames(call) = {}
  <2>1. UNCHANGED <<dict, keys, descs>>
    BY <1>2, <1>6 DEF storeVars
  <2>2. UNCHANGED <<Points, Described>>
    BY <2>1 DEF Points, Meant, Described
  <2> QED BY Zenon, <1>2, <1>3, <1>6, <2>2 DEF SeriesStore!Ingest
<1>7. CASE FiniteNames(call) # {}
  <2> HIDE DEF old, new
  <2>1. Ingested(old, new, call)
    BY <1>2, <1>7
  <2>2. StateOK(new)
    BY Zenon, <2>1 DEF Ingested, Left
  <2>3. StatePoints(new) \in MayHold(call, StatePoints(old))
    BY Zenon, <1>1, <2>1, PointsIngested
  <2>4. DOMAIN DescribedIn(new) = SeriesStore!Live(StatePoints(new))
    BY Zenon, <2>2, DescribedAre
  <2>5. SeriesStore!MayDescribe(call, DescribedIn(old), DescribedIn(new))
    BY Zenon, <1>1, <2>1, DescribedIngested
  <2> QED BY Zenon, <1>2, <1>3, <1>4, <1>5, <1>7, <2>3, <2>4, <2>5 DEF SeriesStore!Ingest, MayHold
<1> QED BY <1>6, <1>7

LEMMA ReadIsAllowed ==
  ASSUME StoreInv, NEW now \in Times, Query(now)
  PROVE  SeriesStore!Query(now)
<1> DEFINE old == StoreNow
           new == StoreNow'
           was == DescribedIn(old)
           is == DescribedIn(new)
           P == StatePoints(new)
<1>1. StateOK(old)
  BY DEF StoreInv
<1>2. UNCHANGED pending /\ Left(old, new, now - Retention)
  BY <1>1, QueryIs
<1>3. Points = StatePoints(old) /\ Described = was
  BY Zenon, PointsAreThese, DescribedIsThis
<1>4. Points' = P /\ Described' = is
  <2>1. (Points = StatePoints(StoreNow))' /\ (Described = DescribedIn(StoreNow))'
    BY PointsAreThese, DescribedIsThis, PTL
  <2> QED BY <2>1
<1> HIDE DEF old, new
<1>5. StateOK(new) /\ P = {y \in StatePoints(old) : y[2] >= now - Retention}
  BY Zenon, <1>2 DEF Left
<1>6. P = SeriesStore!Recent(StatePoints(old), now - Retention)
  BY Zenon, <1>5 DEF SeriesStore!Recent
<1>7. /\ DOMAIN is = SeriesStore!Live(P)
      /\ \A name \in DOMAIN is : /\ is[name] = DescIn(new.dict, new.descs, name)
                                 /\ \E y \in P : name = y[1][2]
  BY Zenon, <1>5, DescribedAre
<1>8. /\ DOMAIN was = SeriesStore!Live(StatePoints(old))
      /\ \A name \in DOMAIN was : was[name] = DescIn(old.dict, old.descs, name)
  BY Zenon, <1>1, DescribedAre
<1>9. \A name \in DOMAIN is : is[name] = was[name]
  <2> TAKE name \in DOMAIN is
  <2>1. PICK y \in P : name = y[1][2]
    BY Zenon, <1>7
  <2>2. y \in StatePoints(old)
    BY <1>5
  <2>3. name \in DOMAIN was
    BY <1>8, <2>1, <2>2 DEF SeriesStore!Live
  <2>4. DescIn(new.dict, new.descs, name) = DescIn(old.dict, old.descs, name)
    BY Zenon, <1>2, <2>1 DEF Left
  <2> QED BY Zenon, <1>7, <1>8, <2>3, <2>4
<1>10. is = SeriesStore!Restrict(was, SeriesStore!Live(P))
  <2>1. is = [name \in DOMAIN is |-> is[name]]
    BY DEF DescribedIn
  <2>2. SeriesStore!Restrict(was, SeriesStore!Live(P)) = [name \in DOMAIN is |-> was[name]]
    BY Zenon, <1>7 DEF SeriesStore!Restrict
  <2> HIDE DEF is, was, P
  <2>3. [name \in DOMAIN is |-> is[name]] = [name \in DOMAIN is |-> was[name]]
    BY <1>9
  <2> QED BY Zenon, <2>1, <2>2, <2>3
<1> HIDE DEF is, was, P
<1> QED BY Zenon, <1>2, <1>3, <1>4, <1>6, <1>10 DEF SeriesStore!Query

LEMMA StepIsAllowed ==
  ASSUME StoreInv, [Next]_vars
  PROVE  [SeriesStore!Next]_(SeriesStore!vars)
<1>1. CASE /\ \E t \in Targets, at \in Times : Tick(t, at)
           /\ UNCHANGED <<dict, keys, descs, lastCompact>>
  <2>1. UNCHANGED <<Points, Described>>
    BY <1>1 DEF Points, Meant, Described
  <2>2. pending \subseteq pending'
    BY <1>1 DEF Tick
  <2>3. CASE pending = pending'
    BY Zenon, <2>1, <2>3 DEF SeriesStore!vars
  <2>4. CASE pending # pending'
    <3>1. SeriesStore!Request
      BY Zenon, <2>1, <2>2, <2>4 DEF SeriesStore!Request
    <3> QED BY Zenon, <3>1 DEF SeriesStore!Next
  <2> QED BY <2>3, <2>4
<1>2. CASE \E call \in pending : Ingest(call) /\ CallOK(call) /\ UNCHANGED <<collected, collectedDescs, ticks>>
  <2>1. PICK call \in pending : Ingest(call) /\ CallOK(call)
    BY <1>2
  <2>2. SeriesStore!Ingest(call)
    BY <2>1, CallIsAllowed
  <2> QED BY Zenon, <2>2 DEF SeriesStore!Next
<1>3. CASE \E now \in Times : Query(now) /\ UNCHANGED <<collected, collectedDescs, ticks>>
  <2>1. PICK now \in Times : Query(now)
    BY <1>3
  <2>2. SeriesStore!Query(now)
    BY <2>1, ReadIsAllowed
  <2> QED BY Zenon, <2>2 DEF SeriesStore!Next
<1>4. CASE UNCHANGED vars
  <2>1. UNCHANGED <<dict, keys, descs, pending>>
    BY <1>4 DEF vars
  <2>2. UNCHANGED <<Points, Described>>
    BY <2>1 DEF Points, Meant, Described
  <2> QED BY <2>1, <2>2 DEF SeriesStore!vars
<1> QED BY <1>1, <1>2, <1>3, <1>4, StepIs

\* The store keeps of every series the values that were measured, under the right key, metric
\* and labels, forgets what is too old and has no more series than the cap allows: ids,
\* postings, columns, the dictionary and its compaction change nothing of that (metrics.go).
THEOREM StoreKeepsWhatWasMeasured == Spec => KeepsSeries
<1>1. Init => SeriesStore!Init
  BY StoreStarts
<1>2. StoreInv /\ [Next]_vars => [SeriesStore!Next]_(SeriesStore!vars)
  BY StepIsAllowed
<1> QED BY <1>1, <1>2, StoreInvHolds, PTL DEF Spec, KeepsSeries, SeriesStore!Spec
=============================================================================
