--------------------------- MODULE CollectorsProofs ---------------------------
(****************************************************************************)
(* Proofs about what the collectors read and what the store keeps in files, *)
(* in the order of the modules below: a fail map and its state say what the *)
(* reports say, for any number of items; a restart brings back what the     *)
(* store kept, whatever the disk refused, unless the journal told of it; no *)
(* more heap profiles are written than memory got worse; a fail ratio       *)
(* counts exactly what was told in its window; a document of the states     *)
(* agrees with itself and with what there was while it was read; a trend is *)
(* told of the readings that lasted; and a chart shows what was triggering  *)
(* when, before a restart and after it, or has told of the loss.            *)
(****************************************************************************)
EXTENDS
  FailMap, StorageHealth, HeapProfiles, FailRatio, ProgramStates, TrendCheck, ChartStores,
  FiniteSetTheorems, WellFoundedInduction, TLAPS

-----------------------------------------------------------------------------
(* Sets of numbers.                                                         *)

LEMMA LeastOfNats ==
  ASSUME NEW S \in SUBSET Nat, S # {}
  PROVE  Min(S) \in S /\ \A k \in S : Min(S) <= k
<1> DEFINE T == {0..k : k \in S}
<1>1. T \subseteq FiniteSubsetsOf(Nat) /\ T # {}
  <2>1. ASSUME NEW k \in S PROVE 0..k \in FiniteSubsetsOf(Nat)
    <3>1. k \in Int /\ 0 \in Int /\ 0..k \in SUBSET Nat
      OBVIOUS
    <3> QED BY <3>1, FS_Interval DEF FiniteSubsetsOf
  <2> QED BY <2>1
<1>2. IsWellFoundedOn(StrictSubsetOrdering(Nat), FiniteSubsetsOf(Nat))
  BY FS_StrictSubsetOrderingWellFounded
<1> HIDE DEF T
<1>3. \E x \in T : \A y \in T : ~ (<<y, x>> \in StrictSubsetOrdering(Nat))
  BY <1>1, <1>2, WFMin
<1>4. PICK x \in S : \A y \in T : ~ (<<y, 0..x>> \in StrictSubsetOrdering(Nat))
  BY <1>3 DEF T
<1>5. ASSUME NEW y \in S, ~(x <= y) PROVE FALSE
  <2>1. x \in Nat /\ y \in Nat /\ y < x
    BY <1>5
  <2>2. 0..y \subseteq 0..x /\ 0..x \in SUBSET Nat /\ x \in 0..x /\ x \notin 0..y
    BY <2>1
  <2>3. <<0..y, 0..x>> \in StrictSubsetOrdering(Nat)
    BY <2>2 DEF StrictSubsetOrdering
  <2> QED BY <1>4, <2>3 DEF T
<1>6. \A y \in S : x <= y
  BY <1>5
<1>7. \A y \in S : (\A z \in S : y <= z) => y = x
  BY <1>6
<1> QED BY <1>6, <1>7 DEF Min

\* A set that is empty or has one member has no more than one.
LEMMA NoneOrOne ==
  ASSUME NEW S, S = {} \/ \E x : S = {x}
  PROVE  Cardinality(S) <= 1
<1>1. S = {} => Cardinality(S) = 0
  BY FS_EmptySet
<1>2. ASSUME NEW x, S = {x} PROVE Cardinality(S) = 1
  BY <1>2, FS_Singleton
<1> QED BY <1>1, <1>2

-----------------------------------------------------------------------------
(* The failures of FailMap.                                                 *)

\* The reports are of items; so is what is kept.
ReportTypes ==
  /\ mapTime \in Nat
  /\ reports \in Seq([item : Items, ok : BOOLEAN, why : Reasons \cup {"none"}, at : Nat])
  /\ failures = [i \in DOMAIN failures |-> failures[i]]

\* An item that fails has a first and a last report of its failure, and is kept as
\* the one says since when and the other why.
FirstAndLast(i) ==
  \E a, b \in Failures(i) :
    /\ \A k \in Failures(i) : a <= k /\ k <= b
    /\ failures[i] = [since |-> reports[a].at, why |-> reports[b].why]

FailuresKept ==
  /\ \A i \in Items : i \in DOMAIN failures <=> Failures(i) # {}
  /\ DOMAIN failures \subseteq Items
  /\ \A i \in DOMAIN failures : FirstAndLast(i)

\* The inductive invariant.
FailuresInv == ReportTypes /\ FailuresKept

\* The least and the greatest member of a set are those that are less and greater.
LEMMA LeastIsMin ==
  ASSUME NEW S \in SUBSET Int, NEW a \in S, \A k \in S : a <= k
  PROVE  Min(S) = a
<1>1. \A x \in S : (\A y \in S : x <= y) => x = a
  OBVIOUS
<1> QED BY <1>1 DEF Min

LEMMA GreatestIsMax ==
  ASSUME NEW S \in SUBSET Int, NEW b \in S, \A k \in S : k <= b
  PROVE  Max(S) = b
<1>1. \A x \in S : (\A y \in S : x >= y) => x = b
  OBVIOUS
<1> QED BY <1>1 DEF Max

\* What a report changes about who has failed since when.
Reported(i, ok) ==
  LET n == Len(reports)
  IN  /\ Len(reports') = n + 1
      /\ \A k \in 1..n : reports'[k] = reports[k]
      /\ Failures(i)' = IF ok THEN {} ELSE Failures(i) \cup {n + 1}
      /\ \A j \in Items : j # i => Failures(j)' = Failures(j)

\* What is appended.
TheReport(i, ok, why) == [item |-> i, ok |-> ok, why |-> why, at |-> mapTime]

LEMMA ReportChanges ==
  ASSUME ReportTypes, NEW i \in Items, NEW ok \in BOOLEAN, NEW why \in Reasons \cup {"none"},
         Report(i, ok, why)
  PROVE  /\ Reported(i, ok)
         /\ reports' \in Seq([item : Items, ok : BOOLEAN, why : Reasons \cup {"none"}, at : Nat])
         /\ reports'[Len(reports) + 1] = TheReport(i, ok, why)
<1> DEFINE n == Len(reports)
           Reps == [item : Items, ok : BOOLEAN, why : Reasons \cup {"none"}, at : Nat]
<1>1. reports \in Seq(Reps) /\ n \in Nat /\ TheReport(i, ok, why) \in Reps
  BY DEF ReportTypes, TheReport
<1>2. reports' = Append(reports, TheReport(i, ok, why))
  BY DEF Report, TheReport
<1>3. /\ reports' \in Seq(Reps) /\ Len(reports') = n + 1
      /\ reports'[n + 1] = TheReport(i, ok, why)
      /\ \A k \in 1..n : reports'[k] = reports[k]
  BY <1>1, <1>2
<1>4. reports'[n + 1].item = i /\ reports'[n + 1].ok = ok
  BY <1>3 DEF TheReport
<1>5. Failures(i)' = IF ok THEN {} ELSE Failures(i) \cup {n + 1}
  <2>1. CASE ok
    <3> SUFFICES ASSUME NEW k \in Failures(i)' PROVE FALSE
      BY <2>1
    <3>1. k \in 1..n+1 /\ ~reports'[k].ok /\ \A l \in k+1..n+1 : reports'[l].item = i => ~reports'[l].ok
      BY <1>3 DEF Failures
    <3>2. CASE k = n + 1
      BY <1>4, <2>1, <3>1, <3>2
    <3>3. CASE k # n + 1
      <4>1. n + 1 \in k+1..n+1
        BY <1>1, <3>1, <3>3
      <4> QED BY <1>4, <2>1, <3>1, <4>1
    <3> QED BY <3>2, <3>3
  <2>2. CASE ~ok
    <3>1. ASSUME NEW k \in 1..n
          PROVE  k \in Failures(i)' <=> k \in Failures(i)
      <4>1. k \in 1..n+1 /\ reports'[k] = reports[k]
        BY <1>1, <1>3
      <4>2. \A l \in k+1..n : l \in k+1..n+1 /\ reports'[l] = reports[l]
        BY <1>1, <1>3
      <4>3. \A l \in k+1..n+1 : l = n + 1 \/ l \in k+1..n
        BY <1>1
      <4> QED BY <1>1, <1>3, <1>4, <2>2, <4>1, <4>2, <4>3 DEF Failures
    <3>2. n + 1 \in Failures(i)'
      <4>1. n + 1 \in 1..n+1 /\ (n+1)+1..n+1 = {}
        BY <1>1
      <4> QED BY <1>3, <1>4, <2>2, <4>1 DEF Failures
    <3>3. Failures(i) \subseteq 1..n /\ Failures(i)' \subseteq 1..n+1
      BY <1>3 DEF Failures
    <3>4. 1..n+1 = 1..n \cup {n + 1}
      BY <1>1
    <3> QED BY <2>2, <3>1, <3>2, <3>3, <3>4
  <2> QED BY <2>1, <2>2
<1>6. ASSUME NEW j \in Items, j # i PROVE Failures(j)' = Failures(j)
  <2>1. ASSUME NEW k \in 1..n
        PROVE  k \in Failures(j)' <=> k \in Failures(j)
    <3>1. k \in 1..n+1 /\ reports'[k] = reports[k]
      BY <1>1, <1>3
    <3>2. \A l \in k+1..n : l \in k+1..n+1 /\ reports'[l] = reports[l]
      BY <1>1, <1>3
    <3>3. \A l \in k+1..n+1 : l = n + 1 \/ l \in k+1..n
      BY <1>1
    <3> QED BY <1>1, <1>3, <1>4, <1>6, <3>1, <3>2, <3>3 DEF Failures
  <2>2. n + 1 \notin Failures(j)'
    BY <1>4, <1>6 DEF Failures
  <2>3. Failures(j) \subseteq 1..n /\ Failures(j)' \subseteq 1..n+1
    BY <1>3 DEF Failures
  <2>4. 1..n+1 = 1..n \cup {n + 1}
    BY <1>1
  <2> QED BY <2>1, <2>2, <2>3, <2>4
<1> QED BY <1>3, <1>5, <1>6 DEF Reported

LEMMA FailuresInit == MapInit => FailuresInv
<1> SUFFICES ASSUME MapInit PROVE FailuresInv
  OBVIOUS
<1>1. reports = <<>> /\ Len(reports) = 0 /\ DOMAIN failures = {} /\ failures = <<>> /\ mapTime = 0
  BY DEF MapInit
<1>2. ReportTypes
  BY <1>1 DEF ReportTypes
<1>3. \A i \in Items : Failures(i) = {}
  BY <1>1 DEF Failures
<1> QED BY <1>1, <1>2, <1>3 DEF FailuresInv, FailuresKept

\* A failure is since its first report, and for the reason of its last.
LEMMA FailKeeps ==
  ASSUME FailuresInv, NEW i \in Items, NEW why \in Reasons, FailItem(i, why)
  PROVE  FailuresInv'
<1> DEFINE n == Len(reports)
<1>1. /\ Reported(i, FALSE) /\ reports'[n + 1] = TheReport(i, FALSE, why)
      /\ reports' \in Seq([item : Items, ok : BOOLEAN, why : Reasons \cup {"none"}, at : Nat])
  BY ReportChanges DEF FailItem, FailuresInv
<1>2. failures' = Refreshed(i, why) /\ mapTime' = mapTime
  BY DEF FailItem, Report
<1>3. /\ DOMAIN failures' = DOMAIN failures \cup {i}
      /\ \A j \in DOMAIN failures : j # i => failures'[j] = failures[j]
      /\ failures'[i] = [since |-> IF i \in DOMAIN failures THEN failures[i].since ELSE mapTime, why |-> why]
      /\ failures' = [j \in DOMAIN failures' |-> failures'[j]]
  BY <1>2 DEF Refreshed
<1>4. ReportTypes'
  BY <1>1, <1>2, <1>3 DEF ReportTypes, FailuresInv
<1>5. n \in Nat /\ \A j \in Items : Failures(j) \subseteq 1..n
  BY DEF FailuresInv, ReportTypes, Failures
<1>6. ASSUME NEW j \in DOMAIN failures' PROVE FirstAndLast(j)'
  <2>1. CASE j # i
    <3>1. j \in DOMAIN failures /\ j \in Items /\ failures'[j] = failures[j] /\ Failures(j)' = Failures(j)
      BY <1>1, <1>3, <2>1 DEF FailuresInv, FailuresKept, Reported
    <3>2. PICK a, b \in Failures(j) :
            /\ \A k \in Failures(j) : a <= k /\ k <= b
            /\ failures[j] = [since |-> reports[a].at, why |-> reports[b].why]
      BY <3>1 DEF FailuresInv, FailuresKept, FirstAndLast
    <3>3. reports'[a] = reports[a] /\ reports'[b] = reports[b]
      BY <1>1, <1>5, <3>1 DEF Reported
    <3> QED BY <3>1, <3>2, <3>3 DEF FirstAndLast
  <2>2. CASE j = i /\ i \in DOMAIN failures
    <3>1. PICK a, b \in Failures(i) :
            /\ \A k \in Failures(i) : a <= k /\ k <= b
            /\ failures[i] = [since |-> reports[a].at, why |-> reports[b].why]
      BY <2>2 DEF FailuresInv, FailuresKept, FirstAndLast
    <3>2. Failures(i)' = Failures(i) \cup {n + 1} /\ a \in 1..n /\ reports'[a] = reports[a]
      BY <1>1, <1>5 DEF Reported
    <3>3. failures'[i] = [since |-> reports'[a].at, why |-> reports'[n + 1].why]
      BY <1>1, <1>3, <2>2, <3>1, <3>2 DEF TheReport
    <3>4. \A k \in Failures(i)' : a <= k /\ k <= n + 1
      BY <1>5, <3>1, <3>2
    <3> QED BY <2>2, <3>2, <3>3, <3>4 DEF FirstAndLast
  <2>3. CASE j = i /\ i \notin DOMAIN failures
    <3>1. Failures(i)' = {n + 1}
      BY <1>1, <2>3 DEF FailuresInv, FailuresKept, Reported
    <3>2. failures'[i] = [since |-> reports'[n + 1].at, why |-> reports'[n + 1].why]
      BY <1>1, <1>3, <2>3 DEF TheReport
    <3> QED BY <1>5, <2>3, <3>1, <3>2 DEF FirstAndLast
  <2> QED BY <2>1, <2>2, <2>3
<1>7. DOMAIN failures' \subseteq Items /\ \A j \in Items : j \in DOMAIN failures' <=> Failures(j)' # {}
  BY <1>1, <1>3 DEF FailuresInv, FailuresKept, Reported
<1> QED BY <1>4, <1>6, <1>7 DEF FailuresInv, FailuresKept

\* A pass forgets the item, and a pass of one that does not fail forgets nothing.
LEMMA PassKeeps ==
  ASSUME FailuresInv, NEW i \in Items, PassItem(i)
  PROVE  FailuresInv'
<1> DEFINE n == Len(reports)
<1>1. /\ Reported(i, TRUE)
      /\ reports' \in Seq([item : Items, ok : BOOLEAN, why : Reasons \cup {"none"}, at : Nat])
  BY ReportChanges DEF PassItem, FailuresInv
<1>2. /\ mapTime' = mapTime
      /\ DOMAIN failures' = DOMAIN failures \ {i}
      /\ \A j \in DOMAIN failures' : failures'[j] = failures[j]
      /\ failures' = [j \in DOMAIN failures' |-> failures'[j]]
  BY DEF PassItem, Report, FailuresInv, ReportTypes
<1>3. ReportTypes'
  BY <1>1, <1>2 DEF ReportTypes, FailuresInv
<1>4. n \in Nat /\ \A j \in Items : Failures(j) \subseteq 1..n
  BY DEF FailuresInv, ReportTypes, Failures
<1>5. ASSUME NEW j \in DOMAIN failures' PROVE FirstAndLast(j)'
  <2>1. j \in DOMAIN failures /\ j \in Items /\ failures'[j] = failures[j] /\ Failures(j)' = Failures(j)
    BY <1>1, <1>2 DEF FailuresInv, FailuresKept, Reported
  <2>2. PICK a, b \in Failures(j) :
          /\ \A k \in Failures(j) : a <= k /\ k <= b
          /\ failures[j] = [since |-> reports[a].at, why |-> reports[b].why]
    BY <2>1 DEF FailuresInv, FailuresKept, FirstAndLast
  <2>3. reports'[a] = reports[a] /\ reports'[b] = reports[b]
    BY <1>1, <1>4, <2>1 DEF Reported
  <2> QED BY <2>1, <2>2, <2>3 DEF FirstAndLast
<1>6. DOMAIN failures' \subseteq Items /\ \A j \in Items : j \in DOMAIN failures' <=> Failures(j)' # {}
  BY <1>1, <1>2 DEF FailuresInv, FailuresKept, Reported
<1> QED BY <1>3, <1>5, <1>6 DEF FailuresInv, FailuresKept

LEMMA FailuresStep == FailuresInv /\ [MapNext]_mapVars => FailuresInv'
<1> SUFFICES ASSUME FailuresInv, [MapNext]_mapVars PROVE FailuresInv'
  OBVIOUS
<1>1. CASE \E i \in Items, why \in Reasons : FailItem(i, why)
  BY <1>1, FailKeeps
<1>2. CASE \E i \in Items : PassItem(i)
  BY <1>2, PassKeeps
<1>3. CASE UNCHANGED <<failures, reports>> /\ mapTime' \in Nat
  BY <1>3 DEF FailuresInv, FailuresKept, ReportTypes, FirstAndLast, Failures
<1>4. \/ \E i \in Items, why \in Reasons : FailItem(i, why)
      \/ \E i \in Items : PassItem(i)
      \/ UNCHANGED <<failures, reports>> /\ mapTime' \in Nat
  BY DEF MapNext, MapSnapshot, MapTick, mapVars, FailuresInv, ReportTypes
<1> QED BY <1>1, <1>2, <1>3, <1>4

LEMMA KeptAreRight == FailuresInv => FailuresAreRight
<1> SUFFICES ASSUME FailuresInv PROVE FailuresAreRight
  OBVIOUS
<1>1. Len(reports) \in Nat /\ \A i \in Items : Failures(i) \subseteq 1..Len(reports)
  BY DEF FailuresInv, ReportTypes, Failures
<1>2. FailingBy(Len(reports)) = {i \in Items : Failures(i) # {}}
  BY DEF FailingBy, Failures
<1>3. DOMAIN failures = FailingBy(Len(reports))
  BY <1>2 DEF FailuresInv, FailuresKept
<1>4. ASSUME NEW i \in DOMAIN failures
      PROVE  failures[i] = [since |-> reports[Min(Failures(i))].at, why |-> reports[Max(Failures(i))].why]
  <2>1. PICK a, b \in Failures(i) :
          /\ \A k \in Failures(i) : a <= k /\ k <= b
          /\ failures[i] = [since |-> reports[a].at, why |-> reports[b].why]
    BY DEF FailuresInv, FailuresKept, FirstAndLast
  <2>2. Failures(i) \in SUBSET Int
    BY <1>1 DEF FailuresInv, FailuresKept
  <2>3. Min(Failures(i)) = a /\ Max(Failures(i)) = b
    BY <2>1, <2>2, LeastIsMin, GreatestIsMax
  <2> QED BY <2>1, <2>3
<1> QED BY <1>3, <1>4 DEF FailuresAreRight

\* For any items and reports: those fail whose last report says so, each since the
\* first after it last passed and for the reason of the last (FailMap.Fail, Pass).
THEOREM FailuresAlwaysRight == MapSpec => []FailuresAreRight
<1> QED BY FailuresInit, FailuresStep, KeptAreRight, PTL DEF MapSpec

-----------------------------------------------------------------------------
(* The state of FailMap.                                                    *)

\* The reports since which some item failed all the time.
FailingSince == {k \in 1..Len(reports) : \A l \in k..Len(reports) : FailingBy(l) # {}}

\* The state was set by what fails, and has changed when that began.
StateSet ==
  /\ mapState.status = MapStatus(failures)
  /\ ~mapState.isSet => DOMAIN failures = {}
  /\ DOMAIN mapState.secs = DOMAIN failures
  /\ \A i \in DOMAIN failures : mapState.secs[i] + failures[i].since = mapState.updatedAt

ChangeKept ==
  FailingSince # {} =>
    \E a \in FailingSince : (\A k \in FailingSince : a <= k) /\ mapState.changedAt = reports[a].at

\* The inductive invariant.
StateInv == FailuresInv /\ StateSet /\ ChangeKept

LEMMA SinceIsNat == FailuresInv => \A i \in DOMAIN failures : failures[i].since \in Nat
<1> SUFFICES ASSUME FailuresInv, NEW i \in DOMAIN failures PROVE failures[i].since \in Nat
  OBVIOUS
<1>1. PICK a \in Failures(i) : failures[i].since = reports[a].at
  BY DEF FailuresInv, FailuresKept, FirstAndLast
<1>2. a \in 1..Len(reports)
  BY DEF Failures
<1> DEFINE Reps == [item : Items, ok : BOOLEAN, why : Reasons \cup {"none"}, at : Nat]
<1>3. reports[a] \in Reps
  <2>1. reports \in Seq(Reps)
    BY DEF FailuresInv, ReportTypes
  <2> HIDE DEF Reps
  <2> QED BY <1>2, <2>1
<1>4. reports[a].at \in Nat
  BY <1>3
<1> QED BY <1>1, <1>4

\* What fails by now is what is kept.
LEMMA FailingNow == FailuresInv => FailingBy(Len(reports)) = DOMAIN failures
<1>1. FailingBy(Len(reports)) = {i \in Items : Failures(i) # {}}
  BY DEF FailingBy, Failures
<1> QED BY <1>1 DEF FailuresInv, FailuresKept

\* Setting the state by what fails now.
LEMMA UpdateSets ==
  ASSUME FailuresInv, StateSet, FailuresInv', mapTime' = mapTime, mapState' = Updated(failures')
  PROVE  StateSet'
<1>1. /\ mapState'.status = MapStatus(failures') /\ mapState'.isSet
      /\ mapState'.secs = [i \in DOMAIN failures' |-> mapTime - failures'[i].since]
      /\ mapState'.updatedAt = mapTime
  BY DEF Updated, SecsInFailure
<1>2. mapTime \in Nat /\ \A i \in DOMAIN failures' : failures'[i].since \in Nat
  <2>1. (\A i \in DOMAIN failures : failures[i].since \in Nat)'
    BY SinceIsNat, PTL
  <2> QED BY <2>1 DEF FailuresInv, ReportTypes
<1>3. \A i \in DOMAIN failures' : mapState'.secs[i] + failures'[i].since = mapState'.updatedAt
  BY <1>1, <1>2
<1> QED BY <1>1, <1>3 DEF StateSet, MapStatus

\* Since when something fails, after a report of any item.
LEMMA FailingSinceChanges ==
  ASSUME FailuresInv, FailuresInv', NEW i \in Items, NEW ok \in BOOLEAN, Reported(i, ok)
  PROVE  FailingSince' = IF DOMAIN failures' = {} THEN {} ELSE FailingSince \cup {Len(reports) + 1}
<1> SUFFICES ASSUME NEW n \in Nat, n = Len(reports)
             PROVE  FailingSince' = IF DOMAIN failures' = {} THEN {} ELSE FailingSince \cup {n + 1}
  <2>1. Len(reports) \in Nat
    BY DEF FailuresInv, ReportTypes
  <2> QED BY <2>1
<1>1. n \in Nat /\ Len(reports') = n + 1 /\ \A k \in 1..n : reports'[k] = reports[k]
  BY DEF FailuresInv, ReportTypes, Reported
<1>2. ASSUME NEW l \in 1..n PROVE FailingBy(l)' = FailingBy(l)
  <2>1. \A k \in 1..l : reports'[k] = reports[k] /\ \A m \in k+1..l : reports'[m] = reports[m]
    BY <1>1
  <2> QED BY <2>1 DEF FailingBy
<1>3. FailingBy(n + 1)' = DOMAIN failures'
  <2>1. (FailingBy(Len(reports)) = DOMAIN failures)'
    BY FailingNow, PTL
  <2> QED BY <1>1, <2>1
<1>4. ASSUME NEW k \in 1..n
      PROVE  k \in FailingSince' <=> k \in FailingSince /\ DOMAIN failures' # {}
  <2>1. \A l \in k..n+1 : l = n + 1 \/ l \in k..n
    BY <1>1
  <2>2. k \in 1..n+1 /\ n + 1 \in k..n+1 /\ \A l \in k..n : l \in k..n+1 /\ l \in 1..n
    BY <1>1
  <2> QED BY <1>1, <1>2, <1>3, <2>1, <2>2 DEF FailingSince
<1>5. n + 1 \in FailingSince' <=> DOMAIN failures' # {}
  <2>1. n + 1 \in 1..n+1 /\ n+1..n+1 = {n + 1}
    BY <1>1
  <2> QED BY <1>1, <1>3, <2>1 DEF FailingSince
<1>6. FailingSince \subseteq 1..n /\ FailingSince' \subseteq 1..n+1 /\ 1..n+1 = 1..n \cup {n + 1}
  BY <1>1 DEF FailingSince
<1> QED BY <1>4, <1>5, <1>6

\* Something fails since the last report at least, if anything fails.
LEMMA FailingSinceNow ==
  ASSUME FailuresInv
  PROVE  DOMAIN failures # {} <=> FailingSince # {}
<1> DEFINE n == Len(reports)
<1>1. n \in Nat /\ FailingBy(n) = DOMAIN failures
  BY FailingNow DEF FailuresInv, ReportTypes
<1>2. CASE DOMAIN failures # {}
  <2>1. n \in 1..n
    BY <1>1, <1>2 DEF FailingBy
  <2>2. n..n = {n}
    BY <1>1
  <2>3. n \in FailingSince
    BY <1>1, <1>2, <2>1, <2>2 DEF FailingSince
  <2> QED BY <1>2, <2>3
<1>3. CASE DOMAIN failures = {}
  <2>1. \A k \in 1..n : n \in k..n
    BY <1>1
  <2> QED BY <1>1, <1>3, <2>1 DEF FailingSince
<1> QED BY <1>2, <1>3

\* A report that sets the state keeps its change.
LEMMA UpdateKeepsChange ==
  ASSUME StateInv, FailuresInv', NEW i \in Items, NEW ok \in BOOLEAN, Reported(i, ok),
         reports'[Len(reports) + 1].at = mapTime, mapTime' = mapTime, mapState' = Updated(failures')
  PROVE  ChangeKept'
<1> DEFINE n == Len(reports)
<1>1. n \in Nat /\ Len(reports') = n + 1 /\ FailingSince \subseteq 1..n
      /\ \A k \in 1..n : reports'[k] = reports[k]
  BY DEF StateInv, FailuresInv, ReportTypes, FailingSince, Reported
<1>2. FailingSince' = IF DOMAIN failures' = {} THEN {} ELSE FailingSince \cup {n + 1}
  BY FailingSinceChanges DEF StateInv
<1>3. CASE DOMAIN failures' = {}
  BY <1>2, <1>3 DEF ChangeKept
<1>4. CASE DOMAIN failures' # {} /\ DOMAIN failures = {}
  <2>1. FailingSince' = {n + 1}
    BY <1>2, <1>4, FailingSinceNow DEF StateInv
  <2>2. mapState'.changedAt = mapTime
    BY <1>4 DEF StateInv, StateSet, MapStatus, Updated
  <2>3. mapState'.changedAt = reports'[n + 1].at
    BY <2>2
  <2> QED BY <1>1, <2>1, <2>3 DEF ChangeKept
<1>5. CASE DOMAIN failures' # {} /\ DOMAIN failures # {}
  <2>1. mapState'.changedAt = mapState.changedAt
    BY <1>5 DEF StateInv, StateSet, MapStatus, Updated
  <2>2. PICK a \in FailingSince : (\A k \in FailingSince : a <= k) /\ mapState.changedAt = reports[a].at
    BY <1>5, FailingSinceNow DEF StateInv, ChangeKept
  <2>3. a \in FailingSince' /\ reports'[a] = reports[a] /\ \A k \in FailingSince' : a <= k
    <3>1. a \in 1..n /\ reports'[a] = reports[a]
      BY <1>1, <2>2
    <3>2. FailingSince' = FailingSince \cup {n + 1}
      BY <1>2, <1>5
    <3>3. a <= n + 1
      BY <1>1, <3>1
    <3> QED BY <2>2, <3>1, <3>2, <3>3
  <2>4. mapState'.changedAt = reports'[a].at
    BY <2>1, <2>2, <2>3
  <2> QED BY <2>3, <2>4 DEF ChangeKept
<1> QED BY <1>3, <1>4, <1>5

LEMMA StateInit == MapInit => StateInv
<1> SUFFICES ASSUME MapInit PROVE StateInv
  OBVIOUS
<1>1. DOMAIN failures = {} /\ reports = <<>> /\ Len(reports) = 0
  BY DEF MapInit
<1>2. StateSet
  BY <1>1 DEF MapInit, StateSet, MapStatus
<1>3. ChangeKept
  BY <1>1 DEF ChangeKept, FailingSince
<1> QED BY <1>2, <1>3, FailuresInit DEF StateInv

LEMMA StateStep == StateInv /\ [MapNext]_mapVars => StateInv'
<1> SUFFICES ASSUME StateInv, [MapNext]_mapVars PROVE StateInv'
  OBVIOUS
<1>1. FailuresInv /\ FailuresInv'
  BY FailuresStep DEF StateInv
<1>2. ASSUME NEW i \in Items, NEW why \in Reasons, FailItem(i, why)
      PROVE  StateSet' /\ ChangeKept'
  <2>1. Reported(i, FALSE) /\ reports'[Len(reports) + 1].at = mapTime
    <3>1. Reported(i, FALSE) /\ reports'[Len(reports) + 1] = TheReport(i, FALSE, why)
      BY <1>1, <1>2, ReportChanges DEF FailItem, FailuresInv
    <3>2. reports'[Len(reports) + 1].at = mapTime
      BY <3>1 DEF TheReport
    <3> QED BY <3>1, <3>2
  <2>2. mapTime' = mapTime /\ mapState' = Updated(failures')
    BY <1>2 DEF FailItem, Report
  <2> QED BY <1>1, <2>1, <2>2, UpdateSets, UpdateKeepsChange DEF StateInv
<1>3. ASSUME NEW i \in Items, PassItem(i), i \in DOMAIN failures
      PROVE  StateSet' /\ ChangeKept'
  <2>1. Reported(i, TRUE) /\ reports'[Len(reports) + 1].at = mapTime
    <3>1. Reported(i, TRUE) /\ reports'[Len(reports) + 1] = TheReport(i, TRUE, "none")
      BY <1>1, <1>3, ReportChanges DEF PassItem, FailuresInv
    <3>2. reports'[Len(reports) + 1].at = mapTime
      BY <3>1 DEF TheReport
    <3> QED BY <3>1, <3>2
  <2>2. mapTime' = mapTime /\ mapState' = Updated(failures')
    BY <1>3 DEF PassItem, Report
  <2> QED BY <1>1, <2>1, <2>2, UpdateSets, UpdateKeepsChange DEF StateInv
<1>4. ASSUME NEW i \in Items, PassItem(i), i \notin DOMAIN failures
      PROVE  StateSet' /\ ChangeKept'
  <2>1. failures' = failures /\ mapState' = mapState
    BY <1>4 DEF PassItem
  <2>2. StateSet'
    BY <2>1 DEF StateInv, StateSet, MapStatus
  <2>3. Reported(i, TRUE)
    BY <1>1, <1>4, ReportChanges DEF PassItem, FailuresInv
  <2>4. FailingSince' = IF DOMAIN failures = {} THEN {} ELSE FailingSince \cup {Len(reports) + 1}
    BY <1>1, <2>1, <2>3, FailingSinceChanges
  <2>5. CASE DOMAIN failures = {}
    BY <2>2, <2>4, <2>5 DEF ChangeKept
  <2>6. CASE DOMAIN failures # {}
    <3>1. PICK a \in FailingSince : (\A k \in FailingSince : a <= k) /\ mapState.changedAt = reports[a].at
      BY <1>1, <2>6, FailingSinceNow DEF StateInv, ChangeKept
    <3>2. Len(reports) \in Nat /\ a \in 1..Len(reports) /\ reports'[a] = reports[a]
      BY <1>1, <2>3, <3>1 DEF FailuresInv, ReportTypes, FailingSince, Reported
    <3>3. a \in FailingSince' /\ \A k \in FailingSince' : a <= k
      <4>1. FailingSince' = FailingSince \cup {Len(reports) + 1}
        BY <2>4, <2>6
      <4>2. a <= Len(reports) + 1
        BY <3>2
      <4> QED BY <3>1, <4>1, <4>2
    <3>4. mapState'.changedAt = reports'[a].at
      BY <2>1, <3>1, <3>2
    <3> QED BY <2>2, <3>3, <3>4 DEF ChangeKept
  <2> QED BY <2>5, <2>6
<1>5. ASSUME MapSnapshot PROVE StateSet' /\ ChangeKept'
  <2>1. mapTime' = mapTime /\ failures' = failures /\ reports' = reports /\ mapState' = Updated(failures')
    BY <1>5 DEF MapSnapshot
  <2>2. FailingSince' = FailingSince
    BY <2>1 DEF FailingSince, FailingBy
  <2>3. FailingSince # {} => mapState'.changedAt = mapState.changedAt
    BY <1>1, <2>1, FailingSinceNow DEF StateInv, StateSet, MapStatus, Updated
  <2>4. ChangeKept'
    BY <2>1, <2>2, <2>3 DEF StateInv, ChangeKept
  <2> QED BY <1>1, <2>1, <2>4, UpdateSets DEF StateInv
<1>6. ASSUME UNCHANGED <<failures, mapState, reports>> PROVE StateSet' /\ ChangeKept'
  <2>1. FailingSince' = FailingSince
    BY <1>6 DEF FailingSince, FailingBy
  <2> QED BY <1>6, <2>1 DEF StateInv, StateSet, ChangeKept, MapStatus
<1> QED BY <1>1, <1>2, <1>3, <1>4, <1>5, <1>6 DEF StateInv, MapNext, MapTick, mapVars

LEMMA StateIsRight == StateInv => StateFollowsItems
<1> SUFFICES ASSUME StateInv PROVE StateFollowsItems
  OBVIOUS
<1>1. FailingBy(Len(reports)) = DOMAIN failures
  BY FailingNow DEF StateInv
<1>2. FailingSince # {} => mapState.changedAt = reports[Min(FailingSince)].at
  <2> SUFFICES ASSUME FailingSince # {} PROVE mapState.changedAt = reports[Min(FailingSince)].at
    OBVIOUS
  <2>1. PICK a \in FailingSince : (\A k \in FailingSince : a <= k) /\ mapState.changedAt = reports[a].at
    BY DEF StateInv, ChangeKept
  <2>2. FailingSince \in SUBSET Int
    BY DEF FailingSince, StateInv, FailuresInv, ReportTypes
  <2>3. Min(FailingSince) = a
    BY <2>1, <2>2, LeastIsMin
  <2> QED BY <2>1, <2>3
<1> QED BY <1>1, <1>2 DEF StateInv, StateSet, MapStatus, FailingSince, StateFollowsItems

\* For any items and reports: the state fails while some item does and since none did
\* last, and the durations it tells are those of when it was set (FailMap.updateLocked).
THEOREM StateAlwaysFollows == MapSpec => []StateFollowsItems
<1> QED BY StateInit, StateStep, StateIsRight, PTL DEF MapSpec
-----------------------------------------------------------------------------
(* The journal's file.                                                      *)

IsJournal(j) ==
  /\ j = [saved |-> j.saved, tail |-> j.tail, lines |-> j.lines,
          open |-> j.open, size |-> j.size, lastErr |-> j.lastErr]
  /\ j.saved \in [Things -> Nat]
  /\ j.open \in BOOLEAN /\ j.lastErr \in BOOLEAN

\* A journal without an error that is open has all that can be encoded.
Holds(j, kept) ==
  ~j.lastErr /\ j.open =>
    /\ j.tail = {}
    /\ \A t \in Things \ Unencodable : j.saved[t] = kept[t]

\* The inductive invariant.
FileInv ==
  /\ live \in [Things -> Nat] /\ version \in Nat /\ boot.nth \in Nat
  /\ IsJournal(journal) /\ Holds(journal, live)

LEMMA FileInit == JournalInit => FileInv
BY DEF JournalInit, FileInv, IsJournal, Holds, Nowhere

\* A record with some of its fields replaced.
LEMMA ReplacedRecord ==
  ASSUME NEW j, j = [saved |-> j.saved, tail |-> j.tail, lines |-> j.lines,
                     open |-> j.open, size |-> j.size, lastErr |-> j.lastErr],
         NEW x, NEW l
  PROVE  [j EXCEPT !.saved = x, !.tail = {}, !.lines = l]
           = [saved |-> x, tail |-> {}, lines |-> l,
              open |-> j.open, size |-> j.size, lastErr |-> j.lastErr]
<1>1. DOMAIN j = {"saved", "tail", "lines", "open", "size", "lastErr"}
  OBVIOUS
<1>2. [j EXCEPT !.saved = x, !.tail = {}, !.lines = l]
        = [q \in DOMAIN j |-> IF q = "saved" THEN x ELSE IF q = "tail" THEN {}
                             ELSE IF q = "lines" THEN l ELSE j[q]]
  OBVIOUS
<1> QED BY <1>1, <1>2

LEMMA OpenedRecord ==
  ASSUME NEW j, j = [saved |-> j.saved, tail |-> j.tail, lines |-> j.lines,
                     open |-> j.open, size |-> j.size, lastErr |-> j.lastErr],
         NEW o \in BOOLEAN, NEW n, NEW e \in BOOLEAN
  PROVE  [j EXCEPT !.open = o, !.size = n, !.lastErr = e]
           = [saved |-> j.saved, tail |-> j.tail, lines |-> j.lines, open |-> o, size |-> n, lastErr |-> e]
<1>1. DOMAIN j = {"saved", "tail", "lines", "open", "size", "lastErr"}
  OBVIOUS
<1>2. [j EXCEPT !.open = o, !.size = n, !.lastErr = e]
        = [q \in DOMAIN j |-> IF q = "open" THEN o ELSE IF q = "size" THEN n
                             ELSE IF q = "lastErr" THEN e ELSE j[q]]
  OBVIOUS
<1> QED BY <1>1, <1>2

\* A compaction that fails tells it; one that does not has written everything.
LEMMA CompactionHolds ==
  ASSUME NEW j, IsJournal(j), NEW kept \in [Things -> Nat], NEW k \in Compacted(j, kept)
  PROVE  IsJournal(k) /\ Holds(k, kept)
<1> DEFINE replaced == [j EXCEPT !.saved = Rewritten(kept), !.tail = {}, !.lines = LinesOf(kept)]
<1>1. Rewritten(kept) \in [Things -> Nat] /\ \A t \in Things \ Unencodable : Rewritten(kept)[t] = kept[t]
  BY DEF Rewritten
<1>2. \/ k = [replaced EXCEPT !.open = TRUE, !.size = LinesOf(kept), !.lastErr = FALSE]
      \/ k = [j EXCEPT !.lastErr = TRUE]
      \/ k = [replaced EXCEPT !.open = FALSE, !.lastErr = TRUE]
  BY DEF Compacted
<1>3. replaced = [saved |-> Rewritten(kept), tail |-> {}, lines |-> LinesOf(kept),
                  open |-> j.open, size |-> j.size, lastErr |-> j.lastErr]
  BY ReplacedRecord DEF IsJournal
<1>4. CASE k = [replaced EXCEPT !.open = TRUE, !.size = LinesOf(kept), !.lastErr = FALSE]
  <2>1. k = [saved |-> Rewritten(kept), tail |-> {}, lines |-> LinesOf(kept),
             open |-> TRUE, size |-> LinesOf(kept), lastErr |-> FALSE]
    BY <1>3, <1>4
  <2> QED BY <1>1, <2>1 DEF IsJournal, Holds
<1>5. CASE k = [j EXCEPT !.lastErr = TRUE]
  <2>1. k = [saved |-> j.saved, tail |-> j.tail, lines |-> j.lines,
             open |-> j.open, size |-> j.size, lastErr |-> TRUE]
    BY <1>5 DEF IsJournal
  <2> QED BY <2>1 DEF IsJournal, Holds
<1>6. CASE k = [replaced EXCEPT !.open = FALSE, !.lastErr = TRUE]
  <2>1. k = [saved |-> Rewritten(kept), tail |-> {}, lines |-> LinesOf(kept),
             open |-> FALSE, size |-> j.size, lastErr |-> TRUE]
    BY <1>3, <1>6
  <2> QED BY <1>1, <2>1 DEF IsJournal, Holds
<1> QED BY <1>2, <1>4, <1>5, <1>6

\* A line that is not written whole is told.
LEMMA AppendHolds ==
  ASSUME NEW j, IsJournal(j), NEW kept \in [Things -> Nat], Holds(j, kept),
         NEW t \in Things, NEW v \in Nat, NEW k \in Appended(j, t, v)
  PROVE  IsJournal(k) /\ Holds(k, [kept EXCEPT ![t] = v])
<1>1. CASE t \in Unencodable
  <2>1. k = [saved |-> j.saved, tail |-> j.tail, lines |-> j.lines,
             open |-> j.open, size |-> j.size, lastErr |-> TRUE]
    BY <1>1 DEF Appended, IsJournal
  <2> QED BY <2>1 DEF IsJournal, Holds
<1>2. CASE t \notin Unencodable /\ ~j.open
  <2>1. k = j
    BY <1>2 DEF Appended
  <2> QED BY <1>2, <2>1 DEF Holds
<1>3. CASE t \notin Unencodable /\ j.open /\ k = Written(j, t, v)
  <2>1. k = [saved |-> IF j.tail = {} THEN [j.saved EXCEPT ![t] = v] ELSE j.saved, tail |-> {},
             lines |-> j.lines + 1, open |-> j.open, size |-> j.size + 1, lastErr |-> j.lastErr]
    BY <1>3 DEF Written, IsJournal
  <2>2. k.saved \in [Things -> Nat] /\ k.open = j.open /\ k.lastErr = j.lastErr /\ k.tail = {}
    BY <2>1 DEF IsJournal
  <2>3. IsJournal(k)
    BY <2>1, <2>2 DEF IsJournal
  <2>4. ASSUME ~k.lastErr, k.open, NEW u \in Things \ Unencodable
        PROVE  k.saved[u] = [kept EXCEPT ![t] = v][u]
    <3>1. j.tail = {} /\ j.saved[u] = kept[u]
      BY <2>2, <2>4 DEF Holds
    <3>2. k.saved = [j.saved EXCEPT ![t] = v]
      BY <2>1, <3>1
    <3> QED BY <3>1, <3>2 DEF IsJournal
  <2> QED BY <2>2, <2>3, <2>4 DEF Holds
<1>4. CASE k \in WriteFails(j, t, v)
  <2>1. PICK tail : k = [j EXCEPT !.tail = tail, !.lastErr = TRUE]
    BY <1>4 DEF WriteFails
  <2>2. k = [saved |-> j.saved, tail |-> tail, lines |-> j.lines,
             open |-> j.open, size |-> j.size, lastErr |-> TRUE]
    BY <2>1 DEF IsJournal
  <2> QED BY <2>2 DEF IsJournal, Holds
<1> QED BY <1>1, <1>2, <1>3, <1>4 DEF Appended

LEMMA AcceptHolds ==
  ASSUME FileInv, NEW t \in Things, Accept(t)
  PROVE  FileInv'
<1>1. version' = version + 1 /\ version' \in Nat /\ boot' = boot /\ live' = [live EXCEPT ![t] = version'] /\ live' \in [Things -> Nat]
  BY DEF Accept, FileInv
<1>2. PICK j \in Appended(journal, t, version') : journal' \in CompactedIfDue(j, live')
  BY DEF Accept
<1>3. IsJournal(j) /\ Holds(j, live')
  BY <1>1, AppendHolds DEF FileInv
<1>4. IsJournal(journal') /\ Holds(journal', live')
  BY <1>1, <1>2, <1>3, CompactionHolds DEF CompactedIfDue
<1> QED BY <1>1, <1>4 DEF FileInv, IsJournal, Holds

LEMMA DeleteHolds ==
  ASSUME FileInv, NEW t \in Things, Delete(t)
  PROVE  FileInv'
<1>1. version' = version /\ boot' = boot /\ live' \in [Things -> Nat] /\ journal' \in Compacted(journal, live')
  BY DEF Delete, FileInv
<1>2. IsJournal(journal') /\ Holds(journal', live')
  BY <1>1, CompactionHolds DEF FileInv
<1> QED BY <1>1, <1>2 DEF FileInv, IsJournal, Holds

\* The file that a start finds, with another tail.
FileFound(tail) == Opened([journal EXCEPT !.tail = tail])

LEMMA FoundIsJournal ==
  ASSUME FileInv, NEW tail
  PROVE  /\ IsJournal(FileFound(tail)) /\ FileFound(tail).saved = journal.saved
         /\ FileFound(tail).tail = tail /\ Read(FileFound(tail)) \in [Things -> Nat]
<1>1. FileFound(tail) = [saved |-> journal.saved, tail |-> tail, lines |-> journal.lines,
                         open |-> TRUE, size |-> journal.lines, lastErr |-> FALSE]
  <2>1. [journal EXCEPT !.tail = tail]
          = [saved |-> journal.saved, tail |-> tail, lines |-> journal.lines,
             open |-> journal.open, size |-> journal.size, lastErr |-> journal.lastErr]
    BY DEF FileInv, IsJournal
  <2>2. \A file : IsJournal(file) => Opened(file)
          = [saved |-> file.saved, tail |-> file.tail, lines |-> file.lines,
             open |-> TRUE, size |-> file.lines, lastErr |-> FALSE]
    <3> SUFFICES ASSUME NEW file, IsJournal(file)
                 PROVE  Opened(file) = [saved |-> file.saved, tail |-> file.tail, lines |-> file.lines,
                                        open |-> TRUE, size |-> file.lines, lastErr |-> FALSE]
      OBVIOUS
    <3>1. [file EXCEPT !.open = TRUE, !.size = file.lines, !.lastErr = FALSE]
            = [saved |-> file.saved, tail |-> file.tail, lines |-> file.lines,
               open |-> TRUE, size |-> file.lines, lastErr |-> FALSE]
      BY OpenedRecord, Zenon DEF IsJournal
    <3> QED BY <3>1 DEF Opened
  <2>3. IsJournal([journal EXCEPT !.tail = tail])
    BY <2>1 DEF FileInv, IsJournal
  <2> QED BY <2>1, <2>2, <2>3 DEF FileFound
<1>2. IsJournal(FileFound(tail)) /\ FileFound(tail).saved = journal.saved /\ FileFound(tail).tail = tail
  BY <1>1 DEF IsJournal, FileInv
<1>3. Read(FileFound(tail)) \in [Things -> Nat]
  <2> SUFFICES ASSUME NEW t \in Things PROVE Read(FileFound(tail))[t] \in Nat
    BY DEF Read
  <2>1. CASE \E v \in 1..MaxVersion : <<t, v>> \in tail
    <3>1. Read(FileFound(tail))[t] = CHOOSE v \in 1..MaxVersion : <<t, v>> \in tail
      BY <1>2, <2>1 DEF Read
    <3>2. (CHOOSE v \in 1..MaxVersion : <<t, v>> \in tail) \in 1..MaxVersion
      BY <2>1
    <3> QED BY <3>1, <3>2
  <2>2. CASE ~ \E v \in 1..MaxVersion : <<t, v>> \in tail
    BY <1>2, <2>2 DEF Read, FileInv, IsJournal
  <2> QED BY <2>1, <2>2
<1> QED BY <1>2, <1>3

LEMMA RestartHolds ==
  ASSUME FileInv, NEW cut, Restart(cut), Cardinality(cut) \in Nat
  PROVE  FileInv'
<1>1. PICK tail :
        \/ live' = Read(FileFound(tail)) /\ journal' \in Compacted(FileFound(tail), live')
        \/ live' = Nowhere /\ journal' = [FileFound(tail) EXCEPT !.lastErr = TRUE]
  BY DEF Restart, FileFound
<1>2. version' \in Nat /\ boot'.nth \in Nat
  BY DEF Restart, FileInv
<1>3. CASE live' = Read(FileFound(tail)) /\ journal' \in Compacted(FileFound(tail), live')
  <2>1. live' \in [Things -> Nat] /\ IsJournal(FileFound(tail))
    BY <1>3, FoundIsJournal
  <2>2. IsJournal(journal') /\ Holds(journal', live')
    BY <1>3, <2>1, CompactionHolds
  <2> QED BY <1>2, <2>1, <2>2 DEF FileInv, IsJournal, Holds
<1>4. CASE live' = Nowhere /\ journal' = [FileFound(tail) EXCEPT !.lastErr = TRUE]
  <2>1. IsJournal(FileFound(tail))
    BY FoundIsJournal
  <2>2. journal' = [saved |-> FileFound(tail).saved, tail |-> FileFound(tail).tail,
                    lines |-> FileFound(tail).lines, open |-> FileFound(tail).open,
                    size |-> FileFound(tail).size, lastErr |-> TRUE]
    BY <1>4, <2>1 DEF IsJournal
  <2>3. IsJournal(journal') /\ Holds(journal', live')
    BY <2>1, <2>2 DEF IsJournal, Holds
  <2> QED BY <1>2, <1>4, <2>3 DEF FileInv, IsJournal, Holds, Nowhere
<1> QED BY <1>1, <1>3, <1>4

LEMMA FileStep == FileInv /\ [JournalNext]_journalVars => FileInv'
<1> SUFFICES ASSUME FileInv, [JournalNext]_journalVars PROVE FileInv'
  OBVIOUS
<1>1. CASE \E t \in Things : Accept(t)
  BY <1>1, AcceptHolds
<1>2. CASE \E t \in Things : Delete(t)
  BY <1>2, DeleteHolds
<1>3. CASE CloseJournal
  <2>1. journal' = [saved |-> journal.saved, tail |-> journal.tail, lines |-> journal.lines,
                    open |-> FALSE, size |-> journal.size, lastErr |-> journal.lastErr]
    BY <1>3 DEF CloseJournal, FileInv, IsJournal
  <2>2. live' = live /\ version' = version /\ boot' = boot
    BY <1>3 DEF CloseJournal
  <2> QED BY <2>1, <2>2 DEF FileInv, IsJournal, Holds
<1>4. CASE Restart({})
  BY <1>4, RestartHolds, FS_EmptySet
<1>5. CASE \E t \in Things \ Unencodable : Restart({t})
  BY <1>5, RestartHolds, FS_Singleton
<1>6. CASE UNCHANGED <<live, journal, version, boot>>
  BY <1>6 DEF FileInv, IsJournal, Holds
<1> QED BY <1>1, <1>2, <1>3, <1>4, <1>5, <1>6 DEF JournalNext, DiskBreaks, DiskHeals, journalVars

\* What a start reads of a journal without an error, when one write may have been cut.
KeptOrCut(cut) ==
  \A t \in Things \ Unencodable : live'[t] = live[t] \/ (t \in cut /\ live'[t] = version')

LEMMA RestartReads ==
  ASSUME FileInv, ~journal.lastErr, journal.open, NEW cut,
         cut = {} \/ \E t \in Things \ Unencodable : cut = {t},
         Restart(cut), boot'.read
  PROVE  KeptOrCut(cut) /\ boot'.cut = cut
<1>1. PICK tail \in {journal.tail} \cup UNION {CutTails(journal, t, version + 1) : t \in cut} :
        live' = Read(FileFound(tail)) /\ boot' = [nth |-> boot.nth + 1, read |-> TRUE, cut |-> cut]
  <2>1. PICK tail \in {journal.tail} \cup UNION {CutTails(journal, t, version + 1) : t \in cut} :
          \/ live' = Read(FileFound(tail)) /\ boot' = [nth |-> boot.nth + 1, read |-> TRUE, cut |-> cut]
          \/ boot' = [nth |-> boot.nth + 1, read |-> FALSE, cut |-> cut]
    BY DEF Restart, FileFound
  <2>2. boot' # [nth |-> boot.nth + 1, read |-> FALSE, cut |-> cut]
    OBVIOUS
  <2> QED BY <2>1, <2>2
<1>2. journal.tail = {} /\ \A t \in Things \ Unencodable : journal.saved[t] = live[t]
  BY DEF FileInv, Holds
<1>3. /\ \A t \in Things : live'[t] = IF \E v \in 1..MaxVersion : <<t, v>> \in tail
                                      THEN CHOOSE v \in 1..MaxVersion : <<t, v>> \in tail
                                      ELSE journal.saved[t]
      /\ boot'.cut = cut
  BY <1>1, FoundIsJournal DEF Read
<1>4. ASSUME NEW t \in Things \ Unencodable PROVE live'[t] = live[t] \/ (t \in cut /\ live'[t] = version')
  <2>1. CASE ~ \E v \in 1..MaxVersion : <<t, v>> \in tail
    BY <1>2, <1>3, <2>1
  <2>2. CASE \E v \in 1..MaxVersion : <<t, v>> \in tail
    <3>1. PICK c \in cut : tail \in CutTails(journal, c, version + 1)
      BY <1>1, <1>2, <2>2
    <3>2. tail = {Torn} \/ tail = {<<c, version + 1>>}
      BY <1>2, <2>2, <3>1 DEF CutTails
    <3>3. \A v : <<t, v>> # Torn
      BY DEF Torn
    <3>4. tail = {<<c, version + 1>>}
      BY <2>2, <3>2, <3>3
    <3>5. t = c /\ \A v : <<t, v>> \in tail => v = version + 1
      BY <2>2, <3>4
    <3>6. live'[t] = version + 1
      BY <1>3, <2>2, <3>5
    <3>7. cut = {c} /\ Cardinality(cut) = 1
      BY <3>1, FS_Singleton
    <3>8. version' = version + 1
      BY <3>7 DEF Restart
    <3> QED BY <3>1, <3>5, <3>6, <3>8
  <2> QED BY <2>1, <2>2
<1> QED BY <1>3, <1>4 DEF KeptOrCut

LEMMA StepKeepsAll ==
  ASSUME FileInv, [JournalNext]_journalVars, boot'.nth > boot.nth, boot'.read,
         ~journal.lastErr, journal.open
  PROVE  KeptOrCut(boot'.cut)
<1>1. boot' # boot => \E cut : Restart(cut) /\ (cut = {} \/ \E t \in Things \ Unencodable : cut = {t})
  BY DEF JournalNext, Accept, Delete, CloseJournal, DiskBreaks, DiskHeals, journalVars
<1>2. boot' # boot
  BY DEF FileInv
<1>3. PICK cut : Restart(cut) /\ (cut = {} \/ \E t \in Things \ Unencodable : cut = {t})
  BY <1>1, <1>2
<1> QED BY <1>3, RestartReads

\* Whatever the disk refused and wherever a write was cut: a start that can read the
\* journal brings back what the store kept, unless the journal told an error or was
\* closed when the program went (Journal.appendEntry, rewrite, MemoryStore.replayJournal).
THEOREM NothingLostInSilence == JournalSpec => RestartKeepsAll
<1>1. FileInv /\ [JournalNext]_journalVars =>
        [boot'.nth > boot.nth /\ boot'.read /\ ~journal.lastErr /\ journal.open =>
          \A t \in Things \ Unencodable :
            live'[t] = live[t] \/ (t \in boot'.cut /\ live'[t] = version')]_journalVars
  BY StepKeepsAll DEF KeptOrCut
<1> QED BY FileInit, FileStep, <1>1, PTL DEF JournalSpec, RestartKeepsAll

\* What the types need: the last set was not in the future.
MapTyped == MapTypeOK /\ mapState.updatedAt \in 0..mapTime

LEMMA UpdatedTyped ==
  ASSUME MapTyped, NEW f
  PROVE  /\ Updated(f).status \in {"pass", "fail"} /\ Updated(f).updatedAt = mapTime
         /\ Updated(f).changedAt \in 0..mapTime
BY MapAssumption DEF MapTyped, MapTypeOK, Updated, MapStatus

LEMMA MapStaysTyped == MapTyped /\ [MapNext]_mapVars => MapTyped'
<1> SUFFICES ASSUME MapTyped, [MapNext]_mapVars PROVE MapTyped'
  OBVIOUS
<1>1. mapTime \in 0..MaxMapTime /\ MaxMapTime \in Nat
  BY MapAssumption DEF MapTyped, MapTypeOK
<1>2. CASE UNCHANGED mapTime /\ \E f : mapState' = Updated(f)
             /\ DOMAIN failures' \subseteq Items
             /\ \A i \in DOMAIN failures' : failures'[i] \in [since : 0..mapTime, why : Reasons]
  BY <1>1, <1>2, UpdatedTyped DEF MapTyped, MapTypeOK
<1>3. ASSUME NEW i \in Items, NEW why \in Reasons, FailItem(i, why) PROVE MapTyped'
  <2>1. failures' = Refreshed(i, why) /\ mapState' = Updated(failures') /\ UNCHANGED mapTime
    BY <1>3 DEF FailItem, Report
  <2>2. DOMAIN failures' \subseteq Items
    BY <2>1 DEF Refreshed, MapTyped, MapTypeOK
  <2>3. ASSUME NEW j \in DOMAIN failures' PROVE failures'[j] \in [since : 0..mapTime, why : Reasons]
    BY <1>1, <2>1 DEF Refreshed, MapTyped, MapTypeOK
  <2> QED BY <1>2, <2>1, <2>2, <2>3
<1>4. ASSUME NEW i \in Items, PassItem(i) PROVE MapTyped'
  BY <1>2, <1>4 DEF PassItem, Report, MapTyped, MapTypeOK
<1>5. CASE MapSnapshot
  BY <1>2, <1>5 DEF MapSnapshot, MapTyped, MapTypeOK
<1>6. CASE MapTick
  BY <1>1, <1>6 DEF MapTick, MapTyped, MapTypeOK
<1>7. CASE UNCHANGED mapVars
  BY <1>7 DEF mapVars, MapTyped, MapTypeOK
<1> QED BY <1>3, <1>4, <1>5, <1>6, <1>7 DEF MapNext

LEMMA MapIsTyped == MapSpec => []MapTypeOK
<1>1. MapInit => MapTyped
  BY MapAssumption DEF MapInit, MapTyped, MapTypeOK
<1>2. MapTyped => MapTypeOK
  BY DEF MapTyped
<1> QED BY <1>1, <1>2, MapStaysTyped, PTL DEF MapSpec


\* For any items and reports a fail map tells the right items and the right state
\* (state_fail_map.go:66-110).
THEOREM FailMapAlwaysRight == MapSpec => []FailMapIsRight
BY MapIsTyped, FailuresAlwaysRight, StateAlwaysFollows, PTL DEF FailMapIsRight

-----------------------------------------------------------------------------
(* The types of StorageHealth and its journal.                              *)

\* Versions of things, up to the last one, finitely many.
Versions(f, v) == f \in [Things -> 0..v] /\ IsFiniteSet({t \in Things : f[t] > 0})

\* What may be behind the last newline.
TailOK(tail, v) ==
  tail = {} \/ tail = {Torn} \/ \E t \in Things \ Unencodable, n \in 1..v : tail = {<<t, n>>}

FileTyped(j, v) ==
  /\ IsJournal(j) /\ Versions(j.saved, v) /\ TailOK(j.tail, v) /\ j.lines \in Nat /\ j.size \in Nat
  /\ \A t \in Unencodable : j.saved[t] = 0

\* What is written later is written as well then.
LEMMA LaterVersions ==
  ASSUME NEW v \in Nat, NEW w \in Nat, v <= w
  PROVE  /\ \A f : Versions(f, v) => Versions(f, w)
         /\ \A tail : TailOK(tail, v) => TailOK(tail, w)
         /\ \A j : FileTyped(j, v) => FileTyped(j, w)
<1>1. \A f : Versions(f, v) => Versions(f, w)
  BY DEF Versions
<1>2. \A tail : TailOK(tail, v) => TailOK(tail, w)
  <2> SUFFICES ASSUME NEW tail, TailOK(tail, v) PROVE TailOK(tail, w)
    OBVIOUS
  <2>1. 1..v \subseteq 1..w
    OBVIOUS
  <2> QED BY <2>1, Zenon DEF TailOK
<1> QED BY <1>1, <1>2 DEF FileTyped

\* One thing more has a version.
LEMMA OneVersionMore ==
  ASSUME NEW v \in Nat, NEW f, Versions(f, v), NEW t \in Things, NEW n \in 0..v
  PROVE  Versions([f EXCEPT ![t] = n], v)
<1> DEFINE g == [f EXCEPT ![t] = n]
<1>1. g \in [Things -> 0..v] /\ {s \in Things : g[s] > 0} \subseteq {s \in Things : f[s] > 0} \cup {t}
  BY DEF Versions
<1>2. IsFiniteSet({s \in Things : f[s] > 0} \cup {t})
  BY FS_AddElement DEF Versions
<1>3. IsFiniteSet({s \in Things : g[s] > 0})
  BY <1>1, <1>2, FS_Subset
<1> QED BY <1>1, <1>3 DEF Versions

LEMMA RewrittenTyped ==
  ASSUME NEW v \in Nat, NEW kept, Versions(kept, v)
  PROVE  /\ Versions(Rewritten(kept), v) /\ LinesOf(kept) \in Nat
         /\ \A t \in Unencodable : Rewritten(kept)[t] = 0
<1>1. /\ Rewritten(kept) \in [Things -> 0..v]
      /\ {t \in Things : Rewritten(kept)[t] > 0} \subseteq {t \in Things : kept[t] > 0}
  BY DEF Rewritten, Versions
<1>2. IsFiniteSet({t \in Things : Rewritten(kept)[t] > 0})
  BY <1>1, FS_Subset DEF Versions
<1>3. LinesOf(kept) \in Nat
  BY <1>2, FS_CardinalityType DEF LinesOf
<1> QED BY <1>1, <1>2, <1>3, JournalAssumption DEF Versions, Rewritten

LEMMA CompactedTyped ==
  ASSUME NEW v \in Nat, NEW j, FileTyped(j, v), NEW kept, Versions(kept, v), NEW k \in Compacted(j, kept)
  PROVE  FileTyped(k, v)
<1> DEFINE replaced == [j EXCEPT !.saved = Rewritten(kept), !.tail = {}, !.lines = LinesOf(kept)]
<1>1. /\ Versions(Rewritten(kept), v) /\ LinesOf(kept) \in Nat
      /\ \A t \in Unencodable : Rewritten(kept)[t] = 0
  BY RewrittenTyped
<1>2. \/ k = [replaced EXCEPT !.open = TRUE, !.size = LinesOf(kept), !.lastErr = FALSE]
      \/ k = [j EXCEPT !.lastErr = TRUE]
      \/ k = [replaced EXCEPT !.open = FALSE, !.lastErr = TRUE]
  BY DEF Compacted
<1>3. replaced = [saved |-> Rewritten(kept), tail |-> {}, lines |-> LinesOf(kept),
                  open |-> j.open, size |-> j.size, lastErr |-> j.lastErr]
  BY ReplacedRecord, Zenon DEF FileTyped, IsJournal
<1>4. IsJournal(k)
  <2>1. kept \in [Things -> Nat]
    BY DEF Versions
  <2> QED BY <2>1, CompactionHolds DEF FileTyped
<1>5. CASE k = [j EXCEPT !.lastErr = TRUE]
  <2>1. k.saved = j.saved /\ k.tail = j.tail /\ k.lines = j.lines /\ k.size = j.size
    BY <1>5 DEF FileTyped, IsJournal
  <2> QED BY <1>4, <2>1 DEF FileTyped
<1>6. CASE \/ k = [replaced EXCEPT !.open = TRUE, !.size = LinesOf(kept), !.lastErr = FALSE]
           \/ k = [replaced EXCEPT !.open = FALSE, !.lastErr = TRUE]
  <2>1. k.saved = Rewritten(kept) /\ k.tail = {} /\ k.lines = LinesOf(kept) /\ k.size \in {LinesOf(kept), j.size}
    BY <1>3, <1>6
  <2> QED BY <1>1, <1>4, <2>1 DEF FileTyped, TailOK
<1> QED BY <1>2, <1>5, <1>6

LEMMA CutTailOK ==
  ASSUME NEW v \in Nat, NEW j, NEW w \in 1..v, TailOK(j.tail, v), NEW t \in Things \ Unencodable,
         NEW tail \in CutTails(j, t, w)
  PROVE  TailOK(tail, v)
BY DEF CutTails, TailOK

LEMMA AppendedTyped ==
  ASSUME NEW v \in Nat \ {0}, NEW j, FileTyped(j, v), NEW t \in Things, NEW k \in Appended(j, t, v)
  PROVE  FileTyped(k, v)
<1>1. CASE t \in Unencodable
  <2>1. k = [saved |-> j.saved, tail |-> j.tail, lines |-> j.lines,
             open |-> j.open, size |-> j.size, lastErr |-> TRUE]
    BY <1>1 DEF Appended, FileTyped, IsJournal
  <2> QED BY <2>1 DEF FileTyped, IsJournal
<1>2. CASE t \notin Unencodable /\ ~j.open
  BY <1>2 DEF Appended
<1>3. CASE t \notin Unencodable /\ k = Written(j, t, v)
  <2>1. k = [saved |-> IF j.tail = {} THEN [j.saved EXCEPT ![t] = v] ELSE j.saved, tail |-> {},
             lines |-> j.lines + 1, open |-> j.open, size |-> j.size + 1, lastErr |-> j.lastErr]
    BY <1>3 DEF Written, FileTyped, IsJournal
  <2>2. Versions(j.saved, v) /\ Versions([j.saved EXCEPT ![t] = v], v)
    BY OneVersionMore DEF FileTyped
  <2>3. Versions(k.saved, v) /\ \A u \in Unencodable : k.saved[u] = 0
    BY <1>3, <2>1, <2>2, JournalAssumption DEF FileTyped, Versions
  <2>4. k.saved \in [Things -> Nat]
    BY <2>3 DEF Versions
  <2> QED BY <2>1, <2>3, <2>4 DEF FileTyped, IsJournal, TailOK
<1>4. CASE t \notin Unencodable /\ k \in WriteFails(j, t, v)
  <2>1. PICK tail \in CutTails(j, t, v) : k = [j EXCEPT !.tail = tail, !.lastErr = TRUE]
    BY <1>4, Zenon DEF WriteFails
  <2>2. k = [saved |-> j.saved, tail |-> tail, lines |-> j.lines,
             open |-> j.open, size |-> j.size, lastErr |-> TRUE]
    BY <2>1 DEF FileTyped, IsJournal
  <2>3. TailOK(tail, v)
    BY <1>4, <2>1, CutTailOK DEF FileTyped
  <2> QED BY <2>2, <2>3 DEF FileTyped, IsJournal
<1> QED BY <1>1, <1>2, <1>3, <1>4 DEF Appended

\* The inductive invariant.
StoreTyped ==
  /\ version \in Nat /\ Versions(live, version) /\ FileTyped(journal, version)

\* What a start reads is what was written before it, or at the moment it was cut.
LEMMA ReadTyped ==
  ASSUME StoreTyped, NEW v \in Nat, version <= v, NEW tail, TailOK(tail, v)
  PROVE  FileTyped(FileFound(tail), v) /\ Versions(Read(FileFound(tail)), v)
<1>1. FileTyped(journal, v)
  BY LaterVersions DEF StoreTyped
<1>2. [journal EXCEPT !.tail = tail]
        = [saved |-> journal.saved, tail |-> tail, lines |-> journal.lines,
           open |-> journal.open, size |-> journal.size, lastErr |-> journal.lastErr]
  BY <1>1 DEF FileTyped, IsJournal
<1>3. FileFound(tail) = [saved |-> journal.saved, tail |-> tail, lines |-> journal.lines,
                         open |-> TRUE, size |-> journal.lines, lastErr |-> FALSE]
  <2> DEFINE j == [journal EXCEPT !.tail = tail]
  <2>1. j = [saved |-> j.saved, tail |-> j.tail, lines |-> j.lines,
             open |-> j.open, size |-> j.size, lastErr |-> j.lastErr]
    BY <1>2
  <2>2. j.saved = journal.saved /\ j.tail = tail /\ j.lines = journal.lines
    BY <1>2
  <2> HIDE DEF j
  <2>3. [j EXCEPT !.open = TRUE, !.size = j.lines, !.lastErr = FALSE]
          = [saved |-> j.saved, tail |-> j.tail, lines |-> j.lines, open |-> TRUE, size |-> j.lines, lastErr |-> FALSE]
    BY <2>1, OpenedRecord, Zenon
  <2> QED BY <2>2, <2>3 DEF FileFound, Opened, j
<1>4. FileTyped(FileFound(tail), v)
  <2>1. FileFound(tail).saved \in [Things -> Nat]
    BY <1>1, <1>3 DEF FileTyped, Versions
  <2> QED BY <1>1, <1>3, <2>1 DEF FileTyped, IsJournal
<1> DEFINE r == Read(FileFound(tail))
<1>5. ASSUME NEW t \in Things
      PROVE  /\ r[t] \in 0..v
             /\ r[t] > 0 => journal.saved[t] > 0 \/ \E n \in 1..v : tail = {<<t, n>>}
  <2>1. journal.saved[t] \in 0..v /\ FileFound(tail).tail = tail /\ FileFound(tail).saved = journal.saved
    BY <1>1, <1>3 DEF FileTyped, Versions
  <2>2. CASE \E n \in 1..MaxVersion : <<t, n>> \in tail
    <3>1. PICK n \in 1..MaxVersion : <<t, n>> \in tail /\ r[t] = n
      BY <2>1, <2>2 DEF Read
    <3>2. <<t, n>> # Torn
      BY DEF Torn
    <3>3. \E m \in 1..v : tail = {<<t, m>>} /\ n = m
      BY <3>1, <3>2 DEF TailOK
    <3> QED BY <3>1, <3>3
  <2>3. CASE ~ \E n \in 1..MaxVersion : <<t, n>> \in tail
    BY <2>1, <2>3 DEF Read
  <2> QED BY <2>2, <2>3
<1>6. r = [t \in Things |-> r[t]]
  BY DEF Read
<1>7. IsFiniteSet({t \in Things : r[t] > 0})
  <2>1. IsFiniteSet({t \in Things : journal.saved[t] > 0})
    BY <1>1 DEF FileTyped, Versions
  <2>2. CASE \E c, n : tail = {<<c, n>>}
    <3>1. PICK c, n : tail = {<<c, n>>}
      BY <2>2
    <3>2. {t \in Things : r[t] > 0} \subseteq {t \in Things : journal.saved[t] > 0} \cup {c}
      <4> SUFFICES ASSUME NEW t \in Things, r[t] > 0, ~(journal.saved[t] > 0) PROVE t = c
        BY Zenon
      <4>1. PICK m : tail = {<<t, m>>}
        BY <1>5
      <4>2. <<t, m>> = <<c, n>>
        BY <3>1, <4>1
      <4> QED BY <4>2
    <3>3. IsFiniteSet({t \in Things : journal.saved[t] > 0} \cup {c})
      BY <2>1, FS_AddElement
    <3> QED BY <3>2, <3>3, FS_Subset
  <2>3. CASE ~ \E c, n : tail = {<<c, n>>}
    <3>1. {t \in Things : r[t] > 0} \subseteq {t \in Things : journal.saved[t] > 0}
      BY <1>5, <2>3, Zenon
    <3> QED BY <2>1, <3>1, FS_Subset
  <2> QED BY <2>2, <2>3
<1> HIDE DEF r
<1>8. Versions(r, v)
  BY <1>5, <1>6, <1>7 DEF Versions
<1> QED BY <1>4, <1>8 DEF r

LEMMA NowhereTyped == \A v \in Nat : Versions(Nowhere, v)
<1>1. {t \in Things : Nowhere[t] > 0} = {}
  BY DEF Nowhere
<1>2. IsFiniteSet({t \in Things : Nowhere[t] > 0})
  BY <1>1, FS_EmptySet
<1> QED BY <1>2 DEF Versions, Nowhere

LEMMA RestartTyped ==
  ASSUME StoreTyped, NEW cut, Restart(cut), cut = {} \/ \E t \in Things \ Unencodable : cut = {t}
  PROVE  StoreTyped'
<1>1. version' \in Nat /\ version <= version' /\ (cut # {} => version' = version + 1)
  <2>1. version' = version + Cardinality(cut) /\ version \in Nat
    BY DEF Restart, StoreTyped
  <2>2. cut = {} => Cardinality(cut) = 0
    BY FS_EmptySet
  <2>3. ASSUME NEW t, cut = {t} PROVE Cardinality(cut) = 1
    BY <2>3, FS_Singleton
  <2> QED BY <2>1, <2>2, <2>3
<1>2. PICK tail \in {journal.tail} \cup UNION {CutTails(journal, t, version + 1) : t \in cut} :
        \/ live' = Read(FileFound(tail)) /\ journal' \in Compacted(FileFound(tail), live')
        \/ live' = Nowhere /\ journal' = [FileFound(tail) EXCEPT !.lastErr = TRUE]
  BY DEF Restart, FileFound
<1>3. TailOK(journal.tail, version')
  BY <1>1, LaterVersions DEF StoreTyped, FileTyped
<1>4. TailOK(tail, version')
  <2>1. CASE tail = journal.tail
    BY <1>3, <2>1
  <2>2. CASE \E t \in cut : tail \in CutTails(journal, t, version + 1)
    <3>1. PICK t \in Things \ Unencodable : cut = {t} /\ tail \in CutTails(journal, t, version + 1)
      BY <2>2
    <3>2. version + 1 \in 1..version'
      BY <1>1, <3>1 DEF StoreTyped
    <3> QED BY <1>1, <1>3, <3>1, <3>2, CutTailOK
  <2> QED BY <1>2, <2>1, <2>2
<1>5. FileTyped(FileFound(tail), version') /\ Versions(Read(FileFound(tail)), version')
  BY <1>1, <1>4, ReadTyped
<1>6. CASE live' = Read(FileFound(tail)) /\ journal' \in Compacted(FileFound(tail), live')
  <2>1. FileTyped(journal', version')
    BY <1>1, <1>5, <1>6, CompactedTyped
  <2> QED BY <1>1, <1>5, <1>6, <2>1 DEF StoreTyped, FileTyped, IsJournal, Versions, TailOK
<1>7. CASE live' = Nowhere /\ journal' = [FileFound(tail) EXCEPT !.lastErr = TRUE]
  <2> DEFINE j == FileFound(tail)
  <2>1. journal' = [saved |-> j.saved, tail |-> j.tail, lines |-> j.lines,
                    open |-> j.open, size |-> j.size, lastErr |-> TRUE]
    BY <1>5, <1>7 DEF FileTyped, IsJournal
  <2>2. FileTyped(journal', version')
    <3> HIDE DEF j
    <3>1. FileTyped(j, version')
      BY <1>5 DEF j
    <3> QED BY <2>1, <3>1 DEF FileTyped, IsJournal
  <2>3. Versions(live', version')
    BY <1>1, <1>7, NowhereTyped
  <2> QED BY <1>1, <2>2, <2>3 DEF StoreTyped, FileTyped, IsJournal, Versions, TailOK
<1> QED BY <1>2, <1>6, <1>7

LEMMA JournalStaysTyped == StoreTyped /\ [JournalNext]_journalVars => StoreTyped'
<1> SUFFICES ASSUME StoreTyped, [JournalNext]_journalVars PROVE StoreTyped'
  OBVIOUS
<1>0. version \in Nat /\ Versions(live, version) /\ FileTyped(journal, version)
  BY DEF StoreTyped
<1>1. ASSUME NEW v \in Nat, version' = v, Versions(live', v), FileTyped(journal', v) PROVE StoreTyped'
  BY <1>1 DEF StoreTyped, FileTyped, IsJournal, Versions, TailOK
<1>2. ASSUME NEW t \in Things, Accept(t) PROVE StoreTyped'
  <2>1. PICK v \in Nat \ {0} : v = version + 1
    BY <1>0
  <2>2. version' = v /\ live' = [live EXCEPT ![t] = v] /\ version <= v
    BY <1>0, <1>2, <2>1 DEF Accept
  <2>3. Versions(live, v) /\ FileTyped(journal, v)
    BY <1>0, <2>1, <2>2, LaterVersions
  <2>4. Versions(live', v)
    <3>1. v \in 0..v
      OBVIOUS
    <3> QED BY <2>2, <2>3, <3>1, OneVersionMore
  <2>5. PICK j \in Appended(journal, t, v) : journal' \in CompactedIfDue(j, live')
    BY <1>2, <2>2 DEF Accept
  <2>6. FileTyped(j, v)
    BY <2>3, <2>5, AppendedTyped
  <2>7. FileTyped(journal', v)
    BY <2>4, <2>5, <2>6, CompactedTyped DEF CompactedIfDue
  <2> QED BY <1>1, <2>2, <2>4, <2>7
<1>3. ASSUME NEW t \in Things, Delete(t) PROVE StoreTyped'
  <2>1. live' = [live EXCEPT ![t] = 0] /\ version' = version /\ journal' \in Compacted(journal, live')
    BY <1>3 DEF Delete
  <2>2. Versions(live', version)
    <3>1. 0 \in 0..version
      BY <1>0
    <3> QED BY <1>0, <2>1, <3>1, OneVersionMore
  <2>3. FileTyped(journal', version)
    BY <1>0, <2>1, <2>2, CompactedTyped
  <2> QED BY <1>0, <1>1, <2>1, <2>2, <2>3
<1>4. CASE CloseJournal
  <2>1. journal' = [saved |-> journal.saved, tail |-> journal.tail, lines |-> journal.lines,
                    open |-> FALSE, size |-> journal.size, lastErr |-> journal.lastErr]
    BY <1>0, <1>4 DEF CloseJournal, FileTyped, IsJournal
  <2>2. live' = live /\ version' = version
    BY <1>4 DEF CloseJournal
  <2>3. FileTyped(journal', version)
    BY <1>0, <2>1 DEF FileTyped, IsJournal
  <2> QED BY <1>0, <1>1, <2>2, <2>3
<1>5. CASE Restart({}) \/ \E t \in Things \ Unencodable : Restart({t})
  BY <1>5, RestartTyped
<1>6. CASE UNCHANGED <<live, journal, version>>
  BY <1>0, <1>1, <1>6
<1> QED BY <1>2, <1>3, <1>4, <1>5, <1>6 DEF JournalNext, DiskBreaks, DiskHeals, journalVars

\* What of the types is about the state and the statistics.
HealthNow ==
  /\ chartsErr \in BOOLEAN /\ cached \in {{}, {TRUE}, {FALSE}}
  /\ got \in [StatsReaders -> {{}, {TRUE}, {FALSE}}]
  /\ health \in {"pass", "warn"} /\ gauge \in BOOLEAN

LEMMA FreshIs == ASSUME StoreTyped, HealthNow PROVE Fresh \in BOOLEAN
<1>1. BackendError \in BOOLEAN
  BY DEF BackendError, StoreTyped, FileTyped, IsJournal, HealthNow
<1>2. ASSUME cached # {} PROVE (CHOOSE e \in cached : TRUE) \in BOOLEAN
  <2>1. (CHOOSE e \in cached : TRUE) \in cached
    BY <1>2
  <2> QED BY <2>1 DEF HealthNow
<1> QED BY <1>1, <1>2 DEF Fresh

LEMMA HealthStays == StoreTyped /\ HealthNow /\ [HealthNext]_healthVars => HealthNow'
<1> SUFFICES ASSUME StoreTyped, HealthNow, [HealthNext]_healthVars PROVE HealthNow'
  OBVIOUS
<1>1. Fresh \in BOOLEAN /\ {Fresh} \in {{}, {TRUE}, {FALSE}}
  BY FreshIs
<1>2. CASE Forgets
  BY <1>2 DEF Forgets, HealthNow
<1>3. CASE UNCHANGED <<chartsErr, cached, got, health, gauge>>
  BY <1>3 DEF HealthNow
<1>4. ASSUME NEW r \in StatsReaders, AskStats(r) PROVE HealthNow'
  BY <1>1, <1>4 DEF AskStats, HealthNow
<1>5. ASSUME NEW r \in StatsReaders, SetHealth(r) PROVE HealthNow'
  BY <1>5 DEF SetHealth, HealthNow
<1>6. CASE CollectHealth
  BY <1>1, <1>6 DEF CollectHealth, HealthNow
<1>7. CASE ExpireStats
  BY <1>7 DEF ExpireStats, HealthNow
<1>8. CASE ChartErrs
  BY <1>8 DEF ChartErrs, HealthNow
<1>9. CASE UNCHANGED healthVars
  BY <1>3, <1>9 DEF healthVars
<1> QED BY <1>2, <1>3, <1>4, <1>5, <1>6, <1>7, <1>8, <1>9 DEF HealthNext

\* Whatever the disk refuses, wherever a write is cut and however often the program
\* starts: what the store keeps and what is behind the file's last newline are versions
\* of things accepted, and what the statistics, the health state and the gauge say of
\* errors has its kind (Journal.appendEntry, Journal.rewrite, storage/observability.go).
THEOREM StorageAlwaysTyped == HealthSpec => []HealthTypeOK
<1>1. HealthInit => StoreTyped /\ HealthNow
  <2> SUFFICES ASSUME HealthInit PROVE StoreTyped /\ HealthNow
    OBVIOUS
  <2>1. Versions(Nowhere, 0) /\ Nowhere \in [Things -> Nat]
    BY NowhereTyped DEF Nowhere
  <2>2. StoreTyped
    BY <2>1, JournalAssumption DEF HealthInit, JournalInit, StoreTyped, FileTyped, IsJournal, TailOK, Nowhere
  <2> QED BY <2>2 DEF HealthInit, HealthNow
<1>2. StoreTyped /\ HealthNow /\ [HealthNext]_healthVars => StoreTyped' /\ HealthNow'
  <2>1. [HealthNext]_healthVars => [JournalNext]_journalVars
    BY DEF HealthNext, healthVars, journalVars, AskStats, SetHealth, CollectHealth, ExpireStats, ChartErrs
  <2> QED BY <2>1, JournalStaysTyped, HealthStays
<1>3. StoreTyped /\ HealthNow => HealthTypeOK
  <2> SUFFICES ASSUME StoreTyped, HealthNow PROVE HealthTypeOK
    OBVIOUS
  <2>1. Cardinality(journal.tail) <= 1
    <3>1. journal.tail = {} \/ \E x : journal.tail = {x}
      BY DEF StoreTyped, FileTyped, TailOK
    <3> QED BY <3>1, NoneOrOne
  <2>2. Cardinality(cached) <= 1
    <3>1. cached = {} \/ \E x : cached = {x}
      BY DEF HealthNow
    <3> QED BY <3>1, NoneOrOne
  <2> QED BY <2>1, <2>2 DEF HealthTypeOK, JournalTypeOK, StoreTyped, FileTyped, Versions, HealthNow
<1> QED BY <1>1, <1>2, <1>3, PTL DEF HealthSpec


-----------------------------------------------------------------------------
(* The profiles of HeapProfiles.                                            *)

ProfilesTypes ==
  /\ memory \in 0..WorstMemory /\ lastStatus \in 0..WorstMemory /\ rises \in Nat
  /\ judged \in [count : Nat, latest : Nat, overtaken : Nat]
  /\ judged.latest <= judged.count
  /\ profiles \in [tried : Nat, failed : Nat]
  /\ \A r \in ProfileReaders : \A m \in measured[r] :
       m.status \in 0..WorstMemory /\ m.nth \in 1..judged.count

\* What memory may have been, and how often it had got worse, when each reading
\* was made: it got worse between two readings of which the later one is worse.
Histories == [0..judged.count -> [status : 0..WorstMemory, rises : Nat]]

IsHistory(past) ==
  /\ \A i, j \in 0..judged.count : i <= j =>
       /\ past[i].rises <= past[j].rises
       /\ past[i].status < past[j].status => past[i].rises < past[j].rises
  /\ \A i \in 0..judged.count :
       /\ past[i].rises <= rises
       /\ past[i].status < memory => past[i].rises < rises
  /\ \A r \in ProfileReaders : \A m \in measured[r] : m.status = past[m.nth].status

\* Every profile has its rise up to the latest reading judged, or its reading
\* overtaken; one is left over while an overtaken reading lowered the status.
Accounted(past) ==
  LET spare == IF lastStatus < past[judged.latest].status THEN 1 ELSE 0
  IN  profiles.tried + spare <= past[judged.latest].rises + judged.overtaken

\* The inductive invariant.
ProfilesInv ==
  /\ ProfilesTypes
  /\ \E past \in Histories : IsHistory(past) /\ Accounted(past)

LEMMA ProfilesInvInit == ProfilesInit => ProfilesInv
<1> SUFFICES ASSUME ProfilesInit PROVE ProfilesInv
  OBVIOUS
<1>1. ProfilesTypes
  BY ProfilesAssumption DEF ProfilesInit, ProfilesTypes
<1> DEFINE past == [i \in 0..judged.count |-> [status |-> 0, rises |-> 0]]
<1>2. past \in Histories
  BY ProfilesAssumption DEF Histories
<1>3. IsHistory(past) /\ Accounted(past)
  BY DEF ProfilesInit, IsHistory, Accounted
<1> QED
  BY <1>1, <1>2, <1>3 DEF ProfilesInv

\* A history is one of numbers.
LEMMA HistoryNumbers ==
  ASSUME NEW past \in Histories, ProfilesTypes
  PROVE  \A i \in 0..judged.count :
           past[i].status \in 0..WorstMemory /\ past[i].rises \in Nat
  BY DEF Histories

LEMMA MemoryMovesKeeps ==
  ASSUME ProfilesInv, NEW s \in 0..WorstMemory, MemoryMoves(s)
  PROVE  ProfilesInv'
<1> USE ProfilesAssumption DEF MemoryMoves
<1>1. ProfilesTypes'
  BY DEF ProfilesInv, ProfilesTypes
<1>2. PICK past \in Histories : IsHistory(past) /\ Accounted(past)
  BY DEF ProfilesInv
<1>3. \A i \in 0..judged.count : past[i].status \in 0..WorstMemory /\ past[i].rises \in Nat
  BY <1>2, HistoryNumbers DEF ProfilesInv
<1>4. past \in Histories' /\ Accounted(past)'
  BY <1>2 DEF Histories, Accounted
<1>5. IsHistory(past)'
  <2>1. \A i \in 0..judged.count :
          /\ past[i].rises <= rises'
          /\ past[i].status < memory' => past[i].rises < rises'
    BY <1>2, <1>3 DEF IsHistory, ProfilesInv, ProfilesTypes
  <2> QED
    BY <1>2, <2>1 DEF IsHistory
<1> QED
  BY <1>1, <1>4, <1>5 DEF ProfilesInv

LEMMA MeasureKeeps ==
  ASSUME ProfilesInv, NEW r \in ProfileReaders, MeasureMemory(r)
  PROVE  ProfilesInv'
<1> USE ProfilesAssumption
<1> DEFINE n == judged.count
<1>1. /\ ProfilesTypes /\ n \in Nat
      /\ UNCHANGED <<memory, available, lastStatus, profiles, rises>>
      /\ judged'.count = n + 1 /\ judged'.latest = judged.latest
      /\ judged'.overtaken = judged.overtaken /\ judged' \in [count : Nat, latest : Nat, overtaken : Nat]
  BY DEF MeasureMemory, ProfilesInv, ProfilesTypes
<1>2. \A q \in ProfileReaders : \A m \in measured'[q] :
        m \in measured[q] \/ (m.status = memory /\ m.nth = n + 1)
  BY <1>1 DEF MeasureMemory
<1>3. ProfilesTypes'
  BY <1>1, <1>2 DEF ProfilesTypes
<1>4. PICK past \in Histories : IsHistory(past) /\ Accounted(past)
  BY DEF ProfilesInv
<1>5. \A i \in 0..n : past[i].status \in 0..WorstMemory /\ past[i].rises \in Nat
  BY <1>1, <1>4, HistoryNumbers
<1>6. PICK longer \in [0..(n + 1) -> [status : 0..WorstMemory, rises : Nat]] :
        /\ \A i \in 0..n : longer[i] = past[i]
        /\ longer[n + 1].status = memory /\ longer[n + 1].rises = rises
  <2> DEFINE new == [i \in 0..(n + 1) |->
                       IF i = n + 1 THEN [status |-> memory, rises |-> rises] ELSE past[i]]
  <2>1. \A i \in 0..(n + 1) : new[i] \in [status : 0..WorstMemory, rises : Nat]
    BY <1>1, <1>4 DEF Histories, ProfilesTypes
  <2>2. new \in [0..(n + 1) -> [status : 0..WorstMemory, rises : Nat]]
    BY <2>1
  <2>3. /\ \A i \in 0..n : new[i] = past[i]
        /\ new[n + 1].status = memory /\ new[n + 1].rises = rises
    BY <1>1
  <2> HIDE DEF new
  <2> QED
    BY <2>2, <2>3
<1>7. longer \in Histories'
  BY <1>1, <1>6 DEF Histories
<1>8. IsHistory(longer)'
  <2>1. \A i \in 0..(n + 1) : i \in 0..n \/ i = n + 1
    BY <1>1
  <2>2. \A i, j \in 0..(n + 1) : i <= j =>
          /\ longer[i].rises <= longer[j].rises
          /\ longer[i].status < longer[j].status => longer[i].rises < longer[j].rises
    <3> SUFFICES ASSUME NEW i \in 0..(n + 1), NEW j \in 0..(n + 1), i <= j
                 PROVE  /\ longer[i].rises <= longer[j].rises
                        /\ longer[i].status < longer[j].status => longer[i].rises < longer[j].rises
      OBVIOUS
    <3>1. CASE j = n + 1 /\ i \in 0..n
      BY <1>1, <1>4, <1>5, <1>6, <3>1 DEF IsHistory
    <3>2. CASE j = n + 1 /\ i = n + 1
      BY <1>1, <1>6, <3>2 DEF ProfilesTypes
    <3>3. CASE j \in 0..n /\ i \in 0..n
      BY <1>4, <1>6, <3>3 DEF IsHistory
    <3> QED
      BY <1>1, <2>1, <3>1, <3>2, <3>3
  <2>3. \A i \in 0..(n + 1) :
          /\ longer[i].rises <= rises
          /\ longer[i].status < memory => longer[i].rises < rises
    <3>1. \A i \in 0..n : past[i].rises <= rises /\ (past[i].status < memory => past[i].rises < rises)
      BY <1>4 DEF IsHistory
    <3>2. rises <= rises /\ ~(memory < memory)
      BY <1>1 DEF ProfilesTypes
    <3> QED
      BY <1>6, <2>1, <3>1, <3>2
  <2>4. \A q \in ProfileReaders : \A m \in measured'[q] : m.status = longer[m.nth].status
    <3> SUFFICES ASSUME NEW q \in ProfileReaders, NEW m \in measured'[q]
                 PROVE  m.status = longer[m.nth].status
      OBVIOUS
    <3>1. CASE m \in measured[q]
      <4>1. m.nth \in 0..n /\ m.status = past[m.nth].status
        BY <1>1, <1>4, <3>1 DEF IsHistory, ProfilesTypes
      <4> QED
        BY <1>6, <4>1
    <3>2. CASE m.status = memory /\ m.nth = n + 1
      BY <1>6, <3>2
    <3> QED
      BY <1>2, <3>1, <3>2
  <2> QED
    BY <1>1, <2>2, <2>3, <2>4 DEF IsHistory
<1>9. Accounted(longer)'
  <2>1. judged.latest \in 0..n
    BY <1>1 DEF ProfilesTypes
  <2> QED
    BY <1>1, <1>4, <1>6, <2>1 DEF Accounted
<1> QED
  BY <1>3, <1>7, <1>8, <1>9 DEF ProfilesInv

LEMMA WriteKeeps ==
  ASSUME ProfilesInv, NEW r \in ProfileReaders, NEW fails \in BOOLEAN, WriteProfile(r, fails)
  PROVE  ProfilesInv'
<1> USE ProfilesAssumption
<1>1. PICK m \in measured[r] :
        /\ lastStatus' = m.status
        /\ profiles' = IF IsWorse(m.status)
                       THEN [tried |-> profiles.tried + 1,
                             failed |-> profiles.failed + (IF fails THEN 1 ELSE 0)]
                       ELSE profiles
        /\ judged' = IF m.nth < judged.latest
                     THEN [judged EXCEPT !.overtaken = judged.overtaken + 1]
                     ELSE [judged EXCEPT !.latest = m.nth]
        /\ measured' = [measured EXCEPT ![r] = {}]
        /\ UNCHANGED <<memory, available, rises>>
  BY DEF WriteProfile
<1>2. /\ ProfilesTypes
      /\ m.status \in 0..WorstMemory /\ m.nth \in 1..judged.count
      /\ judged.latest \in 0..judged.count /\ judged.count \in Nat
  BY DEF ProfilesInv, ProfilesTypes
<1>3. \A q \in ProfileReaders : measured'[q] \subseteq measured[q]
  BY <1>1
<1>4. /\ judged' \in [count : Nat, latest : Nat, overtaken : Nat]
      /\ judged'.count = judged.count /\ judged'.latest <= judged.count
      /\ profiles' \in [tried : Nat, failed : Nat]
      /\ profiles'.tried = IF IsWorse(m.status) THEN profiles.tried + 1 ELSE profiles.tried
  BY <1>1, <1>2 DEF ProfilesTypes
<1>5. ProfilesTypes'
  BY <1>1, <1>2, <1>3, <1>4 DEF ProfilesTypes
<1>6. PICK past \in Histories : IsHistory(past) /\ Accounted(past)
  BY DEF ProfilesInv
<1>7. past \in Histories' /\ IsHistory(past)'
  <2>1. past \in Histories'
    BY <1>4, <1>6 DEF Histories
  <2>2. \A q \in ProfileReaders : \A x \in measured'[q] : x.status = past[x.nth].status
    BY <1>3, <1>6 DEF IsHistory
  <2> QED
    BY <1>1, <1>4, <1>6, <2>1, <2>2 DEF IsHistory
<1>8. Accounted(past)'
  <2> DEFINE old == past[judged.latest]
             this == past[m.nth]
  <2>1. /\ old.status \in 0..WorstMemory /\ old.rises \in Nat
        /\ this.status = m.status /\ this.rises \in Nat
        /\ profiles.tried \in Nat /\ judged.overtaken \in Nat /\ lastStatus \in 0..WorstMemory
    <3>1. this.status = m.status
      BY <1>6 DEF IsHistory
    <3> QED
      BY <1>2, <1>6, <3>1, HistoryNumbers DEF ProfilesTypes
  <2>2. profiles.tried + (IF lastStatus < old.status THEN 1 ELSE 0) <= old.rises + judged.overtaken
    BY <1>6 DEF Accounted
  <2>3. CASE m.nth < judged.latest
    <3>1. judged'.latest = judged.latest /\ judged'.overtaken = judged.overtaken + 1
      BY <1>1, <1>2, <2>3 DEF ProfilesTypes
    <3>2. profiles'.tried + (IF m.status < old.status THEN 1 ELSE 0)
            <= old.rises + (judged.overtaken + 1)
      <4> HIDE DEF old, this
      <4> QED
        BY <1>2, <1>4, <2>1, <2>2 DEF IsWorse
    <3> QED
      BY <1>1, <3>1, <3>2 DEF Accounted
  <2>4. CASE ~(m.nth < judged.latest)
    <3>1. judged'.latest = m.nth /\ judged'.overtaken = judged.overtaken
      BY <1>1, <1>2, <2>4 DEF ProfilesTypes
    <3>2. /\ old.rises <= this.rises
          /\ old.status < this.status => old.rises < this.rises
      BY <1>2, <1>6, <2>4 DEF IsHistory
    <3>3. profiles'.tried <= this.rises + judged.overtaken
      <4> HIDE DEF old, this
      <4> QED
        BY <1>2, <1>4, <2>1, <2>2, <3>2 DEF IsWorse
    <3> QED
      BY <1>1, <1>2, <1>4, <2>1, <3>1, <3>3 DEF Accounted
  <2> QED
    BY <2>3, <2>4
<1> QED
  BY <1>5, <1>7, <1>8 DEF ProfilesInv

LEMMA ProfilesStep == ProfilesInv /\ [ProfilesNext]_profileVars => ProfilesInv'
<1> SUFFICES ASSUME ProfilesInv, [ProfilesNext]_profileVars PROVE ProfilesInv'
  OBVIOUS
<1>1. CASE UNCHANGED <<memory, measured, lastStatus, profiles, judged, rises>>
  BY <1>1 DEF ProfilesInv, ProfilesTypes, Histories, IsHistory, Accounted
<1>2. CASE AvailabilityMoves
  BY <1>1, <1>2 DEF AvailabilityMoves
<1>3. CASE ProfilesNext
  BY <1>2, <1>3, MemoryMovesKeeps, MeasureKeeps, WriteKeeps DEF ProfilesNext
<1> QED
  BY <1>1, <1>3 DEF profileVars

\* What of the types the invariant does not say.
ProfilesNow ==
  /\ available \in BOOLEAN
  /\ \A r \in ProfileReaders : measured[r] = {} \/ \E m : measured[r] = {m}
  /\ profiles.failed \in 0..profiles.tried

LEMMA ProfilesNowStep == ProfilesInv /\ ProfilesNow /\ [ProfilesNext]_profileVars => ProfilesNow'
<1> SUFFICES ASSUME ProfilesInv, ProfilesNow, [ProfilesNext]_profileVars PROVE ProfilesNow'
  OBVIOUS
<1>1. profiles \in [tried : Nat, failed : Nat]
  BY DEF ProfilesInv, ProfilesTypes
<1>2. CASE \E m \in 0..WorstMemory : MemoryMoves(m)
  BY <1>2 DEF MemoryMoves, ProfilesNow
<1>3. CASE AvailabilityMoves
  BY <1>3 DEF AvailabilityMoves, ProfilesNow
<1>4. ASSUME NEW r \in ProfileReaders, MeasureMemory(r) PROVE ProfilesNow'
  <2>1. ASSUME NEW q \in ProfileReaders
        PROVE  measured'[q] = measured[q] \/ measured'[q] = {} \/ \E m : measured'[q] = {m}
    BY <1>4 DEF MeasureMemory
  <2> QED BY <1>4, <2>1 DEF MeasureMemory, ProfilesNow
<1>5. ASSUME NEW r \in ProfileReaders, NEW fails \in BOOLEAN, WriteProfile(r, fails) PROVE ProfilesNow'
  <2>1. profiles' = profiles
        \/ profiles' = [tried |-> profiles.tried + 1, failed |-> profiles.failed + (IF fails THEN 1 ELSE 0)]
    BY <1>5 DEF WriteProfile
  <2>2. profiles'.failed \in 0..profiles'.tried
    BY <1>1, <2>1 DEF ProfilesNow
  <2>3. \A q \in ProfileReaders : measured'[q] = measured[q] \/ measured'[q] = {}
    BY <1>5 DEF WriteProfile
  <2> QED BY <1>5, <2>2, <2>3 DEF WriteProfile, ProfilesNow
<1>6. CASE UNCHANGED profileVars
  BY <1>6 DEF profileVars, ProfilesNow
<1> QED BY <1>2, <1>3, <1>4, <1>5, <1>6 DEF ProfilesNext

LEMMA ProfilesAreTyped == ProfilesSpec => []ProfilesTypeOK
<1>1. ProfilesInit => ProfilesNow
  BY DEF ProfilesInit, ProfilesNow
<1>2. ProfilesInv /\ ProfilesNow => ProfilesTypeOK
  <2> SUFFICES ASSUME ProfilesInv, ProfilesNow PROVE ProfilesTypeOK
    OBVIOUS
  <2>1. ASSUME NEW r \in ProfileReaders PROVE Cardinality(measured[r]) <= 1
    <3>1. measured[r] = {} \/ \E m : measured[r] = {m}
      BY DEF ProfilesNow
    <3> QED BY <3>1, NoneOrOne
  <2> QED BY <2>1 DEF ProfilesInv, ProfilesTypes, ProfilesNow, ProfilesTypeOK
<1> QED BY <1>1, <1>2, ProfilesNowStep, ProfilesInvInit, ProfilesStep, PTL DEF ProfilesSpec

\* No more heap profiles are written than memory got worse, and readings
\* overtook others, however often and by however many readers the state is read
\* (maybeWriteHeapProfile).
THEOREM ProfilesAlwaysPerRise == ProfilesSpec => []ProfilesPerRise
<1>1. ProfilesInv => profiles.tried <= rises + judged.overtaken
  <2> SUFFICES ASSUME ProfilesInv PROVE profiles.tried <= rises + judged.overtaken
    OBVIOUS
  <2>1. PICK past \in Histories : IsHistory(past) /\ Accounted(past)
    BY DEF ProfilesInv
  <2>2. ProfilesTypes /\ judged.latest \in 0..judged.count
    BY DEF ProfilesInv, ProfilesTypes
  <2>3. past[judged.latest].rises \in Nat /\ past[judged.latest].rises <= rises
    BY <2>1, <2>2, HistoryNumbers DEF IsHistory
  <2>4. profiles.tried <= past[judged.latest].rises + judged.overtaken
    BY <2>1, <2>2, <2>3 DEF Accounted, ProfilesTypes
  <2> QED
    BY <2>2, <2>3, <2>4 DEF ProfilesTypes
<1> QED
  BY <1>1, ProfilesInvInit, ProfilesStep, ProfilesAreTyped, PTL DEF ProfilesSpec, ProfilesPerRise

-----------------------------------------------------------------------------
(* The counts of FailRatio.                                                 *)

Counts == [Width -> Nat]

Calls == [at : RatioTimes, outcome : {"none", "passed", "failed"}]

RatioTypes ==
  /\ window \in {0, Span} /\ policy \in {"ratio", "all failed"}
  /\ told \in Seq(Calls) /\ told # <<>>
  /\ ratioCounters \in [start : Int, curr : Counts, prev : Counts]
  /\ cumulative \in Counts

\* The current bucket is the newest that a call fell into.
StartIsNewest ==
  /\ \E k \in 1..Len(told) : ratioCounters.start = BucketStart(told[k].at)
  /\ \A k \in 1..Len(told) : BucketStart(told[k].at) <= ratioCounters.start

\* The counters have the outcomes told in the current bucket and in the one before it.
WindowCounted ==
  window # 0 =>
    /\ StartIsNewest
    /\ ratioCounters.curr = CountOf(OutcomesIn(ratioCounters.start))
    /\ ratioCounters.prev = CountOf(OutcomesIn(ratioCounters.start - Span))

AllCounted ==
  window = 0 => cumulative = CountOf({k \in 1..Len(told) : told[k].outcome # "none"})

\* The last call set the state by what the counters said.
JudgedByPolicy ==
  LET found == RatioCounts(ratioCounters, cumulative, told[Len(told)].at)
  IN  ratioState.counts = found /\ ratioState.status \in {"pass", Evaluate(found)}

\* The inductive invariant.
RatioInv == RatioTypes /\ WindowCounted /\ AllCounted /\ JudgedByPolicy

\* Buckets are a Span apart.
LEMMA BucketsApart ==
  ASSUME NEW a \in Nat, NEW b \in Nat
  PROVE  /\ BucketStart(a) \in Int /\ a - BucketStart(a) \in 0..(Span - 1)
         /\ BucketStart(a) < BucketStart(b) => BucketStart(a) + Span <= BucketStart(b)
<1> DEFINE p == a \div Span
           q == b \div Span
<1>0. Span \in Nat /\ Span > 0
  BY SpanAssumption
<1>1. p \in Int /\ q \in Int /\ a % Span \in 0..(Span - 1) /\ b % Span \in 0..(Span - 1)
  BY <1>0
<1>2. a = Span * p + (a % Span) /\ b = Span * q + (b % Span)
  BY <1>0
<1>3. BucketStart(a) = Span * p /\ BucketStart(b) = Span * q
  <2>1. Span * p \in Int /\ Span * q \in Int
    BY <1>0, <1>1
  <2>2. BucketStart(a) = a - (a % Span) /\ BucketStart(b) = b - (b % Span)
    BY DEF BucketStart
  <2> HIDE DEF p, q
  <2> QED BY <1>1, <1>2, <2>1, <2>2
<1>4. a - BucketStart(a) = a % Span /\ BucketStart(a) \in Int
  BY <1>0, <1>1 DEF BucketStart
<1> HIDE DEF p, q
<1>5. ASSUME Span * p < Span * q PROVE Span * p + Span <= Span * q
  <2>1. p < q
    <3> SUFFICES ASSUME q <= p PROVE FALSE
      BY <1>1
    <3>1. Span * q <= Span * p
      BY <1>0, <1>1
    <3>2. Span * q \in Int /\ Span * p \in Int
      BY <1>0, <1>1
    <3> QED BY <1>5, <3>1, <3>2
  <2>2. p + 1 <= q
    BY <1>1, <2>1
  <2>3. Span * (p + 1) <= Span * q
    BY <1>0, <1>1, <2>2
  <2>4. Span * (p + 1) = Span * p + Span
    BY <1>0, <1>1
  <2> QED BY <2>3, <2>4
<1> QED BY <1>1, <1>3, <1>4, <1>5

LEMMA ShareIsNat ==
  ASSUME NEW count \in Nat, NEW left \in Nat
  PROVE  (count * left) \div Span \in Nat /\ (count = 0 => (count * left) \div Span = 0)
<1>1. Span \in Nat /\ Span > 0 /\ count * left \in Nat
  BY SpanAssumption
<1> QED BY <1>1

-----------------------------------------------------------------------------
(* A call is told.                                                          *)

Counting(outcomes, i) == {k \in outcomes : i = "total" \/ told[k].outcome = "failed"}

LEMMA CountsOf ==
  ASSUME told \in Seq(Calls), NEW outcomes \in SUBSET (1..Len(told)), NEW i \in Width
  PROVE  /\ IsFiniteSet(Counting(outcomes, i))
         /\ CountOf(outcomes)[i] = Cardinality(Counting(outcomes, i))
         /\ CountOf(outcomes)[i] \in Nat
<1>1. 1 \in Int /\ Len(told) \in Int
  OBVIOUS
<1>2. IsFiniteSet(1..Len(told))
  BY <1>1, FS_Interval
<1>3. Counting(outcomes, i) \subseteq 1..Len(told)
  BY DEF Counting
<1>4. IsFiniteSet(Counting(outcomes, i))
  BY <1>2, <1>3, FS_Subset
<1>5. CountOf(outcomes)[i] = Cardinality(Counting(outcomes, i))
  BY DEF CountOf, Counting
<1> QED BY <1>4, <1>5, FS_CardinalityType

LEMMA NoneCounted == CountOf({}) = Nothing
<1>1. \A i \in Width : Counting({}, i) = {}
  BY DEF Counting
<1>2. \A i \in Width : CountOf({})[i] = 0
  BY <1>1, FS_EmptySet DEF CountOf, Counting
<1> QED BY <1>2 DEF CountOf, Nothing

LEMMA OneMore ==
  ASSUME told \in Seq(Calls), NEW call \in Calls, told' = Append(told, call),
         NEW n, n = Len(told) + 1, NEW outcomes \in SUBSET (1..Len(told))
  PROVE  /\ CountOf(outcomes)' = CountOf(outcomes)
         /\ CountOf(outcomes \cup {n})' =
              [i \in Width |-> CountOf(outcomes)[i] +
                                 (IF i = "total" \/ call.outcome = "failed" THEN 1 ELSE 0)]
<1>1. /\ n \in Nat /\ told'[n] = call /\ n \notin outcomes
      /\ \A k \in outcomes : told'[k] = told[k]
  <2>1. Len(told) \in Nat /\ told'[n] = call
    OBVIOUS
  <2>2. \A k \in 1..Len(told) : told'[k] = told[k]
    OBVIOUS
  <2> QED BY <2>1, <2>2
<1>2. ASSUME NEW i \in Width PROVE Counting(outcomes, i)' = Counting(outcomes, i)
  BY <1>1 DEF Counting
<1>3. CountOf(outcomes)' = CountOf(outcomes)
  <2>1. CountOf(outcomes) = [i \in Width |-> Cardinality(Counting(outcomes, i))]
    BY DEF CountOf, Counting
  <2>2. CountOf(outcomes)' = [i \in Width |-> Cardinality(Counting(outcomes, i)')]
    BY DEF CountOf, Counting
  <2> QED BY <1>2, <2>1, <2>2
<1>4. ASSUME NEW i \in Width
      PROVE  Cardinality(Counting(outcomes \cup {n}, i)') =
               CountOf(outcomes)[i] + (IF i = "total" \/ call.outcome = "failed" THEN 1 ELSE 0)
  <2>1. /\ IsFiniteSet(Counting(outcomes, i)) /\ CountOf(outcomes)[i] = Cardinality(Counting(outcomes, i))
        /\ CountOf(outcomes)[i] \in Nat
    BY CountsOf
  <2>2. CASE i = "total" \/ call.outcome = "failed"
    <3>1. Counting(outcomes \cup {n}, i)' = Counting(outcomes, i) \cup {n}
      <4>1. Counting(outcomes \cup {n}, i)' =
              {k \in outcomes \cup {n} : i = "total" \/ told'[k].outcome = "failed"}
        BY DEF Counting
      <4>2. i = "total" \/ told'[n].outcome = "failed"
        BY <1>1, <2>2
      <4> QED BY <1>1, <4>1, <4>2 DEF Counting
    <3>2. n \notin Counting(outcomes, i)
      BY <1>1 DEF Counting
    <3>3. Cardinality(Counting(outcomes, i) \cup {n}) = Cardinality(Counting(outcomes, i)) + 1
      BY <2>1, <3>2, FS_AddElement
    <3> QED BY <2>1, <2>2, <3>1, <3>3
  <2>3. CASE ~(i = "total" \/ call.outcome = "failed")
    <3>1. Counting(outcomes \cup {n}, i)' = Counting(outcomes, i)
      <4>1. Counting(outcomes \cup {n}, i)' =
              {k \in outcomes \cup {n} : i = "total" \/ told'[k].outcome = "failed"}
        BY DEF Counting
      <4>2. ~(i = "total" \/ told'[n].outcome = "failed")
        BY <1>1, <2>3
      <4> QED BY <1>1, <4>1, <4>2 DEF Counting
    <3> QED BY <2>1, <2>3, <3>1
  <2> QED BY <2>2, <2>3
<1>5. CountOf(outcomes \cup {n})' = [i \in Width |-> Cardinality(Counting(outcomes \cup {n}, i)')]
  BY DEF CountOf, Counting
<1> QED BY <1>3, <1>4, <1>5

LEMMA TimeOf ==
  ASSUME told \in Seq(Calls), NEW k \in 1..Len(told)
  PROVE  told[k] \in Calls /\ told[k].at \in RatioTimes /\ told[k].at \in Nat
<1>1. told[k] \in Calls
  OBVIOUS
<1>2. told[k].at \in RatioTimes
  BY <1>1 DEF Calls
<1> QED BY <1>1, <1>2, RatioAssumption

\* What is told now changes nothing of what was told in the buckets that were the newest.
LEMMA CallTold ==
  ASSUME told \in Seq(Calls), NEW call \in Calls, told' = Append(told, call),
         NEW n, n = Len(told) + 1, NEW bucket
  PROVE  /\ Len(told') = n /\ told'[n] = call
         /\ \A k \in 1..Len(told) : told'[k] = told[k] /\ k \in 1..n
         /\ OutcomesIn(bucket) \subseteq 1..Len(told)
         /\ OutcomesIn(bucket)' =
              IF call.outcome # "none" /\ BucketStart(call.at) = bucket
                   /\ NewestBucket(n)' = bucket
              THEN OutcomesIn(bucket) \cup {n} ELSE OutcomesIn(bucket)
<1>1. /\ Len(told) \in Nat /\ n \in Nat /\ Len(told') = n /\ told'[n] = call
      /\ \A k \in 1..Len(told) : told'[k] = told[k]
  OBVIOUS
<1>2. \A k : k \in 1..n <=> k \in 1..Len(told) \/ k = n
  BY <1>1
<1>3. ASSUME NEW k \in 1..Len(told) PROVE NewestBucket(k)' = NewestBucket(k)
  <2>1. \A j \in 1..k : told'[j] = told[j]
    BY <1>1
  <2>2. {BucketStart(told'[j].at) : j \in 1..k} = {BucketStart(told[j].at) : j \in 1..k}
    BY <2>1
  <2> QED BY <2>2 DEF NewestBucket
<1>4. n \notin 1..Len(told)
  BY <1>1
<1>5. OutcomesIn(bucket) \subseteq 1..Len(told)
  BY DEF OutcomesIn
<1>6. ASSUME NEW k \in 1..Len(told) PROVE k \in OutcomesIn(bucket)' <=> k \in OutcomesIn(bucket)
  BY <1>1, <1>2, <1>3 DEF OutcomesIn
<1>7. n \in OutcomesIn(bucket)' <=>
        call.outcome # "none" /\ BucketStart(call.at) = bucket /\ NewestBucket(n)' = bucket
  BY <1>1, <1>2 DEF OutcomesIn
<1>8. OutcomesIn(bucket)' \subseteq 1..n
  BY <1>1 DEF OutcomesIn
<1>9. OutcomesIn(bucket)' =
        IF call.outcome # "none" /\ BucketStart(call.at) = bucket /\ NewestBucket(n)' = bucket
        THEN OutcomesIn(bucket) \cup {n} ELSE OutcomesIn(bucket)
  <2>1. \A k : k \in OutcomesIn(bucket)' <=> k \in OutcomesIn(bucket) \/ (k = n /\ n \in OutcomesIn(bucket)')
    BY <1>2, <1>4, <1>5, <1>6, <1>8
  <2>2. CASE n \in OutcomesIn(bucket)'
    <3>1. OutcomesIn(bucket)' = OutcomesIn(bucket) \cup {n}
      BY <2>1, <2>2
    <3> QED BY <1>7, <2>2, <3>1
  <2>3. CASE n \notin OutcomesIn(bucket)'
    <3>1. OutcomesIn(bucket)' = OutcomesIn(bucket)
      BY <2>1, <2>3
    <3> QED BY <1>7, <2>3, <3>1
  <2> QED BY <2>2, <2>3
<1> QED BY <1>1, <1>2, <1>5, <1>9

\* Whatever was told: what a call leaves of the counters.
LEMMA BucketTurns ==
  ASSUME RatioTypes, WindowCounted, window # 0, NEW t \in RatioTimes,
         NEW outcome \in {"none", "passed", "failed"},
         told' = Append(told, [at |-> t, outcome |-> outcome]), window' = window,
         NEW values, values = [i \in Width |-> IF i = "total" \/ outcome = "failed" THEN 1 ELSE 0],
         ratioCounters' = IF outcome = "none" THEN Rotated(ratioCounters, t)
                          ELSE Added(ratioCounters, t, values)
  PROVE  /\ ratioCounters' \in [start : Int, curr : Counts, prev : Counts]
         /\ WindowCounted'
         /\ ratioCounters'.start >= BucketStart(t)
         /\ IsOld(ratioCounters, t) <=> BucketStart(t) < ratioCounters'.start
<1> DEFINE call == [at |-> t, outcome |-> outcome]
           b == BucketStart(t)
           zeros == [i \in Width |-> 0]
<1>1. /\ told \in Seq(Calls) /\ call \in Calls /\ Len(told) \in Nat /\ told' = Append(told, call)
      /\ ratioCounters \in [start : Int, curr : Counts, prev : Counts]
      /\ t \in Nat /\ b \in Int /\ Span \in Nat \ {0}
  <2>1. t \in Nat
    BY RatioAssumption
  <2>2. b \in Int /\ Span \in Nat \ {0}
    BY <2>1, BucketsApart, SpanAssumption
  <2>3. call \in Calls
    BY DEF Calls
  <2>4. told \in Seq(Calls) /\ ratioCounters \in [start : Int, curr : Counts, prev : Counts]
    BY DEF RatioTypes
  <2> HIDE DEF b
  <2> QED BY <2>1, <2>2, <2>3, <2>4
<1>2. PICK n : n = Len(told) + 1
  OBVIOUS
<1>3. PICK start \in Int : start = ratioCounters.start
  BY <1>1
<1> HIDE DEF call, b
<1>4. /\ StartIsNewest
      /\ ratioCounters.curr = CountOf(OutcomesIn(start))
      /\ ratioCounters.prev = CountOf(OutcomesIn(start - Span))
  BY <1>3 DEF WindowCounted
<1>5. /\ Len(told') = n /\ told'[n] = call /\ n \in Nat
      /\ \A k \in 1..Len(told) : told'[k] = told[k] /\ k \in 1..n
      /\ \A k \in 1..n : k \in 1..Len(told) \/ k = n
  BY <1>1, <1>2, CallTold
<1>6. call.at = t /\ call.outcome = outcome
  BY DEF call
<1>0. PICK newest \in Int : newest = IF b <= start THEN start ELSE b
  BY <1>1
<1>7. /\ \E k \in 1..Len(told') : newest = BucketStart(told'[k].at)
      /\ \A k \in 1..Len(told') : BucketStart(told'[k].at) <= newest
      /\ NewestBucket(n)' = newest
  <2>0. b <= newest /\ start <= newest
    BY <1>0, <1>1
  <2>1. PICK k \in 1..Len(told) : start = BucketStart(told[k].at)
    BY <1>3, <1>4 DEF StartIsNewest
  <2>2. \A j \in 1..Len(told) : BucketStart(told'[j].at) <= start
    BY <1>3, <1>4, <1>5 DEF StartIsNewest
  <2>3. BucketStart(told'[n].at) = b
    BY <1>5, <1>6 DEF b
  <2>4. \E j \in 1..n : newest = BucketStart(told'[j].at)
    <3>1. CASE b <= start
      BY <1>0, <1>5, <2>1, <3>1
    <3>2. CASE ~(b <= start)
      <4>1. n \in 1..n
        BY <1>1, <1>2
      <4> QED BY <1>0, <2>3, <3>2, <4>1
    <3> QED BY <3>1, <3>2
  <2>5. \A j \in 1..n : BucketStart(told'[j].at) <= newest
    <3>1. ASSUME NEW j \in 1..n PROVE BucketStart(told'[j].at) <= newest
      <4>1. CASE j = n
        BY <2>0, <2>3, <4>1
      <4>2. CASE j \in 1..Len(told)
        <5>1. told[j].at \in Nat
          BY <1>1, <4>2, TimeOf
        <5>2. BucketStart(told'[j].at) \in Int
          BY <1>5, <4>2, <5>1, BucketsApart
        <5> QED BY <2>0, <2>2, <4>2, <5>2
      <4> QED BY <1>5, <4>1, <4>2
    <3> QED BY <3>1
  <2>6. PICK buckets : buckets = {BucketStart(told'[j].at) : j \in 1..n}
    OBVIOUS
  <2>7. buckets \subseteq Int
    <3>1. ASSUME NEW j \in 1..n PROVE BucketStart(told'[j].at) \in Int
      <4>1. CASE j = n
        BY <1>1, <2>3, <4>1
      <4>2. CASE j \in 1..Len(told)
        BY <1>1, <1>5, <4>2, TimeOf, BucketsApart
      <4> QED BY <1>5, <4>1, <4>2
    <3> QED BY <2>6, <3>1
  <2>8. newest \in buckets /\ \A c \in buckets : c <= newest
    BY <2>4, <2>5, <2>6
  <2>9. Max(buckets) = newest
    BY <2>7, <2>8, GreatestIsMax
  <2>10. NewestBucket(n)' = newest
    BY <2>6, <2>9 DEF NewestBucket
  <2> QED BY <1>5, <2>4, <2>5, <2>10
<1>8. ASSUME NEW bucket
      PROVE  /\ OutcomesIn(bucket) \subseteq 1..Len(told)
             /\ CountOf(OutcomesIn(bucket)) \in Counts
             /\ OutcomesIn(bucket)' =
                  IF outcome # "none" /\ b = bucket /\ NewestBucket(n)' = bucket
                  THEN OutcomesIn(bucket) \cup {n} ELSE OutcomesIn(bucket)
  <2>1. /\ OutcomesIn(bucket) \subseteq 1..Len(told)
        /\ OutcomesIn(bucket)' =
                  IF call.outcome # "none" /\ BucketStart(call.at) = bucket /\ NewestBucket(n)' = bucket
                  THEN OutcomesIn(bucket) \cup {n} ELSE OutcomesIn(bucket)
    BY <1>1, <1>2, CallTold
  <2>2. \A i \in Width : CountOf(OutcomesIn(bucket))[i] \in Nat
    BY <1>1, <2>1, CountsOf
  <2>3. CountOf(OutcomesIn(bucket)) = [i \in Width |-> CountOf(OutcomesIn(bucket))[i]]
    BY DEF CountOf
  <2> QED BY <1>6, <2>1, <2>2, <2>3 DEF Counts, b
<1>9. ASSUME NEW bucket
      PROVE  CountOf(OutcomesIn(bucket))' =
               IF outcome # "none" /\ b = bucket /\ NewestBucket(n)' = bucket
               THEN [i \in Width |-> CountOf(OutcomesIn(bucket))[i] + values[i]]
               ELSE CountOf(OutcomesIn(bucket))
  <2>1. PICK had : had = OutcomesIn(bucket)
    OBVIOUS
  <2>2. PICK has : has = OutcomesIn(bucket)'
    OBVIOUS
  <2>3. had \subseteq 1..Len(told)
    BY <1>8, <2>1
  <2>4. CountOf(OutcomesIn(bucket))' = CountOf(has)'
    BY <2>2 DEF CountOf
  <2>10. had \in SUBSET (1..Len(told))
    BY <2>3
  <2>5. /\ CountOf(had)' = CountOf(had)
        /\ CountOf(had \cup {n})' =
              [i \in Width |-> CountOf(had)[i] + (IF i = "total" \/ call.outcome = "failed" THEN 1 ELSE 0)]
    BY <1>1, <1>2, <2>10, OneMore
  <2>6. CountOf(had \cup {n})' = [i \in Width |-> CountOf(had)[i] + values[i]]
    BY <1>6, <2>5
  <2>7. has = IF outcome # "none" /\ b = bucket /\ NewestBucket(n)' = bucket THEN had \cup {n} ELSE had
    BY <1>8, <2>1, <2>2
  <2> QED BY <2>1, <2>4, <2>5, <2>6, <2>7
<1>10. DOMAIN ratioCounters.curr = Width /\ Zeros(ratioCounters) = zeros /\ Nothing = zeros
  BY <1>1 DEF Zeros, Nothing, Counts
<1>11. zeros \in Counts
  BY DEF Counts
<1>12. CASE b < start
  <2>1. ratioCounters' = ratioCounters /\ IsOld(ratioCounters, t)
    BY <1>1, <1>3, <1>12 DEF Rotated, Added, IsOld, b
  <2>2. NewestBucket(n)' = start /\ StartIsNewest'
    <3>1. newest = start /\ ratioCounters'.start = newest
      BY <1>0, <1>1, <1>3, <1>12, <2>1
    <3> QED BY <1>7, <3>1 DEF StartIsNewest
  <2>3. \A bucket : CountOf(OutcomesIn(bucket))' = CountOf(OutcomesIn(bucket))
    BY <1>1, <1>9, <1>12, <2>2
  <2>4. WindowCounted'
    BY <1>3, <1>4, <2>1, <2>2, <2>3 DEF WindowCounted
  <2> QED BY <1>1, <1>3, <1>12, <2>1, <2>4 DEF b
<1>13. CASE b = start
  <2>1. /\ ratioCounters'.start = start /\ ratioCounters'.prev = ratioCounters.prev
        /\ ratioCounters' \in [start : Int, curr : Counts, prev : Counts] /\ ~IsOld(ratioCounters, t)
        /\ ratioCounters'.curr = IF outcome = "none" THEN ratioCounters.curr
                                 ELSE [i \in Width |-> ratioCounters.curr[i] + values[i]]
    <3>1. Rotated(ratioCounters, t) = ratioCounters /\ ~IsOld(ratioCounters, t)
      BY <1>1, <1>3, <1>13 DEF Rotated, IsOld, b
    <3>2. CASE outcome = "none"
      BY <1>1, <1>3, <3>1, <3>2
    <3>3. CASE outcome # "none"
      <4>1. ratioCounters' = [ratioCounters EXCEPT !.curr = [i \in Width |-> ratioCounters.curr[i] + values[i]]]
        BY <1>10, <3>1, <3>3 DEF Added
      <4>2. [i \in Width |-> ratioCounters.curr[i] + values[i]] \in Counts
        BY <1>1 DEF Counts
      <4> QED BY <1>1, <1>3, <3>1, <3>3, <4>1, <4>2
    <3> QED BY <3>2, <3>3
  <2>2. NewestBucket(n)' = start /\ StartIsNewest'
    BY <1>0, <1>1, <1>3, <1>7, <1>13, <2>1 DEF StartIsNewest
  <2>3. CountOf(OutcomesIn(start))' = ratioCounters'.curr
    BY <1>4, <1>9, <1>13, <2>1, <2>2
  <2>4. CountOf(OutcomesIn(start - Span))' = ratioCounters'.prev
    <3>1. start - Span # b
      BY <1>1, <1>13
    <3> QED BY <1>4, <1>9, <2>1, <3>1
  <2>5. WindowCounted'
    BY <2>1, <2>2, <2>3, <2>4 DEF WindowCounted
  <2> QED BY <1>1, <1>13, <2>1, <2>5 DEF b
<1>14. CASE b > start
  <2>1. /\ ratioCounters'.start = b
        /\ ratioCounters'.prev = IF b = start + Span THEN ratioCounters.curr ELSE zeros
        /\ ratioCounters' \in [start : Int, curr : Counts, prev : Counts] /\ ~IsOld(ratioCounters, t)
        /\ ratioCounters'.curr = IF outcome = "none" THEN zeros ELSE [i \in Width |-> zeros[i] + values[i]]
    <3> DEFINE before == IF b = start + Span THEN ratioCounters.curr ELSE zeros
               rotated == [start |-> b, curr |-> zeros, prev |-> before]
    <3>1. Rotated(ratioCounters, t) = rotated /\ ~IsOld(ratioCounters, t)
      BY <1>1, <1>3, <1>10, <1>14 DEF Rotated, IsOld, b
    <3>2. before \in Counts
      BY <1>1, <1>11
    <3> HIDE DEF before
    <3>3. CASE outcome = "none"
      BY <1>1, <1>11, <3>1, <3>2, <3>3 DEF before
    <3>4. CASE outcome # "none"
      <4>1. ratioCounters' = [rotated EXCEPT !.curr = [i \in Width |-> zeros[i] + values[i]]]
        BY <3>1, <3>4 DEF Added
      <4>2. [i \in Width |-> zeros[i] + values[i]] \in Counts
        BY DEF Counts
      <4> HIDE DEF zeros
      <4> QED BY <1>1, <3>1, <3>2, <3>4, <4>1, <4>2 DEF before
    <3> QED BY <3>3, <3>4
  <2>2. NewestBucket(n)' = b /\ StartIsNewest'
    <3>1. newest = b /\ ratioCounters'.start = newest
      BY <1>0, <1>1, <1>14, <2>1
    <3> QED BY <1>7, <3>1 DEF StartIsNewest
  <2>3. ASSUME NEW bucket, bucket > start PROVE CountOf(OutcomesIn(bucket)) = zeros
    <3>1. OutcomesIn(bucket) = {}
      <4>1. ASSUME NEW k \in 1..Len(told) PROVE BucketStart(told[k].at) # bucket
        <5>1. told[k].at \in Nat
          BY <1>1, TimeOf
        <5>2. BucketStart(told[k].at) \in Int /\ BucketStart(told[k].at) <= start
          BY <1>3, <1>4, <5>1, BucketsApart DEF StartIsNewest
        <5> QED BY <2>3, <5>2
      <4> QED BY <4>1 DEF OutcomesIn
    <3> QED BY <1>10, <3>1, NoneCounted
  <2>4. CountOf(OutcomesIn(b))' = ratioCounters'.curr
    BY <1>9, <1>14, <2>1, <2>2, <2>3
  <2>5. CountOf(OutcomesIn(b - Span))' = ratioCounters'.prev
    <3>1. b - Span # b
      BY <1>1
    <3>2. CountOf(OutcomesIn(b - Span))' = CountOf(OutcomesIn(b - Span))
      <4>1. PICK before : before = b - Span
        OBVIOUS
      <4>2. CountOf(OutcomesIn(before))' = CountOf(OutcomesIn(before))
        BY <1>9, <3>1, <4>1
      <4> QED BY <4>1, <4>2 DEF b
    <3>3. CASE b = start + Span
      <4>1. b - Span = start
        BY <1>1, <3>3
      <4> QED BY <1>4, <2>1, <3>2, <3>3, <4>1
    <3>4. CASE b # start + Span
      <4>1. PICK k \in 1..Len(told) : start = BucketStart(told[k].at)
        BY <1>3, <1>4 DEF StartIsNewest
      <4>2. told[k].at \in Nat
        BY <1>1, TimeOf
      <4>3. start + Span <= b
        BY <1>1, <1>14, <4>1, <4>2, BucketsApart DEF b
      <4>4. b - Span > start
        BY <1>1, <3>4, <4>3
      <4> QED BY <2>1, <2>3, <3>2, <3>4, <4>4
    <3> QED BY <3>3, <3>4
  <2>6. WindowCounted'
    BY <2>1, <2>2, <2>4, <2>5 DEF WindowCounted, b
  <2> QED BY <1>1, <1>14, <2>1, <2>6 DEF b
<1> QED BY <1>1, <1>12, <1>13, <1>14

LEMMA SomethingTold ==
  ASSUME RatioTypes PROVE told \in Seq(Calls) /\ Len(told) \in 1..Len(told)
<1>1. told \in Seq(Calls) /\ told # <<>>
  BY DEF RatioTypes
<1> QED BY <1>1

\* What the counters say of the window at the time of the last call.
LEMMA WindowIsKnown ==
  ASSUME RatioTypes, WindowCounted, window # 0
  PROVE  LET c == ratioCounters
             last == told[Len(told)].at
         IN  /\ BucketStart(last) <= c.start
             /\ BucketStart(last) < c.start => Known = Nothing
             /\ BucketStart(last) = c.start =>
                  Known = [i \in Width |-> c.curr[i] + Faded(c.prev[i], last)]
<1> DEFINE c == ratioCounters
           last == told[Len(told)].at
           b == BucketStart(last)
<1>1. /\ told \in Seq(Calls) /\ Len(told) \in 1..Len(told)
      /\ c \in [start : Int, curr : Counts, prev : Counts]
  BY SomethingTold DEF RatioTypes
<1>2. b \in Int
  BY <1>1, TimeOf, BucketsApart
<1>3. /\ StartIsNewest
      /\ c.curr = CountOf(OutcomesIn(c.start)) /\ c.prev = CountOf(OutcomesIn(c.start - Span))
  BY DEF WindowCounted
<1>4. b <= c.start
  BY <1>1, <1>3 DEF StartIsNewest
<1>5. NewestBucket(Len(told)) = c.start
  <2>1. PICK buckets : buckets = {BucketStart(told[k].at) : k \in 1..Len(told)}
    OBVIOUS
  <2>2. buckets \subseteq Int
    <3>1. ASSUME NEW k \in 1..Len(told) PROVE BucketStart(told[k].at) \in Int
      BY <1>1, TimeOf, BucketsApart
    <3> QED BY <2>1, <3>1
  <2>3. c.start \in buckets /\ \A x \in buckets : x <= c.start
    BY <1>3, <2>1 DEF StartIsNewest
  <2>4. Max(buckets) = c.start
    BY <2>2, <2>3, GreatestIsMax
  <2> QED BY <2>1, <2>4 DEF NewestBucket
<1>6. ASSUME b < c.start PROVE Known = Nothing
  BY <1>5, <1>6 DEF Known
<1>7. ASSUME b = c.start PROVE Known = [i \in Width |-> c.curr[i] + Faded(c.prev[i], last)]
  <2>1. ~(b < NewestBucket(Len(told)))
    BY <1>2, <1>5, <1>7
  <2>2. Known = [i \in Width |-> CountOf(OutcomesIn(b))[i] +
                   (CountOf(OutcomesIn(b - Span))[i] * (Span - (last - b))) \div Span]
    BY <2>1 DEF Known
  <2> QED BY <1>3, <1>7, <2>2 DEF Faded
<1> QED BY <1>4, <1>6, <1>7

LEMMA KnownIsCount ==
  ASSUME RatioTypes, WindowCounted, AllCounted
  PROVE  Known \in Counts
<1>1. told \in Seq(Calls) /\ Len(told) \in 1..Len(told) /\ cumulative \in Counts
  BY SomethingTold DEF RatioTypes
<1>2. CASE window = 0
  BY <1>1, <1>2 DEF AllCounted, Known
<1>3. CASE window # 0
  <2> DEFINE last == told[Len(told)].at
             left == Span - (last - BucketStart(last))
  <2>1. /\ ratioCounters \in [start : Int, curr : Counts, prev : Counts]
        /\ \A i \in Width : ratioCounters.curr[i] \in Nat /\ ratioCounters.prev[i] \in Nat
    BY DEF RatioTypes, Counts
  <2>2. last \in Nat
    BY <1>1, TimeOf
  <2>3. BucketStart(last) \in Int /\ left \in Nat
    <3>1. PICK t \in Nat : t = last
      BY <2>2
    <3>2. BucketStart(t) \in Int /\ t - BucketStart(t) \in 0..(Span - 1) /\ Span \in Nat
      BY BucketsApart, SpanAssumption
    <3>3. Span - (t - BucketStart(t)) \in Nat
      BY <3>2
    <3> QED BY <3>1, <3>2, <3>3
  <2>4. ASSUME NEW i \in Width PROVE Faded(ratioCounters.prev[i], last) \in Nat
    BY <2>1, <2>3, ShareIsNat DEF Faded
  <2>5. CASE BucketStart(last) = ratioCounters.start
    <3>1. Known = [i \in Width |-> ratioCounters.curr[i] + Faded(ratioCounters.prev[i], last)]
      BY <1>3, <2>5, WindowIsKnown
    <3>2. \A i \in Width : ratioCounters.curr[i] + Faded(ratioCounters.prev[i], last) \in Nat
      BY <2>1, <2>4
    <3> QED BY <3>1, <3>2 DEF Counts
  <2>6. CASE BucketStart(last) < ratioCounters.start
    BY <1>3, <2>6, WindowIsKnown DEF Nothing, Counts
  <2>7. BucketStart(last) <= ratioCounters.start
    BY <1>3, WindowIsKnown
  <2> QED BY <2>1, <2>3, <2>5, <2>6, <2>7
<1> QED BY <1>2, <1>3

LEMMA CountsAreKnown ==
  ASSUME RatioTypes, WindowCounted, AllCounted
  PROVE  RatioCounts(ratioCounters, cumulative, told[Len(told)].at) = Known
<1> DEFINE last == told[Len(told)].at
<1>1. told \in Seq(Calls) /\ Len(told) \in 1..Len(told)
      /\ ratioCounters \in [start : Int, curr : Counts, prev : Counts]
  BY SomethingTold DEF RatioTypes
<1>2. CASE window = 0
  BY <1>2 DEF AllCounted, Known, RatioCounts
<1>3. CASE window # 0
  <2>1. RatioCounts(ratioCounters, cumulative, last) = WindowValue(ratioCounters, last)
    BY <1>3 DEF RatioCounts
  <2>2. /\ BucketStart(last) <= ratioCounters.start
        /\ BucketStart(last) < ratioCounters.start => Known = Nothing
        /\ BucketStart(last) = ratioCounters.start =>
             Known = [i \in Width |-> ratioCounters.curr[i] + Faded(ratioCounters.prev[i], last)]
    BY <1>3, WindowIsKnown
  <2>3. BucketStart(last) \in Int /\ ratioCounters.start \in Int
    BY <1>1, TimeOf, BucketsApart
  <2>4. DOMAIN ratioCounters.curr = Width
    BY <1>1 DEF Counts
  <2> HIDE DEF last
  <2>5. CASE BucketStart(last) < ratioCounters.start
    <3>1. WindowValue(ratioCounters, last) = Zeros(ratioCounters)
      BY <2>5 DEF WindowValue, IsOld
    <3>2. Zeros(ratioCounters) = Nothing
      BY <2>4 DEF Zeros, Nothing
    <3> QED BY <2>1, <2>2, <2>5, <3>1, <3>2 DEF last
  <2>6. CASE BucketStart(last) = ratioCounters.start
    <3>1. ~IsOld(ratioCounters, last) /\ Rotated(ratioCounters, last) = ratioCounters
      BY <2>3, <2>6 DEF IsOld, Rotated
    <3>2. WindowValue(ratioCounters, last) =
            [i \in Width |-> ratioCounters.curr[i] + Faded(ratioCounters.prev[i], last)]
      BY <2>4, <3>1 DEF WindowValue
    <3> QED BY <2>1, <2>2, <2>6, <3>2 DEF last
  <2> QED BY <2>2, <2>3, <2>5, <2>6 DEF last
<1> QED BY <1>2, <1>3

LEMMA RatioStart == RatioInit => RatioInv
<1> SUFFICES ASSUME RatioInit PROVE RatioInv
  OBVIOUS
<1>1. PICK t \in RatioTimes : /\ ratioCounters = NewCounters(t, Width)
                              /\ told = <<[at |-> t, outcome |-> "none"]>>
  BY DEF RatioInit
<1>2. /\ window \in {0, Span} /\ policy \in {"ratio", "all failed"} /\ cumulative = Nothing
      /\ ratioState = [status |-> "pass", counts |-> Nothing]
  BY DEF RatioInit
<1>3. Nothing \in Counts /\ t \in Nat
  BY RatioAssumption DEF Nothing, Counts
<1>4. /\ ratioCounters.start = BucketStart(t) /\ ratioCounters.curr = Nothing
      /\ ratioCounters.prev = Nothing
      /\ ratioCounters = [start |-> BucketStart(t), curr |-> Nothing, prev |-> Nothing]
  BY <1>1 DEF NewCounters, Nothing
<1>5. BucketStart(t) \in Int
  BY <1>3, BucketsApart
<1>6. Len(told) = 1 /\ told[1].at = t /\ told[1].outcome = "none"
  BY <1>1
<1>7. told \in Seq(Calls)
  <2>1. [at |-> t, outcome |-> "none"] \in Calls
    BY DEF Calls
  <2> QED BY <1>1, <2>1
<1>8. RatioTypes
  BY <1>1, <1>2, <1>3, <1>4, <1>5, <1>7 DEF RatioTypes
<1>9. \A bucket : OutcomesIn(bucket) = {}
  BY <1>6 DEF OutcomesIn
<1>10. StartIsNewest
  BY <1>4, <1>5, <1>6 DEF StartIsNewest
<1>11. WindowCounted
  BY <1>4, <1>9, <1>10, NoneCounted DEF WindowCounted
<1>12. {k \in 1..Len(told) : told[k].outcome # "none"} = {}
  BY <1>6
<1>13. AllCounted
  BY <1>2, <1>12, NoneCounted DEF AllCounted
<1>14. Known = Nothing
  <2>1. CASE window = 0
    BY <1>2, <1>13, <2>1 DEF AllCounted, Known
  <2>2. CASE window # 0
    <3>1. Known = [i \in Width |-> ratioCounters.curr[i] + Faded(ratioCounters.prev[i], t)]
      BY <1>4, <1>6, <1>8, <1>11, <2>2, WindowIsKnown
    <3>2. Span - (t - BucketStart(t)) \in Nat
      BY <1>3, BucketsApart, SpanAssumption
    <3>3. Faded(0, t) = 0
      BY <3>2, ShareIsNat DEF Faded
    <3>4. ASSUME NEW i \in Width PROVE ratioCounters.curr[i] + Faded(ratioCounters.prev[i], t) = 0
      BY <1>4, <3>3 DEF Nothing
    <3> QED BY <3>1, <3>4 DEF Nothing
  <2> QED BY <2>1, <2>2
<1>15. JudgedByPolicy
  BY <1>2, <1>8, <1>11, <1>13, <1>14, CountsAreKnown DEF JudgedByPolicy
<1> QED BY <1>8, <1>11, <1>13, <1>15 DEF RatioInv

LEMMA RatioAppends ==
  ASSUME RatioTypes, NEW t \in RatioTimes, NEW outcome \in {"none", "passed", "failed"},
         told' = Append(told, [at |-> t, outcome |-> outcome])
  PROVE  /\ told' \in Seq(Calls) /\ told' # <<>> /\ Len(told') = Len(told) + 1
         /\ told'[Len(told')].at = t
<1>1. [at |-> t, outcome |-> outcome] \in Calls /\ told \in Seq(Calls)
  BY DEF Calls, RatioTypes
<1> QED BY <1>1

\* Without a window every outcome is counted.
LEMMA AllStayCounted ==
  ASSUME RatioTypes, AllCounted, window = 0, NEW t \in RatioTimes,
         NEW outcome \in {"none", "passed", "failed"},
         told' = Append(told, [at |-> t, outcome |-> outcome]), window' = window,
         cumulative' = IF outcome = "none" THEN cumulative
                       ELSE [i \in Width |-> cumulative[i] +
                              (IF i = "total" \/ outcome = "failed" THEN 1 ELSE 0)]
  PROVE  cumulative' \in Counts /\ AllCounted'
<1> DEFINE call == [at |-> t, outcome |-> outcome]
<1>1. call \in Calls /\ told \in Seq(Calls) /\ cumulative \in Counts /\ Len(told) \in Nat
  <2>1. call \in Calls
    BY DEF Calls
  <2>2. told \in Seq(Calls) /\ cumulative \in Counts
    BY DEF RatioTypes
  <2> QED BY <2>1, <2>2
<1>2. PICK n : n = Len(told) + 1
  OBVIOUS
<1>3. PICK had : had = {k \in 1..Len(told) : told[k].outcome # "none"}
  OBVIOUS
<1>4. cumulative = CountOf(had) /\ had \in SUBSET (1..Len(told))
  BY <1>3 DEF AllCounted
<1>5. /\ CountOf(had)' = CountOf(had)
      /\ CountOf(had \cup {n})' =
           [i \in Width |-> CountOf(had)[i] + (IF i = "total" \/ call.outcome = "failed" THEN 1 ELSE 0)]
  BY <1>1, <1>2, <1>4, OneMore
<1>6. /\ Len(told') = n /\ told'[n] = call
      /\ \A k \in 1..Len(told) : told'[k] = told[k] /\ k \in 1..n
      /\ \A k \in 1..n : k \in 1..Len(told) \/ k = n
      /\ n \in 1..n
  BY <1>1, <1>2
<1>7. {k \in 1..Len(told') : told'[k].outcome # "none"} = IF outcome = "none" THEN had ELSE had \cup {n}
  <2>1. told'[n].outcome = outcome
    BY <1>6
  <2>2. \A k \in 1..n : told'[k].outcome # "none" <=> k \in had \/ (k = n /\ outcome # "none")
    BY <1>1, <1>2, <1>3, <1>6, <2>1
  <2>3. had \subseteq 1..n
    BY <1>4, <1>6
  <2> QED BY <1>6, <2>2, <2>3
<1>8. PICK has : has = {k \in 1..Len(told') : told'[k].outcome # "none"}
  OBVIOUS
<1>9. cumulative' = CountOf(has)'
  <2>1. CASE outcome = "none"
    BY <1>4, <1>5, <1>7, <1>8, <2>1
  <2>2. CASE outcome # "none"
    BY <1>4, <1>5, <1>7, <1>8, <2>2
  <2> QED BY <2>1, <2>2
<1>10. AllCounted'
  BY <1>8, <1>9 DEF AllCounted, CountOf
<1>11. cumulative' \in Counts
  <2>1. \A i \in Width : cumulative[i] \in Nat
    BY <1>1 DEF Counts
  <2> QED BY <1>1, <2>1 DEF Counts
<1> QED BY <1>10, <1>11

\* Reading a window turns its buckets, which changes nothing of what is read.
LEMMA TurnedTwice ==
  ASSUME NEW c \in [start : Int, curr : Counts, prev : Counts], NEW t \in RatioTimes
  PROVE  WindowValue(c, t) = WindowValue(Rotated(c, t), t)
<1>1. BucketStart(t) \in Int /\ c.start \in Int
  BY RatioAssumption, BucketsApart
<1>2. CASE BucketStart(t) <= c.start
  BY <1>2 DEF Rotated
<1>3. CASE ~(BucketStart(t) <= c.start)
  <2>1. Rotated(c, t).start = BucketStart(t)
    BY <1>3 DEF Rotated
  <2>2. Rotated(Rotated(c, t), t) = Rotated(c, t) /\ ~IsOld(Rotated(c, t), t) /\ ~IsOld(c, t)
    BY <1>1, <1>3, <2>1 DEF Rotated, IsOld
  <2> QED BY <2>2 DEF WindowValue
<1> QED BY <1>2, <1>3

\* A call sets the state by the counters as it leaves them.
LEMMA CallJudges ==
  ASSUME RatioInv, NEW t \in RatioTimes, NEW outcome \in {"none", "passed", "failed"},
         IF outcome = "none" THEN RatioSnapshot(t) ELSE Record(t, outcome)
  PROVE  RatioInv'
<1> DEFINE values == [i \in Width |-> IF i = "total" \/ outcome = "failed" THEN 1 ELSE 0]
           call == [at |-> t, outcome |-> outcome]
           c == IF outcome = "none" THEN ratioCounters ELSE ratioCounters'
<1>1. /\ told' = Append(told, call) /\ window' = window /\ policy' = policy
      /\ cumulative' = IF outcome = "none" \/ window # 0 THEN cumulative
                       ELSE [i \in Width |-> cumulative[i] + values[i]]
      /\ ratioCounters' = IF window = 0 THEN ratioCounters
                          ELSE IF outcome = "none" THEN Rotated(ratioCounters, t)
                          ELSE Added(ratioCounters, t, values)
      /\ ratioState' = Judged(c, cumulative', t)
  <2>1. CASE outcome = "none"
    BY <2>1 DEF RatioSnapshot, Tell
  <2>2. CASE outcome # "none"
    BY <2>2 DEF Record, Tell
  <2> QED BY <2>1, <2>2
<1>2. RatioTypes /\ WindowCounted /\ AllCounted
  BY DEF RatioInv
<1>3. /\ told' \in Seq(Calls) /\ told' # <<>> /\ told'[Len(told')].at = t
      /\ ratioCounters \in [start : Int, curr : Counts, prev : Counts] /\ cumulative \in Counts
  BY <1>1, <1>2, RatioAppends DEF RatioTypes
<1>4. RatioTypes' /\ WindowCounted' /\ AllCounted'
  <2>1. CASE window = 0
    <3>1. cumulative' = IF outcome = "none" THEN cumulative
                        ELSE [i \in Width |-> cumulative[i] +
                               (IF i = "total" \/ outcome = "failed" THEN 1 ELSE 0)]
      BY <1>1, <2>1
    <3>2. cumulative' \in Counts /\ AllCounted'
      BY <1>1, <1>2, <2>1, <3>1, AllStayCounted
    <3>3. RatioTypes'
      BY <1>1, <1>2, <1>3, <2>1, <3>2 DEF RatioTypes
    <3> QED BY <1>1, <2>1, <3>2, <3>3 DEF WindowCounted
  <2>2. CASE window # 0
    <3>1. PICK vs : vs = [i \in Width |-> IF i = "total" \/ outcome = "failed" THEN 1 ELSE 0]
      OBVIOUS
    <3>2. ratioCounters' = IF outcome = "none" THEN Rotated(ratioCounters, t)
                           ELSE Added(ratioCounters, t, vs)
      BY <1>1, <2>2, <3>1
    <3>3. ratioCounters' \in [start : Int, curr : Counts, prev : Counts] /\ WindowCounted'
      BY <1>1, <1>2, <2>2, <3>1, <3>2, BucketTurns
    <3> QED BY <1>1, <1>2, <1>3, <2>2, <3>3 DEF RatioTypes, AllCounted
  <2> QED BY <2>1, <2>2
<1>5. RatioCounts(c, cumulative', t) = RatioCounts(ratioCounters, cumulative, told[Len(told)].at)'
  <2>1. CASE window = 0
    BY <1>1, <2>1 DEF RatioCounts
  <2>2. CASE window # 0
    <3>1. CASE outcome = "none"
      <4>1. ratioCounters' = Rotated(ratioCounters, t)
        BY <1>1, <2>2, <3>1
      <4>2. WindowValue(ratioCounters, t) = WindowValue(ratioCounters', t)
        BY <1>3, <4>1, TurnedTwice
      <4> QED BY <1>1, <1>3, <2>2, <3>1, <4>2 DEF RatioCounts
    <3>2. CASE outcome # "none"
      BY <1>1, <1>3, <3>2 DEF RatioCounts
    <3> QED BY <3>1, <3>2
  <2> QED BY <2>1, <2>2
<1>6. JudgedByPolicy'
  <2>1. PICK found : found = RatioCounts(c, cumulative', t)
    OBVIOUS
  <2>2. ratioState'.counts = found /\ ratioState'.status = Evaluate(found)
    BY <1>1, <2>1 DEF Judged
  <2>3. Evaluate(found)' = Evaluate(found)
    BY <1>1 DEF Evaluate
  <2>4. found = RatioCounts(ratioCounters, cumulative, told[Len(told)].at)'
    BY <1>5, <2>1
  <2>5. Evaluate(RatioCounts(ratioCounters, cumulative, told[Len(told)].at))' = Evaluate(found)
    BY <2>3, <2>4 DEF Evaluate
  <2> QED BY <2>2, <2>4, <2>5 DEF JudgedByPolicy
<1> QED BY <1>4, <1>6 DEF RatioInv

LEMMA RatioStep == RatioInv /\ [RatioNext]_ratioVars => RatioInv'
<1> SUFFICES ASSUME RatioInv, [RatioNext]_ratioVars PROVE RatioInv'
  OBVIOUS
<1>1. ASSUME NEW t \in RatioTimes, RatioSnapshot(t) PROVE RatioInv'
  BY <1>1, CallJudges
<1>2. ASSUME NEW t \in RatioTimes, NEW outcome \in {"passed", "failed"}, Record(t, outcome)
      PROVE  RatioInv'
  BY <1>2, CallJudges
<1>3. CASE UNCHANGED ratioVars
  <2>1. \A bucket : OutcomesIn(bucket)' = OutcomesIn(bucket)
    BY <1>3 DEF ratioVars, OutcomesIn, NewestBucket
  <2>2. \A outcomes : CountOf(outcomes)' = CountOf(outcomes)
    BY <1>3 DEF ratioVars, CountOf
  <2>3. RatioTypes' /\ AllCounted'
    BY <1>3, <2>2 DEF ratioVars, RatioInv, RatioTypes, AllCounted
  <2>4. WindowCounted'
    BY <1>3, <2>1, <2>2 DEF ratioVars, RatioInv, WindowCounted, StartIsNewest
  <2>5. JudgedByPolicy'
    BY <1>3 DEF ratioVars, RatioInv, JudgedByPolicy, RatioCounts, Evaluate, AllFailed, ByRatio
  <2> QED BY <2>3, <2>4, <2>5 DEF RatioInv
<1> QED BY <1>1, <1>2, <1>3 DEF RatioNext

-----------------------------------------------------------------------------
(* Why the state of a FailRatio is bad.                                     *)

\* A policy finds bad only what has the samples, and failures among them.
LEMMA PolicyHasReason ==
  ASSUME NEW found \in Counts, Evaluate(found) # "pass"
  PROVE  /\ found["total"] >= MinSamples /\ found["failures"] > 0
         /\ policy = "all failed" =>
              Evaluate(found) = "fail" /\ found["failures"] = found["total"]
         /\ policy # "all failed" =>
              /\ Evaluate(found) = "down" => 100 * found["failures"] >= DownShare * found["total"]
              /\ Evaluate(found) = "warn" /\ FailShare > 0 =>
                   100 * found["failures"] < FailShare * found["total"]
<1>1. /\ found["total"] \in Nat /\ found["failures"] \in Nat /\ MinSamples \in Nat \ {0}
      /\ WarnShare \in Nat /\ FailShare \in Nat /\ DownShare \in Nat
  BY RatioAssumption DEF Counts, Width
<1>2. CASE policy = "all failed"
  <2>1. Evaluate(found) = AllFailed(found)
    BY <1>2 DEF Evaluate
  <2>2. found["total"] >= MinSamples /\ found["failures"] = found["total"] /\ Evaluate(found) = "fail"
    BY <2>1 DEF AllFailed
  <2>3. found["failures"] > 0
    BY <1>1, <2>2
  <2> QED BY <1>2, <2>2, <2>3
<1>3. CASE policy # "all failed"
  <2>1. Evaluate(found) = ByRatio(found)
    BY <1>3 DEF Evaluate
  <2>2. found["total"] >= MinSamples
    BY <2>1 DEF ByRatio
  <2>3. \/ Reaches(found, DownShare) \/ Reaches(found, FailShare) \/ Reaches(found, WarnShare)
    BY <2>1, <2>2 DEF ByRatio
  <2>4. ASSUME NEW percent \in Nat, Reaches(found, percent) PROVE found["failures"] > 0
    <3>1. percent >= 1 /\ found["total"] >= 1
      BY <1>1, <2>2, <2>4 DEF Reaches
    <3>2. percent * found["total"] >= 1
      BY <1>1, <3>1
    <3>3. 100 * found["failures"] >= percent * found["total"]
      BY <2>4 DEF Reaches
    <3> QED BY <1>1, <3>2, <3>3
  <2>5. found["failures"] > 0
    BY <1>1, <2>3, <2>4
  <2>6. Evaluate(found) = "down" => Reaches(found, DownShare)
    BY <2>1, <2>2 DEF ByRatio
  <2>7. Evaluate(found) = "warn" => ~Reaches(found, FailShare)
    BY <2>1, <2>2 DEF ByRatio
  <2>8. DownShare * found["total"] \in Int /\ FailShare * found["total"] \in Int
    BY <1>1
  <2>9. Evaluate(found) = "down" => 100 * found["failures"] >= DownShare * found["total"]
    BY <2>6 DEF Reaches
  <2>10. Evaluate(found) = "warn" /\ FailShare > 0 =>
           100 * found["failures"] < FailShare * found["total"]
    BY <1>1, <2>7, <2>8 DEF Reaches
  <2> QED BY <1>3, <2>2, <2>5, <2>9, <2>10
<1> QED BY <1>2, <1>3

\* Failures that are counted were told within two windows.
LEMMA FailureTold ==
  ASSUME RatioTypes, WindowCounted, window # 0, Known["failures"] > 0
  PROVE  \E k \in 1..Len(told) :
           told[k].outcome = "failed" /\ told[Len(told)].at - told[k].at < 2 * Span
<1> DEFINE last == told[Len(told)].at
           b == BucketStart(last)
<1>1. told \in Seq(Calls) /\ Len(told) \in 1..Len(told) /\ last \in Nat
  BY SomethingTold, TimeOf
<1>2. b \in Int /\ last - b \in 0..(Span - 1) /\ Span \in Nat \ {0}
  BY <1>1, BucketsApart, SpanAssumption
<1>3. /\ BucketStart(last) <= ratioCounters.start
      /\ BucketStart(last) < ratioCounters.start => Known = Nothing
      /\ BucketStart(last) = ratioCounters.start =>
           Known = [i \in Width |-> ratioCounters.curr[i] + Faded(ratioCounters.prev[i], last)]
  BY WindowIsKnown
<1>4. /\ ratioCounters.start \in Int
      /\ ratioCounters.curr["failures"] \in Nat /\ ratioCounters.prev["failures"] \in Nat
      /\ ratioCounters.curr = CountOf(OutcomesIn(ratioCounters.start))
      /\ ratioCounters.prev = CountOf(OutcomesIn(ratioCounters.start - Span))
  BY DEF RatioTypes, Counts, Width, WindowCounted
<1>5. b = ratioCounters.start
  <2>1. Nothing["failures"] = 0
    BY DEF Nothing, Width
  <2> HIDE DEF last
  <2> QED BY <1>2, <1>3, <1>4, <2>1
<1>6. Known["failures"] = ratioCounters.curr["failures"] + Faded(ratioCounters.prev["failures"], last)
  BY <1>3, <1>5 DEF Width
<1>7. ratioCounters.curr["failures"] > 0 \/ ratioCounters.prev["failures"] > 0
  <2> SUFFICES ASSUME ratioCounters.curr["failures"] = 0, ratioCounters.prev["failures"] = 0
               PROVE  FALSE
    BY <1>4
  <2>1. Faded(0, last) = 0
    <3>1. Span - (last - b) \in Nat
      BY <1>1, <1>2
    <3> QED BY <3>1, ShareIsNat DEF Faded
  <2> QED BY <1>6, <2>1
<1> HIDE DEF last, b
<1>8. ASSUME NEW bucket \in {b, b - Span}, CountOf(OutcomesIn(bucket))["failures"] > 0
      PROVE  \E k \in 1..Len(told) : told[k].outcome = "failed" /\ last - told[k].at < 2 * Span
  <2>1. OutcomesIn(bucket) \in SUBSET (1..Len(told))
    BY DEF OutcomesIn
  <2>2. Counting(OutcomesIn(bucket), "failures") # {}
    BY <1>1, <1>8, <2>1, CountsOf, FS_EmptySet DEF Width
  <2>3. PICK k \in OutcomesIn(bucket) : told[k].outcome = "failed"
    BY <2>2 DEF Counting
  <2>4. k \in 1..Len(told) /\ BucketStart(told[k].at) = bucket
    BY DEF OutcomesIn
  <2>5. told[k].at \in Nat /\ told[k].at - BucketStart(told[k].at) \in 0..(Span - 1)
    BY <1>1, <2>4, TimeOf, BucketsApart
  <2>6. last - told[k].at < 2 * Span
    BY <1>1, <1>2, <1>8, <2>4, <2>5
  <2> QED BY <2>3, <2>4, <2>6
<1> QED BY <1>4, <1>5, <1>7, <1>8 DEF last

LEMMA RatioAnswers == ASSUME RatioInv PROVE RatioIsExact /\ BadForAReason
<1>1. RatioTypes /\ WindowCounted /\ AllCounted
  BY DEF RatioInv
<1>2. ratioState.counts = Known /\ ratioState.status \in {"pass", Evaluate(Known)}
  BY <1>1, CountsAreKnown DEF RatioInv, JudgedByPolicy
<1>3. Known \in Counts
  BY <1>1, KnownIsCount
<1>4. BadForAReason
  <2> SUFFICES ASSUME ratioState.status # "pass" PROVE BadForAReason
    BY DEF BadForAReason
  <2>1. Evaluate(Known) # "pass" /\ ratioState.status = Evaluate(Known)
    BY <1>2
  <2>2. /\ Known["total"] >= MinSamples /\ Known["failures"] > 0
        /\ policy = "all failed" =>
             Evaluate(Known) = "fail" /\ Known["failures"] = Known["total"]
        /\ policy # "all failed" =>
             /\ Evaluate(Known) = "down" => 100 * Known["failures"] >= DownShare * Known["total"]
             /\ Evaluate(Known) = "warn" /\ FailShare > 0 =>
                  100 * Known["failures"] < FailShare * Known["total"]
    BY <1>3, <2>1, PolicyHasReason
  <2>3. window # 0 => \E k \in 1..Len(told) :
          told[k].outcome = "failed" /\ told[Len(told)].at - told[k].at < 2 * Span
    BY <1>1, <2>2, FailureTold
  <2> QED BY <2>1, <2>2, <2>3 DEF BadForAReason
<1> QED BY <1>2, <1>4 DEF RatioIsExact

\* The counts that a call judges are numbers.
LEMMA RatioStateTyped == RatioInv => ratioState.counts \in [Width -> Nat] /\ ratioState.status \in {"pass", "warn", "fail", "down"}
<1> SUFFICES ASSUME RatioInv
             PROVE  ratioState.counts \in [Width -> Nat] /\ ratioState.status \in {"pass", "warn", "fail", "down"}
  OBVIOUS
<1>1. RatioTypes /\ WindowCounted /\ AllCounted
  BY DEF RatioInv
<1>2. ratioState.counts = Known /\ ratioState.status \in {"pass", Evaluate(Known)}
  BY <1>1, CountsAreKnown DEF RatioInv, JudgedByPolicy
<1>3. Known \in [Width -> Nat]
  BY <1>1, KnownIsCount DEF Counts
<1>4. Evaluate(Known) \in {"pass", "warn", "fail", "down"}
  BY Zenon DEF Evaluate, AllFailed, ByRatio
<1> QED BY <1>2, <1>3, <1>4

\* A state is made anew of its status and its counts.
RatioStateRecord == ratioState = [status |-> ratioState.status, counts |-> ratioState.counts]

LEMMA RatioIsTyped == RatioSpec => []RatioTypeOK
<1>1. RatioInit => RatioStateRecord
  BY Zenon DEF RatioInit, RatioStateRecord
<1>2. RatioStateRecord /\ [RatioNext]_ratioVars => RatioStateRecord'
  <2>1. ASSUME NEW c, NEW sum, NEW t, ratioState' = Judged(c, sum, t) PROVE RatioStateRecord'
    BY <2>1 DEF Judged, RatioStateRecord
  <2> QED BY <2>1 DEF RatioNext, Record, RatioSnapshot, ratioVars, RatioStateRecord
<1>3. RatioInv /\ RatioStateRecord => RatioTypeOK
  <2> SUFFICES ASSUME RatioInv, RatioStateRecord PROVE RatioTypeOK
    OBVIOUS
  <2>1. ratioState.counts \in [Width -> Nat] /\ ratioState.status \in {"pass", "warn", "fail", "down"}
    BY RatioStateTyped
  <2>2. ratioState \in [status : {"pass", "warn", "fail", "down"}, counts : [Width -> Nat]]
    BY <2>1 DEF RatioStateRecord
  <2> QED BY <2>2, Zenon DEF RatioTypeOK, RatioInv, RatioTypes
<1> QED BY <1>1, <1>2, <1>3, RatioStart, RatioStep, PTL DEF RatioSpec

\* FailRatio.RatioIsRight: for any clock, even one that steps back, any window, any
\* thresholds and any calls, the counts are exactly those of the outcomes told in the
\* window, and a bad state has its reason in them (state_failratio.go:69,168).
THEOREM RatioAlwaysRight == RatioSpec => []RatioIsRight
<1>1. RatioInv => RatioIsExact /\ BadForAReason
  BY RatioAnswers
<1> QED BY RatioStart, RatioStep, RatioIsTyped, <1>1, PTL DEF RatioSpec, RatioIsRight

-----------------------------------------------------------------------------
(* The document of ProgramStates.                                           *)

\* The running sums of f that MapThenSumSet makes on its way.
SumsOver(f, D, w) ==
  w = [s \in SUBSET D |-> IF s = {} THEN 0
                          ELSE LET x == CHOOSE x \in s : TRUE IN f[x] + w[s \ {x}]]

\* There is only one way to sum: a smallest set on which two differ cannot be.
LEMMA SumsAreOne ==
  ASSUME NEW f, NEW D, IsFiniteSet(D), NEW v, SumsOver(f, D, v), NEW w, SumsOver(f, D, w)
  PROVE  v = w
<1> DEFINE T == {s \in SUBSET D : v[s] # w[s]}
<1>1. T \subseteq FiniteSubsetsOf(D)
  BY FS_Subset DEF FiniteSubsetsOf
<1>2. T = {}
  <2> SUFFICES ASSUME T # {} PROVE FALSE
    OBVIOUS
  <2>1. IsWellFoundedOn(StrictSubsetOrdering(D), FiniteSubsetsOf(D))
    BY FS_StrictSubsetOrderingWellFounded
  <2> HIDE DEF T
  <2>2. PICK s \in T : \A r \in T : ~ (<<r, s>> \in StrictSubsetOrdering(D))
    BY <1>1, <2>1, WFMin
  <2> USE DEF T
  <2> DEFINE x == CHOOSE x \in s : TRUE
  <2>3. s # {}
    BY DEF SumsOver
  <2>4. x \in s /\ s \ {x} \in SUBSET D /\ s \ {x} # s /\ s \ {x} \subseteq s
    BY <2>3
  <2>5. v[s] = f[x] + v[s \ {x}] /\ w[s] = f[x] + w[s \ {x}]
    BY <2>3, Zenon DEF SumsOver
  <2>6. v[s \ {x}] = w[s \ {x}]
    BY <2>2, <2>4 DEF StrictSubsetOrdering
  <2> QED BY <2>5, <2>6
<1>3. v = [s \in SUBSET D |-> v[s]] /\ w = [s \in SUBSET D |-> w[s]]
  BY Zenon DEF SumsOver
<1> QED BY <1>2, <1>3

\* Whatever sums f over the subsets of a finite set is what MapThenSumSet returns.
LEMMA SumIs ==
  ASSUME NEW f, NEW D, IsFiniteSet(D), NEW w, SumsOver(f, D, w)
  PROVE  MapThenSumSet(LAMBDA x : f[x], D) = w[D]
<1> DEFINE c == CHOOSE iter : iter = [s \in SUBSET D |-> IF s = {} THEN 0 ELSE LET x == CHOOSE x \in s : TRUE IN f[x] + iter[s \ {x}]]
<1>1. MapThenSumSet(LAMBDA x : f[x], D) = c[D]
  BY DEF MapThenSumSet, MapThenFoldSet
<1>2. SumsOver(f, D, c)
  BY Zenon DEF SumsOver
<1> HIDE DEF c
<1>3. c = w
  BY <1>2, SumsAreOne
<1> QED BY <1>1, <1>3

\* The counts of a document's statuses.
CountedAs(doc, st) == Cardinality({i \in DOMAIN doc : doc[i].status = st})

CountsIn(doc) == [st \in {st \in Status : CountedAs(doc, st) > 0} |-> CountedAs(doc, st)]

LEMMA StatusNumbers == Status = 0..3 /\ IsFiniteSet(Status)
<1>1. Status = 0..3
  BY DEF Status, Pass, Warn, Fail, Down
<1>2. IsFiniteSet(0..3)
  <2>1. PICK n \in Int : n = 3
    OBVIOUS
  <2>2. IsFiniteSet(0..n)
    BY FS_Interval
  <2> QED BY <2>1, <2>2, Zenon
<1> QED BY <1>1, <1>2

\* The counts of the statuses of a document add up to its length.
LEMMA CountsAddUp ==
  ASSUME NEW doc, NEW n \in Nat, DOMAIN doc = 1..n, \A i \in DOMAIN doc : doc[i].status \in Status
  PROVE  MapThenSumSet(LAMBDA st : CountsIn(doc)[st], DOMAIN CountsIn(doc)) = n
<1> DEFINE f == CountsIn(doc)
           D == {st \in Status : CountedAs(doc, st) > 0}
           At(s) == {i \in DOMAIN doc : doc[i].status \in s}
           w == [s \in SUBSET D |-> Cardinality(At(s))]
<1>1. D = DOMAIN f /\ IsFiniteSet(D) /\ \A st \in D : f[st] = CountedAs(doc, st)
  BY FS_Subset, StatusNumbers DEF CountsIn
<1>2. IsFiniteSet(DOMAIN doc) /\ Cardinality(DOMAIN doc) = n
  BY FS_Interval
<1>3. \A s : IsFiniteSet(At(s)) /\ Cardinality(At(s)) \in Nat
  BY <1>2, FS_Subset, FS_CardinalityType
<1> HIDE DEF f, D
<1>4. SumsOver(f, D, w)
  <2>1. ASSUME NEW s \in SUBSET D
        PROVE  w[s] = IF s = {} THEN 0 ELSE LET x == CHOOSE x \in s : TRUE IN f[x] + w[s \ {x}]
    <3>1. CASE s = {}
      <4>1. At(s) = {}
        BY <3>1
      <4> QED BY <3>1, <4>1, FS_EmptySet
    <3>2. CASE s # {}
      <4> DEFINE x == CHOOSE x \in s : TRUE
      <4>1. x \in s /\ x \in D /\ s \ {x} \in SUBSET D
        BY <3>2
      <4> HIDE DEF x
      <4>2. At(s) = At({x}) \cup At(s \ {x}) /\ At({x}) \cap At(s \ {x}) = {}
        BY <4>1
      <4>3. Cardinality(At(s)) = Cardinality(At({x})) + Cardinality(At(s \ {x}))
        <5> DEFINE a == At({x})
                   b == At(s \ {x})
        <5>1. IsFiniteSet(a) /\ IsFiniteSet(b) /\ a \cap b = {}
          BY <1>3, <4>2
        <5>2. Cardinality(a) \in Nat /\ Cardinality(b) \in Nat
          BY <1>3
        <5>3. At(s) = a \cup b
          BY <4>2
        <5> HIDE DEF a, b
        <5>4. Cardinality(a \cup b) = Cardinality(a) + Cardinality(b) - Cardinality(a \cap b)
          BY <5>1, FS_Union
        <5>5. Cardinality(a \cup b) = Cardinality(a) + Cardinality(b)
          <6>1. Cardinality(a \cap b) = 0
            BY <5>1, FS_EmptySet
          <6> QED BY <5>2, <5>4, <6>1
        <5>6. Cardinality(At(s)) = Cardinality(a) + Cardinality(b)
          BY <5>3, <5>5
        <5> QED BY <5>6 DEF a, b
      <4>4. At({x}) = {i \in DOMAIN doc : doc[i].status = x}
        OBVIOUS
      <4>5. f[x] = Cardinality(At({x}))
        BY <1>1, <4>1, <4>4 DEF CountedAs
      <4>6. w[s] = f[x] + w[s \ {x}]
        BY <4>1, <4>3, <4>5
      <4> QED BY <3>2, <4>6, Zenon DEF x
    <3> QED BY <3>1, <3>2, Zenon
  <2> QED BY <2>1, Zenon DEF SumsOver
<1>5. MapThenSumSet(LAMBDA st : f[st], D) = w[D]
  <2> HIDE DEF w
  <2> QED BY <1>1, <1>4, SumIs
<1>6. At(D) = DOMAIN doc
  <2> SUFFICES ASSUME NEW i \in DOMAIN doc PROVE doc[i].status \in D
    OBVIOUS
  <2>1. i \in {k \in DOMAIN doc : doc[k].status = doc[i].status}
    OBVIOUS
  <2>2. IsFiniteSet({k \in DOMAIN doc : doc[k].status = doc[i].status})
    BY <1>2, FS_Subset
  <2>3. CountedAs(doc, doc[i].status) # 0 /\ CountedAs(doc, doc[i].status) \in Nat
    BY <2>1, <2>2, FS_EmptySet, FS_CardinalityType DEF CountedAs
  <2>4. CountedAs(doc, doc[i].status) > 0
    BY <2>3
  <2> QED BY <2>4 DEF D
<1>7. w[D] = n
  BY <1>2, <1>6
<1>8. MapThenSumSet(LAMBDA st : f[st], DOMAIN f) = n
  BY <1>1, <1>5, <1>7
<1> QED BY <1>8 DEF f

LEMMA LeastOfTwo ==
  ASSUME NEW a \in Status, NEW b \in Status
  PROVE  Min({a, b}) = IF a <= b THEN a ELSE b
<1> USE StatusNumbers
<1> DEFINE m == IF a <= b THEN a ELSE b
<1>1. m \in {a, b} /\ \A y \in {a, b} : m <= y
  OBVIOUS
<1>2. \A x \in {a, b} : (\A y \in {a, b} : x <= y) => x = m
  OBVIOUS
<1> HIDE DEF m
<1>3. Min({a, b}) = m
  BY <1>1, <1>2, Zenon DEF Min
<1> QED BY <1>3 DEF m

\* The worst is one of them, or pass, and none is worse.
LEMMA WorstIs ==
  ASSUME NEW S \in SUBSET Status
  PROVE  /\ Worst(S) \in S \cup {Pass} /\ Worst(S) \in Status
         /\ \A x \in S : x <= Worst(S)
<1> DEFINE U == S \cup {Pass}
<1>1. U \in SUBSET (0..3) /\ U # {}
  BY StatusNumbers DEF Pass
<1>2. \E x \in U : \A y \in U : x >= y
  <2> DEFINE Top(k) == k \in U /\ \A y \in U : k >= y
  <2>1. CASE 3 \in U
    BY <1>1, <2>1
  <2>2. CASE 3 \notin U /\ 2 \in U
    BY <1>1, <2>2
  <2>3. CASE 3 \notin U /\ 2 \notin U /\ 1 \in U
    BY <1>1, <2>3
  <2>4. CASE 3 \notin U /\ 2 \notin U /\ 1 \notin U
    BY <1>1, <2>4
  <2> QED BY <2>1, <2>2, <2>3, <2>4
<1> HIDE DEF U
<1>3. Max(U) \in U /\ \A y \in U : Max(U) >= y
  BY <1>2, Zenon DEF Max
<1>4. Worst(S) = Max(U)
  BY DEF Worst, U
<1> QED BY <1>1, <1>3, <1>4, StatusNumbers DEF U

LEMMA CappedIs ==
  ASSUME NEW s, NEW st \in Status
  PROVE  /\ Capped(s, st) = IF s \in Informational /\ st > Warn THEN Warn ELSE st
         /\ Capped(s, st) \in Status
<1>1. Warn \in Status
  BY DEF Status
<1>2. Min({st, Warn}) = IF st <= Warn THEN st ELSE Warn
  BY <1>1, LeastOfTwo
<1> QED BY <1>1, <1>2, StatusNumbers DEF Capped

LEMMA CurrentIs == ASSUME NEW value PROVE Current(value) \in Status
BY DEF Current, ThresholdStatus, Status

\* The states that may be registered, and what the model keeps of them in sequences.
Members == Leaves \cup Aggregates

Child == [state : Leaves, worst : Status]

Row == [state : Leaves, status : Status, worst : Status]

Finding == [status : Status, set : BOOLEAN]

CallKind ==
  [states : Seq(Members), doc : Seq(Entries), inside : Aggregates \cup {None},
   children : Seq(Child), checks : Seq(Row), found : SUBSET Finding]

\* Every variable holds a value of its kind.
ProgramKinds ==
  /\ status \in [Members \cup {Health} -> Status]
  /\ children \in [Aggregates -> Seq(Child)]
  /\ registered \in Seq(Members)
  /\ setup \in Seq([state : Members, into : Aggregates \cup {Health}, worst : Status])
  /\ extra \subseteq Keys
  /\ calls \in [Readers -> SUBSET CallKind]
  /\ seen \in [Readers -> [Leaves -> SUBSET Status]]
  /\ level = [c \in Checks |-> level[c]]
  /\ answers = [r \in Readers |-> answers[r]]

\* What a call has found is of a check that it is still at, and it is inside of the
\* next of its states.
FoundAt(call) ==
  /\ call.found # {} => NextState(call) \in Checks
  /\ call.inside # None => call.states # <<>>

\* What is in s, the statuses that leaves had.
EntrySeen(entry, s) ==
  /\ entry.state \in Leaves => entry.status \in s[entry.state]
  /\ \A k \in DOMAIN entry.checks : entry.checks[k].status \in s[entry.checks[k].state]

CallSeen(call, s) ==
  /\ \A i \in DOMAIN call.doc : EntrySeen(call.doc[i], s)
  /\ \A k \in DOMAIN call.checks : call.checks[k].status \in s[call.checks[k].state]

\* What a check is at, once a call has set it, until the call has read it back.
SetSeen(call, s) == \A f \in call.found : f.set => status[NextState(call)] \in s[NextState(call)]

\* What any call has found of a check, all who are under way may be told.
FindingSeen(call, s) == \A f \in call.found : f.status \in s[NextState(call)]

SeenSoFar ==
  /\ \A r \in Readers : \A call \in calls[r] : FoundAt(call) /\ CallSeen(call, seen[r]) /\ SetSeen(call, seen[r])
  /\ \A r \in Readers : calls[r] # {} =>
       /\ \A s \in Manual : status[s] \in seen[r][s]
       /\ \A c \in Checks : Current(level[c]) \in seen[r][c]
       /\ \A q \in Readers : \A call \in calls[q] : FindingSeen(call, seen[r])

\* An aggregate in a document has the status of its checks there.
EntryAgrees(entry) ==
  entry.state \in Aggregates => entry.status = AggregateStatus(entry.state, entry.checks)

DocAgrees(doc) == doc \in Seq(Entries) /\ \A i \in DOMAIN doc : EntryAgrees(doc[i])

AnswerAgrees(answer) ==
  /\ DocAgrees(answer.doc)
  /\ answer.health = HealthStatus(answer.doc)
  /\ Keys \cap DOMAIN answer.data = {} => answer.data = CountsIn(answer.doc)

DocumentsAgree ==
  /\ \A r \in Readers : \A call \in calls[r] : DocAgrees(call.doc)
  /\ \A r \in Readers : \A answer \in answers[r] : AnswerAgrees(answer)

\* The inductive invariant.
ProgramInv == ProgramKinds /\ SeenSoFar /\ DocumentsAgree

LEMMA CallFields ==
  ASSUME ProgramKinds, NEW r \in Readers, NEW call \in calls[r]
  PROVE  /\ call \in CallKind
         /\ call.states \in Seq(Members) /\ call.doc \in Seq(Entries)
         /\ call.inside \in Aggregates \cup {None}
         /\ call.children \in Seq(Child) /\ call.checks \in Seq(Row)
         /\ call.found \in SUBSET Finding
<1>1. call \in CallKind
  BY DEF ProgramKinds
<1> QED BY <1>1 DEF CallKind

\* A call that is at a leaf, or at an aggregate.
LEMMA NextIs ==
  ASSUME StatesAssumption, ProgramKinds, NEW r \in Readers, NEW call \in calls[r]
  PROVE  /\ NextState(call) \in Leaves /\ call.inside = None =>
              call.states # <<>> /\ NextState(call) = Head(call.states)
         /\ NextState(call) \in Leaves /\ call.inside # None =>
              call.children # <<>> /\ NextState(call) = Head(call.children).state
         /\ NextState(call) \in Aggregates =>
              call.inside = None /\ call.states # <<>> /\ NextState(call) = Head(call.states)
<1>1. None \notin Leaves \cup Aggregates /\ Leaves \cap Aggregates = {}
  BY DEF StatesAssumption
<1>2. call.children # <<>> => Head(call.children).state \in Leaves
  <2>1. call.children # <<>> => Head(call.children) \in Child
    BY CallFields
  <2> QED BY <2>1 DEF Child
<1> QED BY <1>1, <1>2 DEF NextState

\* A call that takes a status it may see stays what it should be.
LEMMA TakesKeep ==
  ASSUME StatesAssumption, ProgramInv, NEW r \in Readers, NEW call \in calls[r],
         NextState(call) \in Leaves, NEW st \in Status
  PROVE  /\ Took(call, st) \in CallKind /\ Took(call, st).found = {} /\ FoundAt(Took(call, st))
         /\ DocAgrees(Took(call, st).doc)
         /\ \A s : CallSeen(call, s) /\ st \in s[NextState(call)] => CallSeen(Took(call, st), s)
<1>1. /\ call \in CallKind
      /\ call.states \in Seq(Members) /\ call.doc \in Seq(Entries)
      /\ call.inside \in Aggregates \cup {None}
      /\ call.children \in Seq(Child) /\ call.checks \in Seq(Row)
  BY CallFields DEF ProgramInv
<1>2. DocAgrees(call.doc) /\ FoundAt(call)
  BY DEF ProgramInv, DocumentsAgree, SeenSoFar
<1>3. NextState(call) \notin Aggregates
  BY DEF StatesAssumption
<1>4. CASE call.inside = None
  <2>1. call.states # <<>> /\ NextState(call) = Head(call.states)
    BY <1>4, NextIs DEF ProgramInv
  <2> DEFINE entry == [state |-> Head(call.states), status |-> st, checks |-> <<>>]
             t == [call EXCEPT !.states = Tail(@), !.found = {}, !.doc = Append(@, entry)]
  <2>2. Took(call, st) = t
    BY <1>4 DEF Took
  <2>3. entry \in Entries
    <3>1. <<>> \in Seq(Row)
      OBVIOUS
    <3> QED BY <2>1, <3>1 DEF Entries, Row
  <2>4. EntryAgrees(entry)
    BY <1>3, <2>1 DEF EntryAgrees
  <2>5. /\ t.states = Tail(call.states) /\ t.found = {} /\ t.doc = Append(call.doc, entry)
        /\ t.inside = call.inside /\ t.children = call.children /\ t.checks = call.checks
    BY <1>1 DEF CallKind
  <2>6. \A s : st \in s[NextState(call)] => EntrySeen(entry, s)
    BY <2>1 DEF EntrySeen
  <2> HIDE DEF entry
  <2>7. /\ t.doc \in Seq(Entries)
        /\ \A i \in DOMAIN t.doc : (i \in DOMAIN call.doc /\ t.doc[i] = call.doc[i]) \/ t.doc[i] = entry
    BY <1>1, <2>3, <2>5
  <2>8. t.states \in Seq(Members)
    BY <1>1, <2>1, <2>5
  <2>9. t \in CallKind
    BY <1>1, <2>7, <2>8 DEF CallKind
  <2> HIDE DEF t
  <2>10. DocAgrees(t.doc)
    BY <1>2, <2>4, <2>7 DEF DocAgrees
  <2>11. \A s : CallSeen(call, s) /\ st \in s[NextState(call)] => CallSeen(t, s)
    BY <2>5, <2>6, <2>7 DEF CallSeen
  <2>12. FoundAt(t)
    BY <1>4, <2>5 DEF FoundAt
  <2> QED BY <2>2, <2>5, <2>9, <2>10, <2>11, <2>12
<1>5. CASE call.inside # None
  <2>1. call.children # <<>> /\ NextState(call) = Head(call.children).state
    BY <1>5, NextIs DEF ProgramInv
  <2> DEFINE row == [state |-> Head(call.children).state, status |-> st,
                     worst |-> Head(call.children).worst]
             t == [call EXCEPT !.children = Tail(@), !.found = {}, !.checks = Append(@, row)]
  <2>2. Took(call, st) = t
    BY <1>5 DEF Took
  <2>3. row \in Row
    <3>1. Head(call.children) \in Child
      BY <1>1, <2>1
    <3> QED BY <3>1 DEF Child, Row
  <2>4. row.state = NextState(call) /\ row.status = st
    BY <2>1
  <2>5. /\ t.states = call.states /\ t.found = {} /\ t.doc = call.doc
        /\ t.inside = call.inside /\ t.children = Tail(call.children)
        /\ t.checks = Append(call.checks, row)
    BY <1>1 DEF CallKind
  <2> HIDE DEF row
  <2>7. /\ t.checks \in Seq(Row)
        /\ \A i \in DOMAIN t.checks :
             (i \in DOMAIN call.checks /\ t.checks[i] = call.checks[i]) \/ t.checks[i] = row
    BY <1>1, <2>3, <2>5
  <2>8. t.children \in Seq(Child)
    BY <1>1, <2>1, <2>5
  <2>9. t \in CallKind
    BY <1>1, <2>7, <2>8 DEF CallKind
  <2> HIDE DEF t
  <2>11. \A s : CallSeen(call, s) /\ st \in s[NextState(call)] => CallSeen(t, s)
    BY <2>4, <2>5, <2>7 DEF CallSeen
  <2>12. FoundAt(t)
    BY <1>2, <2>5 DEF FoundAt
  <2> QED BY <1>2, <2>2, <2>5, <2>9, <2>11, <2>12
<1> QED BY <1>4, <1>5

LEMMA ProgramStart == StatesAssumption /\ ProgramInit => ProgramInv
<1> SUFFICES ASSUME StatesAssumption, ProgramInit PROVE ProgramInv
  OBVIOUS
<1>1. ProgramKinds
  <2>1. Pass \in Status
    BY DEF Status
  <2>2. status \in [Members \cup {Health} -> Status]
    BY <2>1 DEF ProgramInit, Members
  <2>3. setup \in Seq([state : Members, into : Aggregates \cup {Health}, worst : Status])
    BY DEF ProgramInit, StatesAssumption, Members
  <2>4. children \in [Aggregates -> Seq(Child)] /\ registered \in Seq(Members)
    BY DEF ProgramInit
  <2>5. /\ extra \subseteq Keys /\ calls \in [Readers -> SUBSET CallKind]
        /\ seen \in [Readers -> [Leaves -> SUBSET Status]]
        /\ level = [c \in Checks |-> level[c]] /\ answers = [r \in Readers |-> answers[r]]
    BY DEF ProgramInit
  <2> QED BY <2>2, <2>3, <2>4, <2>5 DEF ProgramKinds
<1>2. SeenSoFar /\ DocumentsAgree
  BY DEF SeenSoFar, DocumentsAgree, ProgramInit
<1> QED BY <1>1, <1>2 DEF ProgramInv

\* What happens to the calls and the leaves when reader r goes on.
GoesOn(r, new) ==
  /\ calls[r] # {} /\ Goes(r, new)
  /\ UNCHANGED <<level, setup, children, registered, extra, answers, changes, seen>>
  /\ status' \in [Members \cup {Health} -> Status]
  /\ \A s \in Manual : status'[s] = status[s]
  /\ \A c \in Checks : status'[c] = status[c]
       \/ \A q \in Readers : calls[q] # {} => status'[c] \in seen[q][c]

\* A reader that goes on keeps the invariant if what it makes of its call is right.
LEMMA GoesOnKeeps ==
  ASSUME StatesAssumption, ProgramInv, NEW r \in Readers, NEW new \in CallKind, GoesOn(r, new),
         DocAgrees(new.doc), FoundAt(new), CallSeen(new, seen[r]),
         \A f \in new.found : f.set => status'[NextState(new)] \in seen[r][NextState(new)],
         \A q \in Readers : calls[q] # {} => FindingSeen(new, seen[q])
  PROVE  ProgramInv'
<1> USE DEF GoesOn, Goes
<1>1. calls' \in [Readers -> SUBSET CallKind] /\ calls'[r] = {new}
      /\ \A q \in Readers : q # r => calls'[q] = calls[q]
  BY DEF ProgramInv, ProgramKinds
<1>2. ProgramKinds'
  BY <1>1 DEF ProgramInv, ProgramKinds
<1>3. \A q \in Readers : calls'[q] # {} <=> calls[q] # {}
  BY <1>1
<1>4. SeenSoFar'
  <2>1. ASSUME NEW q \in Readers, NEW call \in calls'[q]
        PROVE  FoundAt(call) /\ CallSeen(call, seen[q]) /\ SetSeen(call, seen[q])'
    <3>1. CASE q = r
      BY <1>1, <3>1 DEF SetSeen
    <3>2. CASE q # r
      <4>1. call \in calls[q]
        BY <1>1, <3>2
      <4>2. FoundAt(call) /\ CallSeen(call, seen[q]) /\ SetSeen(call, seen[q])
        BY <4>1 DEF ProgramInv, SeenSoFar
      <4>3. SetSeen(call, seen[q])'
        BY <4>1, <4>2 DEF SetSeen, FoundAt
      <4> QED BY <4>2, <4>3
    <3> QED BY <3>1, <3>2
  <2>2. ASSUME NEW q \in Readers, calls'[q] # {}
        PROVE  /\ \A s \in Manual : status'[s] \in seen[q][s]
               /\ \A c \in Checks : Current(level[c]) \in seen[q][c]
               /\ \A p \in Readers : \A call \in calls'[p] : FindingSeen(call, seen[q])
    <3>1. calls[q] # {}
      BY <1>3, <2>2
    <3>2. /\ \A s \in Manual : status[s] \in seen[q][s]
          /\ \A c \in Checks : Current(level[c]) \in seen[q][c]
          /\ \A p \in Readers : \A call \in calls[p] : FindingSeen(call, seen[q])
      BY <3>1 DEF ProgramInv, SeenSoFar
    <3>3. ASSUME NEW p \in Readers, NEW call \in calls'[p] PROVE FindingSeen(call, seen[q])
      BY <1>1, <3>1, <3>2, <3>3
    <3> QED BY <3>2, <3>3
  <2> QED BY <2>1, <2>2 DEF SeenSoFar
<1>5. DocumentsAgree'
  BY <1>1 DEF ProgramInv, DocumentsAgree
<1> QED BY <1>2, <1>4, <1>5 DEF ProgramInv

\* A status that a leaf has may be seen by all who are under way.
LEMMA ReadManualKeeps ==
  ASSUME StatesAssumption, ProgramInv, NEW r \in Readers, ReadManual(r)
  PROVE  ProgramInv'
<1>1. PICK call \in calls[r] :
        /\ NextState(call) \in Manual
        /\ Goes(r, Took(call, status[NextState(call)]))
        /\ UNCHANGED <<status, level, setup, children, registered, extra, answers, changes, seen>>
  BY DEF ReadManual
<1>2. PICK new : new = Took(call, status[NextState(call)])
  OBVIOUS
<1>3. NextState(call) \in Leaves /\ status[NextState(call)] \in Status
      /\ status[NextState(call)] \in seen[r][NextState(call)]
      /\ CallSeen(call, seen[r])
      /\ status \in [Members \cup {Health} -> Status]
  BY <1>1 DEF ProgramInv, ProgramKinds, SeenSoFar, Members, Leaves
<1>4. new \in CallKind /\ new.found = {} /\ DocAgrees(new.doc) /\ CallSeen(new, seen[r])
      /\ FoundAt(new)
  BY <1>2, <1>3, TakesKeep
<1>5. GoesOn(r, new)
  BY <1>1, <1>2, <1>3 DEF GoesOn
<1>6. \A s : FindingSeen(new, s)
  BY <1>4 DEF FindingSeen
<1> QED BY <1>4, <1>5, <1>6, GoesOnKeeps

\* Current: what is found, every reader under way may be told.
LEMMA CheckMeasures ==
  ASSUME StatesAssumption, ProgramInv, NEW r \in Readers, Measure(r)
  PROVE  ProgramInv'
<1>1. PICK call \in calls[r] :
        /\ NextState(call) \in Checks /\ call.found = {}
        /\ Goes(r, [call EXCEPT !.found = {[status |-> Current(level[NextState(call)]), set |-> FALSE]}])
        /\ UNCHANGED <<status, level, setup, children, registered, extra, answers, changes, seen>>
  BY DEF Measure
<1>2. PICK st : st = Current(level[NextState(call)])
  OBVIOUS
<1>3. PICK new : new = [call EXCEPT !.found = {[status |-> st, set |-> FALSE]}]
  OBVIOUS
<1>4. /\ call \in CallKind /\ DocAgrees(call.doc) /\ CallSeen(call, seen[r]) /\ FoundAt(call)
      /\ status \in [Members \cup {Health} -> Status]
  BY CallFields DEF ProgramInv, SeenSoFar, DocumentsAgree, ProgramKinds
<1>5. st \in Status
  BY <1>2, CurrentIs
<1>6. new \in CallKind
  <2>1. {[status |-> st, set |-> FALSE]} \in SUBSET Finding
    BY <1>5 DEF Finding
  <2> QED BY <1>3, <1>4, <2>1 DEF CallKind
<1>7. /\ new.found = {[status |-> st, set |-> FALSE]}
      /\ new.states = call.states /\ new.doc = call.doc /\ new.inside = call.inside
      /\ new.children = call.children /\ new.checks = call.checks
  BY <1>3, <1>4 DEF CallKind
<1>8. NextState(new) = NextState(call)
  BY <1>7 DEF NextState
<1>9. DocAgrees(new.doc) /\ CallSeen(new, seen[r]) /\ FoundAt(new)
  BY <1>1, <1>4, <1>7, <1>8 DEF CallSeen, FoundAt
<1>10. ASSUME NEW q \in Readers, calls[q] # {} PROVE FindingSeen(new, seen[q])
  <2>1. st \in seen[q][NextState(call)]
    BY <1>1, <1>2, <1>10 DEF ProgramInv, SeenSoFar
  <2> QED BY <1>7, <1>8, <2>1 DEF FindingSeen
<1>11. GoesOn(r, new)
  BY <1>1, <1>2, <1>3, <1>4 DEF GoesOn
<1>12. \A f \in new.found : f.set => status'[NextState(new)] \in seen[r][NextState(new)]
  BY <1>7
<1> QED BY <1>6, <1>9, <1>10, <1>11, <1>12, GoesOnKeeps

\* The inner state is set, for whoever reads it back, to what somebody found.
LEMMA SetInnerKeeps ==
  ASSUME StatesAssumption, ProgramInv, NEW r \in Readers, SetInner(r)
  PROVE  ProgramInv'
<1>0. PICK call \in calls[r] : \E found \in call.found :
        /\ ~ found.set
        /\ status' = [status EXCEPT ![NextState(call)] = found.status]
        /\ Goes(r, [call EXCEPT !.found = {[found EXCEPT !.set = TRUE]}])
        /\ UNCHANGED <<level, setup, children, registered, extra, answers, changes, seen>>
  BY DEF SetInner
<1>1. PICK found \in call.found :
        /\ ~ found.set
        /\ status' = [status EXCEPT ![NextState(call)] = found.status]
        /\ Goes(r, [call EXCEPT !.found = {[found EXCEPT !.set = TRUE]}])
        /\ UNCHANGED <<level, setup, children, registered, extra, answers, changes, seen>>
  BY <1>0
<1>2. /\ call \in CallKind /\ DocAgrees(call.doc) /\ CallSeen(call, seen[r]) /\ FoundAt(call)
      /\ status \in [Members \cup {Health} -> Status]
  BY CallFields DEF ProgramInv, SeenSoFar, DocumentsAgree, ProgramKinds
<1>3. found \in Finding
  BY <1>2 DEF CallKind
<1>4. NextState(call) \in Checks
  BY <1>2 DEF FoundAt
<1>5. PICK again : again = [found EXCEPT !.set = TRUE]
  OBVIOUS
<1>6. again \in Finding /\ again.status = found.status
  BY <1>3, <1>5 DEF Finding
<1>7. PICK new : new = [call EXCEPT !.found = {again}]
  OBVIOUS
<1>8. new \in CallKind
  BY <1>2, <1>6, <1>7 DEF CallKind
<1>9. /\ new.found = {again}
      /\ new.states = call.states /\ new.doc = call.doc /\ new.inside = call.inside
      /\ new.children = call.children /\ new.checks = call.checks
  BY <1>2, <1>7 DEF CallKind
<1>10. NextState(new) = NextState(call)
  BY <1>9 DEF NextState
<1>11. DocAgrees(new.doc) /\ CallSeen(new, seen[r]) /\ FoundAt(new)
  BY <1>2, <1>4, <1>9, <1>10 DEF CallSeen, FoundAt
<1>12. ASSUME NEW q \in Readers, calls[q] # {}
       PROVE  FindingSeen(new, seen[q]) /\ found.status \in seen[q][NextState(call)]
  <2>1. found.status \in seen[q][NextState(call)]
    BY <1>12 DEF ProgramInv, SeenSoFar, FindingSeen
  <2> QED BY <1>6, <1>9, <1>10, <2>1 DEF FindingSeen
<1>13. NextState(call) \in Members /\ NextState(call) \notin Manual
  BY <1>4 DEF StatesAssumption, Members, Leaves
<1>14. /\ status' \in [Members \cup {Health} -> Status]
       /\ status'[NextState(call)] = found.status
       /\ \A s \in Members : s # NextState(call) => status'[s] = status[s]
  BY <1>1, <1>2, <1>3, <1>13 DEF Finding
<1>15. GoesOn(r, new)
  <2>1. Goes(r, new)
    BY <1>1, <1>5, <1>7
  <2>2. \A s \in Manual : status'[s] = status[s]
    BY <1>13, <1>14 DEF Members, Leaves
  <2>3. \A c \in Checks : status'[c] = status[c]
          \/ \A q \in Readers : calls[q] # {} => status'[c] \in seen[q][c]
    BY <1>12, <1>14 DEF Members, Leaves
  <2> QED BY <1>1, <1>14, <2>1, <2>2, <2>3 DEF GoesOn
<1>16. \A f \in new.found : f.set => status'[NextState(new)] \in seen[r][NextState(new)]
  BY <1>10, <1>12, <1>14
<1> QED BY <1>8, <1>11, <1>12, <1>15, <1>16, GoesOnKeeps

\* What is read back is what some reader found, not always this one.
LEMMA ReadInnerKeeps ==
  ASSUME StatesAssumption, ProgramInv, NEW r \in Readers, ReadInner(r)
  PROVE  ProgramInv'
<1>0. PICK call \in calls[r] : \E found \in call.found :
        /\ found.set
        /\ Goes(r, Took(call, status[NextState(call)]))
        /\ UNCHANGED <<status, level, setup, children, registered, extra, answers, changes, seen>>
  BY DEF ReadInner
<1>1. PICK found \in call.found :
        /\ found.set
        /\ Goes(r, Took(call, status[NextState(call)]))
        /\ UNCHANGED <<status, level, setup, children, registered, extra, answers, changes, seen>>
  BY <1>0
<1>2. PICK new : new = Took(call, status[NextState(call)])
  OBVIOUS
<1>3. /\ CallSeen(call, seen[r]) /\ SetSeen(call, seen[r]) /\ FoundAt(call)
      /\ status \in [Members \cup {Health} -> Status]
  BY DEF ProgramInv, ProgramKinds, SeenSoFar
<1>4. NextState(call) \in Leaves /\ status[NextState(call)] \in Status
      /\ status[NextState(call)] \in seen[r][NextState(call)]
  BY <1>1, <1>3 DEF FoundAt, SetSeen, Members, Leaves
<1>5. new \in CallKind /\ new.found = {} /\ DocAgrees(new.doc) /\ CallSeen(new, seen[r])
      /\ FoundAt(new)
  BY <1>2, <1>3, <1>4, TakesKeep
<1>6. GoesOn(r, new)
  BY <1>1, <1>2, <1>3 DEF GoesOn
<1>7. \A s : FindingSeen(new, s)
  BY <1>5 DEF FindingSeen
<1> QED BY <1>5, <1>6, <1>7, GoesOnKeeps

\* AggregateState.Snapshot begins.
LEMMA EnterKeeps ==
  ASSUME StatesAssumption, ProgramInv, NEW r \in Readers, Enter(r)
  PROVE  ProgramInv'
<1>1. PICK call \in calls[r] :
        /\ NextState(call) \in Aggregates
        /\ Goes(r, [call EXCEPT !.inside = Head(call.states), !.children = children[NextState(call)]])
        /\ UNCHANGED <<status, level, setup, children, registered, extra, answers, changes, seen>>
  BY DEF Enter
<1>2. PICK a, below : a = NextState(call) /\ below = children[a]
  OBVIOUS
<1>3. Head(call.states) = a
  BY <1>1, <1>2, NextIs DEF ProgramInv
<1>11. call.states # <<>>
  BY <1>1, NextIs DEF ProgramInv
<1>4. PICK new : new = [call EXCEPT !.inside = a, !.children = below]
  OBVIOUS
<1>5. /\ call \in CallKind /\ DocAgrees(call.doc) /\ CallSeen(call, seen[r]) /\ FoundAt(call)
      /\ status \in [Members \cup {Health} -> Status]
      /\ below \in Seq(Child)
  BY <1>1, <1>2, CallFields DEF ProgramInv, SeenSoFar, DocumentsAgree, ProgramKinds
<1>6. call.found = {}
  BY <1>1, <1>5 DEF FoundAt, StatesAssumption, Leaves
<1>7. new \in CallKind
  BY <1>1, <1>2, <1>4, <1>5 DEF CallKind
<1>8. new.found = {} /\ new.doc = call.doc /\ new.checks = call.checks /\ new.states = call.states
  BY <1>4, <1>5, <1>6 DEF CallKind
<1>9. DocAgrees(new.doc) /\ CallSeen(new, seen[r]) /\ FoundAt(new) /\ \A s : FindingSeen(new, s)
  BY <1>5, <1>8, <1>11 DEF CallSeen, FoundAt, FindingSeen
<1>10. GoesOn(r, new)
  BY <1>1, <1>2, <1>3, <1>4, <1>5 DEF GoesOn
<1> QED BY <1>7, <1>8, <1>9, <1>10, GoesOnKeeps

\* The worst that the rows of an aggregate may contribute.
LEMMA ContributionIs ==
  ASSUME NEW row \in Row
  PROVE  /\ Contribution(row) \in Status
         /\ Contribution(row) = IF row.status <= row.worst THEN row.status ELSE row.worst
<1>1. row.status \in Status /\ row.worst \in Status
  BY DEF Row
<1> QED BY <1>1, LeastOfTwo DEF Contribution

\* What an aggregate is told to be by its checks.
LEMMA AggregateIs ==
  ASSUME NEW a, NEW rows \in Seq(Row)
  PROVE  /\ AggregateStatus(a, rows) \in Status
         /\ \A st \in Status \ {Pass} :
              AggregateStatus(a, rows) >= st <=>
                /\ st <= Warn \/ a \notin Informational
                /\ \E k \in DOMAIN rows : rows[k].status >= st /\ rows[k].worst >= st
<1> DEFINE S == {Contribution(rows[i]) : i \in DOMAIN rows}
           w == Worst(S)
<1>1. \A i \in DOMAIN rows : rows[i] \in Row
  OBVIOUS
<1>2. S \in SUBSET Status
  BY <1>1, ContributionIs
<1> HIDE DEF S
<1>3. w \in S \cup {Pass} /\ w \in Status /\ \A x \in S : x <= w
  BY <1>2, WorstIs
<1> HIDE DEF w
<1>4. AggregateStatus(a, rows) = IF a \in Informational /\ w > Warn THEN Warn ELSE w
  BY <1>3, CappedIs DEF AggregateStatus, S, w
<1>5. AggregateStatus(a, rows) \in Status
  BY <1>3, <1>4 DEF Status
<1>6. ASSUME NEW st \in Status \ {Pass}
      PROVE  w >= st <=> \E k \in DOMAIN rows : rows[k].status >= st /\ rows[k].worst >= st
  <2>1. ASSUME w >= st PROVE \E k \in DOMAIN rows : rows[k].status >= st /\ rows[k].worst >= st
    <3>1. w # Pass
      BY <1>3, <2>1, StatusNumbers DEF Pass
    <3>2. PICK k \in DOMAIN rows : w = Contribution(rows[k])
      BY <1>3, <3>1 DEF S
    <3>3. rows[k] \in Row /\ rows[k].status \in Status /\ rows[k].worst \in Status
      BY <1>1 DEF Row
    <3>4. w = IF rows[k].status <= rows[k].worst THEN rows[k].status ELSE rows[k].worst
      BY <3>2, <3>3, ContributionIs
    <3>5. rows[k].status >= st /\ rows[k].worst >= st
      BY <2>1, <3>3, <3>4, StatusNumbers
    <3> QED BY <3>5
  <2>2. ASSUME NEW k \in DOMAIN rows, rows[k].status >= st /\ rows[k].worst >= st PROVE w >= st
    <3>1. rows[k] \in Row /\ rows[k].status \in Status /\ rows[k].worst \in Status
      BY <1>1 DEF Row
    <3>2. Contribution(rows[k]) \in S
      BY DEF S
    <3>3. Contribution(rows[k]) <= w /\ Contribution(rows[k]) >= st
      BY <1>3, <2>2, <3>1, <3>2, ContributionIs
    <3> QED BY <1>3, <3>1, <3>3, ContributionIs, StatusNumbers
  <2> QED BY <2>1, <2>2
<1>7. ASSUME NEW st \in Status \ {Pass}
      PROVE  AggregateStatus(a, rows) >= st <=> (st <= Warn \/ a \notin Informational) /\ w >= st
  BY <1>3, <1>4, StatusNumbers DEF Warn, Pass
<1> QED BY <1>5, <1>6, <1>7

\* AggregateState.Snapshot ends: the status is of the checks that it shows.
LEMMA LeaveKeeps ==
  ASSUME StatesAssumption, ProgramInv, NEW r \in Readers, Leave(r)
  PROVE  ProgramInv'
<1>1. PICK call \in calls[r] :
        /\ call.inside # None /\ call.children = <<>>
        /\ status' = [status EXCEPT ![call.inside] = AggregateStatus(call.inside, call.checks)]
        /\ Goes(r, [NewCall EXCEPT
             !.states = Tail(call.states),
             !.doc = Append(call.doc, [state |-> call.inside, checks |-> call.checks,
                                       status |-> status'[call.inside]])])
        /\ UNCHANGED <<level, setup, children, registered, extra, answers, changes, seen>>
  BY DEF Leave
<1>2. /\ call \in CallKind /\ DocAgrees(call.doc) /\ CallSeen(call, seen[r]) /\ FoundAt(call)
      /\ call.states \in Seq(Members) /\ call.doc \in Seq(Entries)
      /\ call.inside \in Aggregates /\ call.checks \in Seq(Row)
      /\ status \in [Members \cup {Health} -> Status]
  BY <1>1, CallFields DEF ProgramInv, SeenSoFar, DocumentsAgree, ProgramKinds
<1>3. PICK st : st = AggregateStatus(call.inside, call.checks)
  OBVIOUS
<1>4. st \in Status
  BY <1>2, <1>3, AggregateIs
<1>5. /\ status' \in [Members \cup {Health} -> Status]
      /\ status'[call.inside] = st
      /\ \A s \in Leaves : status'[s] = status[s]
  BY <1>1, <1>2, <1>3, <1>4 DEF Members, StatesAssumption
<1>6. PICK entry : entry = [state |-> call.inside, checks |-> call.checks, status |-> st]
  OBVIOUS
<1>7. entry \in Entries /\ EntryAgrees(entry)
  BY <1>2, <1>3, <1>4, <1>6 DEF Entries, Row, EntryAgrees
<1>8. PICK new : new = [NewCall EXCEPT !.states = Tail(call.states), !.doc = Append(call.doc, entry)]
  OBVIOUS
<1>9. NewCall = [states |-> registered, doc |-> <<>>, inside |-> None, children |-> <<>>,
                 checks |-> <<>>, found |-> {}]
  BY DEF NewCall
<1>10. new = [states |-> Tail(call.states), doc |-> Append(call.doc, entry), inside |-> None,
              children |-> <<>>, checks |-> <<>>, found |-> {}]
  BY <1>8, <1>9
<1>11. /\ new.doc \in Seq(Entries)
       /\ \A i \in DOMAIN new.doc : (i \in DOMAIN call.doc /\ new.doc[i] = call.doc[i]) \/ new.doc[i] = entry
  BY <1>2, <1>7, <1>10
<1>12. call.states # <<>> => Tail(call.states) \in Seq(Members)
  BY <1>2
<1>13. call.states # <<>>
  BY <1>1, <1>2 DEF FoundAt
<1>14. new \in CallKind
  BY <1>10, <1>11, <1>12, <1>13 DEF CallKind
<1>15. DocAgrees(new.doc)
  BY <1>2, <1>7, <1>11 DEF DocAgrees
<1>16. EntrySeen(entry, seen[r])
  BY <1>2, <1>6 DEF EntrySeen, CallSeen, StatesAssumption
<1>17. CallSeen(new, seen[r])
  BY <1>2, <1>10, <1>11, <1>16 DEF CallSeen
<1>18. FoundAt(new) /\ new.found = {} /\ \A s : FindingSeen(new, s)
  BY <1>10 DEF FoundAt, FindingSeen
<1>19. GoesOn(r, new)
  <2>1. Goes(r, new)
    BY <1>1, <1>5, <1>6, <1>8
  <2> QED BY <1>1, <1>5, <2>1 DEF GoesOn, Leaves
<1> QED BY <1>14, <1>15, <1>17, <1>18, <1>19, GoesOnKeeps

\* healthState.update
LEMMA ReadingFinishes ==
  ASSUME StatesAssumption, ProgramInv, NEW r \in Readers, Finish(r)
  PROVE  ProgramInv'
<1>1. PICK call \in calls[r] :
        /\ call.inside = None /\ call.states = <<>>
        /\ status' = [status EXCEPT ![Health] = HealthStatus(call.doc)]
        /\ answers' = [answers EXCEPT ![r] =
             {[health |-> status'[Health], data |-> HealthData(call.doc), doc |-> call.doc]}]
        /\ calls' = [calls EXCEPT ![r] = {}]
        /\ seen' = [seen EXCEPT ![r] = [s \in Leaves |-> {}]]
        /\ UNCHANGED <<level, setup, children, registered, extra, changes>>
  BY DEF Finish
<1>2. DocAgrees(call.doc) /\ status \in [Members \cup {Health} -> Status]
  BY DEF ProgramInv, DocumentsAgree, ProgramKinds
<1>3. HealthStatus(call.doc) \in Status
  <2>1. \A i \in DOMAIN call.doc : call.doc[i] \in Entries
    BY <1>2 DEF DocAgrees
  <2>2. {call.doc[i].status : i \in DOMAIN call.doc} \in SUBSET Status
    BY <2>1 DEF Entries
  <2> QED BY <2>2, WorstIs DEF HealthStatus
<1>4. /\ status' \in [Members \cup {Health} -> Status]
      /\ status'[Health] = HealthStatus(call.doc)
      /\ \A s \in Leaves : status'[s] = status[s]
  BY <1>1, <1>2, <1>3 DEF Members, StatesAssumption
<1>5. /\ calls' \in [Readers -> SUBSET CallKind] /\ calls'[r] = {}
      /\ \A q \in Readers : q # r => calls'[q] = calls[q]
      /\ seen' \in [Readers -> [Leaves -> SUBSET Status]]
      /\ \A q \in Readers : q # r => seen'[q] = seen[q]
      /\ \A q \in Readers : q # r => answers'[q] = answers[q]
      /\ answers' = [q \in Readers |-> answers'[q]]
      /\ answers'[r] = {[health |-> status'[Health], data |-> HealthData(call.doc), doc |-> call.doc]}
  BY <1>1 DEF ProgramInv, ProgramKinds
<1>6. ProgramKinds'
  BY <1>1, <1>4, <1>5 DEF ProgramInv, ProgramKinds
<1>7. SeenSoFar'
  <2>1. ASSUME NEW q \in Readers, NEW other \in calls'[q]
        PROVE  FoundAt(other) /\ CallSeen(other, seen'[q]) /\ SetSeen(other, seen[q])'
    <3>1. q # r /\ other \in calls[q] /\ seen'[q] = seen[q]
      BY <1>5, <2>1
    <3>2. FoundAt(other) /\ CallSeen(other, seen[q]) /\ SetSeen(other, seen[q])
      BY <3>1 DEF ProgramInv, SeenSoFar
    <3>3. SetSeen(other, seen[q])'
      BY <1>4, <3>1, <3>2 DEF SetSeen, FoundAt, Leaves
    <3> QED BY <3>1, <3>2, <3>3
  <2>2. ASSUME NEW q \in Readers, calls'[q] # {}
        PROVE  /\ \A s \in Manual : status'[s] \in seen'[q][s]
               /\ \A c \in Checks : Current(level'[c]) \in seen'[q][c]
               /\ \A p \in Readers : \A other \in calls'[p] : FindingSeen(other, seen'[q])
    <3>1. q # r /\ calls[q] # {} /\ seen'[q] = seen[q]
      BY <1>5, <2>2
    <3>2. /\ \A s \in Manual : status[s] \in seen[q][s]
          /\ \A c \in Checks : Current(level[c]) \in seen[q][c]
          /\ \A p \in Readers : \A other \in calls[p] : FindingSeen(other, seen[q])
      BY <3>1 DEF ProgramInv, SeenSoFar
    <3>3. ASSUME NEW p \in Readers, NEW other \in calls'[p] PROVE FindingSeen(other, seen[q])
      BY <1>5, <3>2, <3>3
    <3> QED BY <1>1, <1>4, <3>1, <3>2, <3>3 DEF Leaves
  <2> QED BY <2>1, <2>2 DEF SeenSoFar
<1>8. PICK answer : answer = [health |-> HealthStatus(call.doc), data |-> HealthData(call.doc), doc |-> call.doc]
  OBVIOUS
<1>9. AnswerAgrees(answer)
  <2>1. ASSUME Keys \cap DOMAIN HealthData(call.doc) = {} PROVE HealthData(call.doc) = CountsIn(call.doc)
    <3>1. DOMAIN HealthData(call.doc) = {st \in Status : CountedAs(call.doc, st) > 0} \cup extra
      BY DEF HealthData, CountedAs
    <3>2. extra = {}
      BY <2>1, <3>1 DEF ProgramInv, ProgramKinds
    <3>3. HealthData(call.doc) =
            [st \in {st \in Status : CountedAs(call.doc, st) > 0} |-> CountedAs(call.doc, st)]
      BY <3>2 DEF HealthData, CountedAs
    <3> QED BY <3>3 DEF CountsIn
  <2> QED BY <1>2, <1>8, <2>1 DEF AnswerAgrees
<1>10. DocumentsAgree'
  <2>1. ASSUME NEW q \in Readers, NEW other \in calls'[q] PROVE DocAgrees(other.doc)
    BY <1>5, <2>1 DEF ProgramInv, DocumentsAgree
  <2>2. ASSUME NEW q \in Readers, NEW other \in answers'[q] PROVE AnswerAgrees(other)
    <3>1. CASE q = r
      <4>1. other = answer
        BY <1>4, <1>5, <1>8, <2>2, <3>1
      <4> QED BY <1>9, <4>1
    <3>2. CASE q # r
      BY <1>5, <2>2, <3>2 DEF ProgramInv, DocumentsAgree
    <3> QED BY <3>1, <3>2
  <2> QED BY <2>1, <2>2 DEF DocumentsAgree
<1> QED BY <1>6, <1>7, <1>10 DEF ProgramInv

\* A reader that comes may be told what the others under way may be.
LEMMA BeginKeeps ==
  ASSUME StatesAssumption, ProgramInv, NEW r \in Readers, Begin(r)
  PROVE  ProgramInv'
<1> USE DEF Begin, Goes
<1> DEFINE others == {q \in Readers : calls[q] # {}}
           Told(s) == UNION {seen[q][s] : q \in others}
<1>1. NewCall \in CallKind /\ NewCall.doc = <<>> /\ NewCall.checks = <<>> /\ NewCall.found = {}
      /\ NewCall.inside = None
  BY DEF ProgramInv, ProgramKinds, CallKind, NewCall
<1>2. /\ calls' \in [Readers -> SUBSET CallKind] /\ calls'[r] = {NewCall}
      /\ \A q \in Readers : q # r => calls'[q] = calls[q]
      /\ \A q \in Readers : q # r => seen'[q] = seen[q]
      /\ \A q \in Readers : q # r => answers'[q] = answers[q]
      /\ answers' = [q \in Readers |-> answers'[q]] /\ answers'[r] = {}
  BY <1>1 DEF ProgramInv, ProgramKinds
<1>3. seen'[r] = [s \in Leaves |->
         IF s \in Manual THEN {status[s]}
         ELSE {Current(level[s])} \cup Told(s)]
  BY DEF ProgramInv, ProgramKinds
<1>9. ASSUME NEW s \in Leaves PROVE Told(s) \in SUBSET Status
  BY DEF ProgramInv, ProgramKinds
<1>10. ASSUME NEW p \in others, NEW s, NEW st \in seen[p][s] PROVE st \in Told(s)
  BY <1>10
<1> HIDE DEF Told
<1>4. seen' \in [Readers -> [Leaves -> SUBSET Status]]
  <2>1. ASSUME NEW s \in Leaves PROVE seen'[r][s] \in SUBSET Status
    <3>1. status[s] \in Status /\ Current(level[s]) \in Status
      BY CurrentIs DEF ProgramInv, ProgramKinds, Members
    <3> QED BY <1>3, <1>9, <3>1
  <2>2. seen'[r] \in [Leaves -> SUBSET Status]
    BY <1>3, <2>1
  <2> QED BY <2>2 DEF ProgramInv, ProgramKinds
<1>5. ProgramKinds'
  BY <1>2, <1>4 DEF ProgramInv, ProgramKinds
<1>6. ASSUME NEW q \in Readers, NEW call \in calls'[q], NEW f \in call.found
      PROVE  q # r /\ call \in calls[q] /\ NextState(call) \in Checks
             /\ f.status \in seen[q][NextState(call)]
  <2>1. q # r /\ call \in calls[q]
    BY <1>1, <1>2, <1>6
  <2>2. FoundAt(call) /\ FindingSeen(call, seen[q])
    BY <2>1 DEF ProgramInv, SeenSoFar
  <2> QED BY <2>1, <2>2 DEF FoundAt, FindingSeen
<1>7. SeenSoFar'
  <2>1. ASSUME NEW q \in Readers, NEW other \in calls'[q]
        PROVE  FoundAt(other) /\ CallSeen(other, seen'[q]) /\ SetSeen(other, seen[q])'
    <3>1. CASE q = r
      BY <1>1, <1>2, <2>1, <3>1 DEF FoundAt, CallSeen, SetSeen
    <3>2. CASE q # r
      <4>1. other \in calls[q] /\ seen'[q] = seen[q]
        BY <1>2, <2>1, <3>2
      <4>2. FoundAt(other) /\ CallSeen(other, seen[q]) /\ SetSeen(other, seen[q])
        BY <4>1 DEF ProgramInv, SeenSoFar
      <4>3. SetSeen(other, seen[q])'
        BY <4>1, <4>2 DEF SetSeen
      <4> QED BY <4>1, <4>2, <4>3
    <3> QED BY <3>1, <3>2
  <2>2. ASSUME NEW q \in Readers, calls'[q] # {}
        PROVE  /\ \A s \in Manual : status'[s] \in seen'[q][s]
               /\ \A c \in Checks : Current(level'[c]) \in seen'[q][c]
               /\ \A p \in Readers : \A other \in calls'[p] : FindingSeen(other, seen'[q])
    <3>1. CASE q = r
      <4>1. \A s \in Manual : status[s] \in seen'[r][s]
        BY <1>3 DEF Leaves
      <4>2. \A c \in Checks : Current(level[c]) \in seen'[r][c]
        BY <1>3 DEF Leaves, StatesAssumption
      <4>3. ASSUME NEW p \in Readers, NEW other \in calls'[p], NEW f \in other.found
            PROVE  f.status \in seen'[r][NextState(other)]
        <5>1. NextState(other) \in Checks /\ f.status \in seen[p][NextState(other)] /\ p \in others
          BY <1>6, <4>3
        <5>2. f.status \in Told(NextState(other))
          BY <1>10, <5>1
        <5> QED BY <1>3, <5>1, <5>2 DEF Leaves, StatesAssumption
      <4> QED BY <3>1, <4>1, <4>2, <4>3 DEF FindingSeen
    <3>2. CASE q # r
      <4>1. calls[q] # {} /\ seen'[q] = seen[q]
        BY <1>2, <2>2, <3>2
      <4>2. /\ \A s \in Manual : status[s] \in seen[q][s]
            /\ \A c \in Checks : Current(level[c]) \in seen[q][c]
            /\ \A p \in Readers : \A other \in calls[p] : FindingSeen(other, seen[q])
        BY <4>1 DEF ProgramInv, SeenSoFar
      <4>3. ASSUME NEW p \in Readers, NEW other \in calls'[p], NEW f \in other.found
            PROVE  f.status \in seen[q][NextState(other)]
        BY <1>6, <4>2, <4>3 DEF FindingSeen
      <4> QED BY <4>1, <4>2, <4>3 DEF FindingSeen
    <3> QED BY <3>1, <3>2
  <2> QED BY <2>1, <2>2 DEF SeenSoFar
<1>8. DocumentsAgree'
  <2>1. DocAgrees(NewCall.doc)
    BY <1>1 DEF DocAgrees
  <2> QED BY <1>1, <1>2, <2>1 DEF ProgramInv, DocumentsAgree
<1> QED BY <1>5, <1>7, <1>8 DEF ProgramInv

\* The program goes on; a reader under way may see what becomes of a leaf.
ProgramGoesOn(x, st) ==
  /\ x \in Leaves /\ st \in Status
  /\ MaySee(x, st)
  /\ UNCHANGED <<setup, children, registered, extra, calls, answers>>

\* Nothing that a reader may see is forgotten while it is under way.
LEMMA SeenGrows ==
  ASSUME StatesAssumption, ProgramInv, NEW x, NEW st, ProgramGoesOn(x, st)
  PROVE  /\ seen' \in [Readers -> [Leaves -> SUBSET Status]]
         /\ \A q \in Readers, s \in Leaves : seen[q][s] \subseteq seen'[q][s]
         /\ \A q \in Readers : calls[q] # {} => st \in seen'[q][x]
<1>1. \A q \in Readers : seen'[q] = [seen[q] EXCEPT ![x] = IF calls[q] = {} THEN @ ELSE @ \cup {st}]
  BY DEF ProgramGoesOn, MaySee
<1>2. \A q \in Readers : seen[q] \in [Leaves -> SUBSET Status]
  BY DEF ProgramInv, ProgramKinds
<1>3. ASSUME NEW q \in Readers
      PROVE  /\ seen'[q] \in [Leaves -> SUBSET Status]
             /\ \A s \in Leaves : seen[q][s] \subseteq seen'[q][s]
             /\ calls[q] # {} => st \in seen'[q][x]
  <2>1. PICK f, new : f = seen[q] /\ new = IF calls[q] = {} THEN f[x] ELSE f[x] \cup {st}
    OBVIOUS
  <2>2. f \in [Leaves -> SUBSET Status] /\ f[x] \in SUBSET Status
    BY <1>2, <2>1 DEF ProgramGoesOn
  <2>3. new \in SUBSET Status /\ f[x] \subseteq new /\ (calls[q] # {} => st \in new)
    BY <2>1, <2>2 DEF ProgramGoesOn
  <2>4. seen'[q] = [f EXCEPT ![x] = new]
    BY <1>1, <2>1
  <2> QED BY <2>1, <2>2, <2>3, <2>4 DEF ProgramGoesOn
<1>4. seen' = [q \in Readers |-> seen'[q]]
  BY DEF ProgramGoesOn, MaySee
<1> QED BY <1>3, <1>4

\* What a call has seen, it has seen.
LEMMA SeenStays ==
  ASSUME ProgramInv, NEW r \in Readers, NEW call \in calls[r], NEW s, NEW t,
         \A l \in Leaves : s[l] \subseteq t[l], CallSeen(call, s)
  PROVE  CallSeen(call, t)
<1>1. call.doc \in Seq(Entries) /\ call.checks \in Seq(Row)
  BY CallFields DEF ProgramInv
<1>2. ASSUME NEW i \in DOMAIN call.doc PROVE EntrySeen(call.doc[i], t)
  <2>1. call.doc[i] \in Entries
    BY <1>1
  <2>2. \A k \in DOMAIN call.doc[i].checks : call.doc[i].checks[k].state \in Leaves
    <3>1. call.doc[i].checks \in Seq(Row)
      BY <2>1 DEF Entries, Row
    <3>2. \A k \in DOMAIN call.doc[i].checks : call.doc[i].checks[k] \in Row
      BY <3>1
    <3> QED BY <3>2 DEF Row
  <2>3. EntrySeen(call.doc[i], s)
    BY DEF CallSeen
  <2> QED BY <2>2, <2>3 DEF EntrySeen
<1>3. \A k \in DOMAIN call.checks : call.checks[k].state \in Leaves
  <2>1. \A k \in DOMAIN call.checks : call.checks[k] \in Row
    BY <1>1
  <2> QED BY <2>1 DEF Row
<1> QED BY <1>2, <1>3 DEF CallSeen

\* A leaf that comes to another status, or whose level does, keeps the invariant.
LEMMA ProgramGoesOnKeeps ==
  ASSUME StatesAssumption, ProgramInv, NEW x, NEW st, ProgramGoesOn(x, st),
         status' \in [Members \cup {Health} -> Status],
         level' = [c \in Checks |-> level'[c]],
         \A s \in Manual : status'[s] = IF s = x THEN st ELSE status[s],
         \A c \in Checks : status'[c] = status[c],
         \A c \in Checks : Current(level'[c]) = IF c = x THEN st ELSE Current(level[c])
  PROVE  ProgramInv'
<1> USE DEF ProgramGoesOn
<1>1. /\ seen' \in [Readers -> [Leaves -> SUBSET Status]]
      /\ \A q \in Readers, s \in Leaves : seen[q][s] \subseteq seen'[q][s]
      /\ \A q \in Readers : calls[q] # {} => st \in seen'[q][x]
  BY SeenGrows
<1>2. ProgramKinds'
  BY <1>1 DEF ProgramInv, ProgramKinds
<1>3. DocumentsAgree'
  BY DEF ProgramInv, DocumentsAgree
<1>4. ASSUME NEW q \in Readers, NEW call \in calls'[q]
      PROVE  FoundAt(call) /\ CallSeen(call, seen'[q]) /\ SetSeen(call, seen[q])'
  <2>1. FoundAt(call) /\ CallSeen(call, seen[q]) /\ SetSeen(call, seen[q]) /\ call \in calls[q]
    BY <1>4 DEF ProgramInv, SeenSoFar
  <2>2. \A l \in Leaves : seen[q][l] \subseteq seen'[q][l]
    BY <1>1
  <2>3. CallSeen(call, seen'[q])
    <3>1. PICK s, t : s = seen[q] /\ t = seen'[q]
      OBVIOUS
    <3>2. CallSeen(call, t)
      BY <2>1, <2>2, <3>1, SeenStays
    <3> QED BY <3>1, <3>2
  <2>4. SetSeen(call, seen[q])'
    <3> SUFFICES ASSUME NEW f \in call.found, f.set
                 PROVE  status'[NextState(call)] \in seen'[q][NextState(call)]
      BY DEF SetSeen
    <3>1. NextState(call) \in Checks /\ status[NextState(call)] \in seen[q][NextState(call)]
      BY <2>1 DEF FoundAt, SetSeen
    <3> QED BY <2>2, <3>1 DEF Leaves
  <2> QED BY <2>1, <2>3, <2>4
<1>5. ASSUME NEW q \in Readers, calls'[q] # {}
      PROVE  /\ \A s \in Manual : status'[s] \in seen'[q][s]
             /\ \A c \in Checks : Current(level'[c]) \in seen'[q][c]
             /\ \A p \in Readers : \A call \in calls'[p] : FindingSeen(call, seen'[q])
  <2>1. /\ \A s \in Manual : status[s] \in seen[q][s]
        /\ \A c \in Checks : Current(level[c]) \in seen[q][c]
        /\ \A p \in Readers : \A call \in calls[p] : FindingSeen(call, seen[q])
    BY <1>5 DEF ProgramInv, SeenSoFar
  <2>2. \A l \in Leaves : seen[q][l] \subseteq seen'[q][l]
    BY <1>1
  <2>3. st \in seen'[q][x]
    BY <1>1, <1>5
  <2>4. \A s \in Manual : status'[s] \in seen'[q][s]
    BY <2>1, <2>2, <2>3 DEF Leaves
  <2>5. \A c \in Checks : Current(level'[c]) \in seen'[q][c]
    BY <2>1, <2>2, <2>3 DEF Leaves
  <2>6. ASSUME NEW p \in Readers, NEW call \in calls'[p] PROVE FindingSeen(call, seen'[q])
    <3>1. FindingSeen(call, seen[q]) /\ FoundAt(call)
      BY <2>1, <2>6 DEF ProgramInv, SeenSoFar
    <3> QED BY <2>2, <3>1 DEF FindingSeen, FoundAt, Leaves
  <2> QED BY <2>4, <2>5, <2>6
<1>6. SeenSoFar'
  BY <1>4, <1>5 DEF SeenSoFar
<1> QED BY <1>2, <1>3, <1>6 DEF ProgramInv

LEMMA SetKeeps ==
  ASSUME StatesAssumption, ProgramInv, NEW x \in Manual, NEW to \in SetTo, Set(x, to)
  PROVE  ProgramInv'
<1>1. PICK st : st = Capped(x, to)
  OBVIOUS
<1>2. st \in Status
  <2>1. to \in Status
    BY DEF StatesAssumption
  <2> QED BY <1>1, <2>1, CappedIs
<1>3. status' = [status EXCEPT ![x] = st] /\ level' = level
  BY <1>1 DEF Set
<1>4. x \in Leaves /\ x \notin Checks
  BY DEF Leaves, StatesAssumption
<1>5. status \in [Members \cup {Health} -> Status] /\ level = [c \in Checks |-> level[c]]
  BY DEF ProgramInv, ProgramKinds
<1>6. /\ status' \in [Members \cup {Health} -> Status]
      /\ \A s \in Leaves : status'[s] = IF s = x THEN st ELSE status[s]
  BY <1>2, <1>3, <1>4, <1>5 DEF Members
<1>7. ProgramGoesOn(x, st)
  BY <1>1, <1>2, <1>4 DEF Set, ProgramGoesOn
<1>8. /\ level' = [c \in Checks |-> level'[c]]
      /\ \A s \in Manual : status'[s] = IF s = x THEN st ELSE status[s]
      /\ \A c \in Checks : status'[c] = status[c]
      /\ \A c \in Checks : Current(level'[c]) = IF c = x THEN st ELSE Current(level[c])
  BY <1>3, <1>4, <1>5, <1>6 DEF Leaves
<1> QED BY <1>6, <1>7, <1>8, ProgramGoesOnKeeps

LEMMA DriftKeeps ==
  ASSUME StatesAssumption, ProgramInv, NEW x \in Checks, NEW value \in Levels, Drift(x, value)
  PROVE  ProgramInv'
<1>1. PICK st : st = Current(value)
  OBVIOUS
<1>2. st \in Status
  BY <1>1, CurrentIs
<1>3. status' = status /\ level' = [level EXCEPT ![x] = value]
  BY DEF Drift
<1>4. x \in Leaves /\ x \notin Manual
  BY DEF Leaves, StatesAssumption
<1>5. status \in [Members \cup {Health} -> Status] /\ level = [c \in Checks |-> level[c]]
  BY DEF ProgramInv, ProgramKinds
<1>6. /\ level' = [c \in Checks |-> level'[c]]
      /\ \A c \in Checks : level'[c] = IF c = x THEN value ELSE level[c]
  BY <1>3, <1>5
<1>7. ProgramGoesOn(x, st)
  BY <1>1, <1>2, <1>4 DEF Drift, ProgramGoesOn
<1>8. /\ \A s \in Manual : status'[s] = IF s = x THEN st ELSE status[s]
      /\ \A c \in Checks : status'[c] = status[c]
      /\ \A c \in Checks : Current(level'[c]) = IF c = x THEN st ELSE Current(level[c])
  BY <1>1, <1>3, <1>4, <1>6
<1> QED BY <1>3, <1>5, <1>6, <1>7, <1>8, ProgramGoesOnKeeps

\* What the program registers and gives, no call under way sees.
LEMMA SetupKeeps ==
  ASSUME StatesAssumption, ProgramInv,
         AddCheck \/ Register \/ (\E key \in Keys : SetHealthData(key)) \/ UNCHANGED programVars
  PROVE  ProgramInv'
<1>1. UNCHANGED <<status, level, calls, answers, seen>>
  BY DEF AddCheck, Register, SetHealthData, programVars
<1>2. SeenSoFar' /\ DocumentsAgree'
  BY <1>1 DEF ProgramInv, SeenSoFar, SetSeen, DocumentsAgree
<1>3. setup # <<>> =>
        /\ Head(setup) \in [state : Members, into : Aggregates \cup {Health}, worst : Status]
        /\ Tail(setup) \in Seq([state : Members, into : Aggregates \cup {Health}, worst : Status])
  <2> DEFINE Step == [state : Members, into : Aggregates \cup {Health}, worst : Status]
  <2>1. setup \in Seq(Step)
    BY DEF ProgramInv, ProgramKinds
  <2> HIDE DEF Step
  <2>2. setup # <<>> => Head(setup) \in Step /\ Tail(setup) \in Seq(Step)
    BY <2>1
  <2> QED BY <2>2 DEF Step
<1>4. ProgramKinds'
  <2> USE DEF ProgramInv, ProgramKinds
  <2>1. CASE AddCheck
    <3>1. PICK child : child = [state |-> Head(setup).state, worst |-> Head(setup).worst]
      OBVIOUS
    <3>2. child \in Child
      BY <1>3, <2>1, <3>1 DEF AddCheck, Child
    <3>3. children' = [children EXCEPT ![Head(setup).into] = Append(@, child)]
      BY <2>1, <3>1 DEF AddCheck
    <3>4. children' \in [Aggregates -> Seq(Child)]
      <4>1. PICK a, more : a = Head(setup).into /\ more = Append(children[a], child)
        OBVIOUS
      <4>2. a \in Aggregates /\ children \in [Aggregates -> Seq(Child)]
        BY <2>1, <4>1 DEF AddCheck
      <4>3. more \in Seq(Child)
        BY <3>2, <4>1, <4>2
      <4>4. children' = [children EXCEPT ![a] = more]
        BY <3>3, <4>1
      <4> QED BY <4>2, <4>3, <4>4
    <3> QED BY <1>1, <1>3, <2>1, <3>4 DEF AddCheck
  <2>2. CASE Register
    <3>1. Head(setup).state \in Members /\ registered' = Append(registered, Head(setup).state)
      BY <1>3, <2>2 DEF Register
    <3>2. registered' \in Seq(Members)
      BY <3>1
    <3> QED BY <1>1, <1>3, <2>2, <3>2 DEF Register
  <2>3. CASE \E key \in Keys : SetHealthData(key)
    BY <1>1, <2>3 DEF SetHealthData
  <2>4. CASE UNCHANGED programVars
    BY <2>4 DEF programVars
  <2> QED BY <2>1, <2>2, <2>3, <2>4
<1> QED BY <1>2, <1>4 DEF ProgramInv

LEMMA ProgramStep == StatesAssumption /\ ProgramInv /\ [ProgramNext]_programVars => ProgramInv'
<1> SUFFICES ASSUME StatesAssumption, ProgramInv, [ProgramNext]_programVars PROVE ProgramInv'
  OBVIOUS
<1>1. CASE \E s \in Manual, st \in SetTo : Set(s, st)
  BY <1>1, SetKeeps
<1>2. CASE \E c \in Checks, value \in Levels : Drift(c, value)
  BY <1>2, DriftKeeps
<1>3. CASE AddCheck \/ Register \/ (\E key \in Keys : SetHealthData(key)) \/ UNCHANGED programVars
  BY <1>3, SetupKeeps
<1>4. ASSUME NEW r \in Readers, ReadDocument(r) PROVE ProgramInv'
  BY <1>4, BeginKeeps, ReadManualKeeps, CheckMeasures, SetInnerKeeps, ReadInnerKeeps,
     EnterKeeps, LeaveKeeps, ReadingFinishes DEF ReadDocument
<1> QED BY <1>1, <1>2, <1>3, <1>4 DEF ProgramNext

\* What the invariant says of an answered document.
LEMMA DocumentAnswers == ASSUME StatesAssumption, ProgramInv PROVE DocumentAgrees /\ SeenDuringCall
<1>1. ASSUME NEW r \in Readers, NEW answer \in answers[r]
      PROVE  /\ \A i \in DOMAIN answer.doc : answer.doc[i].state \in Aggregates =>
                  \A st \in Status \ {Pass} :
                    answer.doc[i].status >= st <=>
                      /\ st <= Warn \/ answer.doc[i].state \notin Informational
                      /\ \E k \in DOMAIN answer.doc[i].checks :
                           answer.doc[i].checks[k].status >= st /\ answer.doc[i].checks[k].worst >= st
             /\ \A st \in Status \ {Pass} :
                  answer.health >= st <=> \E i \in DOMAIN answer.doc : answer.doc[i].status >= st
             /\ PublicStatus(answer.health) = Fail <=> \E i \in DOMAIN answer.doc : answer.doc[i].status >= Fail
             /\ Keys \cap DOMAIN answer.data = {} =>
                  MapThenSumSet(LAMBDA st : answer.data[st], DOMAIN answer.data) = Len(answer.doc)
  <2> DEFINE doc == answer.doc
  <2>1. AnswerAgrees(answer)
    BY DEF ProgramInv, DocumentsAgree
  <2>2. /\ doc \in Seq(Entries) /\ \A i \in DOMAIN doc : doc[i] \in Entries
        /\ \A i \in DOMAIN doc : doc[i].status \in Status /\ doc[i].checks \in Seq(Row)
    <3>1. doc \in Seq(Entries) /\ \A i \in DOMAIN doc : doc[i] \in Entries
      BY <2>1 DEF AnswerAgrees, DocAgrees
    <3> QED BY <3>1 DEF Entries, Row
  <2>3. ASSUME NEW i \in DOMAIN doc, doc[i].state \in Aggregates, NEW st \in Status \ {Pass}
        PROVE  doc[i].status >= st <=>
                 /\ st <= Warn \/ doc[i].state \notin Informational
                 /\ \E k \in DOMAIN doc[i].checks :
                      doc[i].checks[k].status >= st /\ doc[i].checks[k].worst >= st
    <3>1. doc[i].status = AggregateStatus(doc[i].state, doc[i].checks)
      BY <2>1, <2>3 DEF AnswerAgrees, DocAgrees, EntryAgrees
    <3>2. doc[i].checks \in Seq(Row)
      BY <2>2
    <3> HIDE DEF doc
    <3> QED BY <3>1, <3>2, AggregateIs
  <2> DEFINE S == {doc[i].status : i \in DOMAIN doc}
             h == answer.health
  <2>4. S \in SUBSET Status /\ h = Worst(S)
    BY <2>1, <2>2 DEF AnswerAgrees, HealthStatus
  <2>5. h \in S \cup {Pass} /\ h \in Status /\ \A x \in S : x <= h
    <3> HIDE DEF S, h
    <3> QED BY <2>4, WorstIs
  <2>6. ASSUME NEW st \in Status \ {Pass} PROVE h >= st <=> \E i \in DOMAIN doc : doc[i].status >= st
    <3> HIDE DEF h
    <3>1. ASSUME h >= st PROVE \E i \in DOMAIN doc : doc[i].status >= st
      <4>1. h # Pass
        BY <2>5, <3>1, StatusNumbers DEF Pass
      <4> QED BY <2>5, <3>1, <4>1
    <3>2. ASSUME NEW i \in DOMAIN doc, doc[i].status >= st PROVE h >= st
      <4>1. doc[i].status \in S /\ doc[i].status \in Status
        BY <2>2
      <4> HIDE DEF doc, S
      <4> QED BY <2>5, <3>2, <4>1, StatusNumbers
    <3> QED BY <3>1, <3>2
  <2>7. PublicStatus(h) = Fail <=> \E i \in DOMAIN doc : doc[i].status >= Fail
    <3>1. Fail \in Status \ {Pass}
      BY DEF Status, Fail, Pass
    <3>2. PublicStatus(h) = Fail <=> h >= Fail
      <4> HIDE DEF h
      <4> QED BY <2>5, StatusNumbers DEF PublicStatus, Fail
    <3> HIDE DEF doc, h
    <3> QED BY <2>6, <3>1, <3>2
  <2>8. ASSUME Keys \cap DOMAIN answer.data = {}
        PROVE  MapThenSumSet(LAMBDA st : answer.data[st], DOMAIN answer.data) = Len(doc)
    <3>1. answer.data = CountsIn(doc)
      BY <2>1, <2>8 DEF AnswerAgrees
    <3>2. PICK n \in Nat : n = Len(doc)
      BY <2>2
    <3>3. DOMAIN doc = 1..n
      BY <2>2, <3>2
    <3> HIDE DEF doc
    <3>4. MapThenSumSet(LAMBDA st : CountsIn(doc)[st], DOMAIN CountsIn(doc)) = n
      BY <2>2, <3>3, CountsAddUp
    <3> QED BY <3>1, <3>2, <3>4
  <2> QED BY <2>3, <2>6, <2>7, <2>8
<1>2. DocumentAgrees
  BY <1>1, Zenon DEF DocumentAgrees
<1>3. SeenDuringCall
  BY DEF ProgramInv, SeenSoFar, SeenDuringCall, CallSeen, EntrySeen
<1> QED BY <1>2, <1>3

\* A sequence that ends another, said by its members.
LEMMA SuffixIs ==
  ASSUME NEW S, NEW s \in Seq(S), NEW u \in Seq(S)
  PROVE  IsSuffix(s, u) <=> /\ Len(s) <= Len(u)
                            /\ \A i \in 1..Len(s) : s[i] = u[Len(u) - Len(s) + i]
<1> DEFINE m == Len(s)
           n == Len(u)
           rs == [i \in 1..m |-> s[m - i + 1]]
           ru == [i \in 1..n |-> u[n - i + 1]]
<1>1. m \in Nat /\ n \in Nat
  OBVIOUS
<1>2. Reverse(s) = rs /\ Reverse(u) = ru
  BY DEF Reverse
<1>3. rs \in Seq(S) /\ ru \in Seq(S) /\ Len(rs) = m /\ Len(ru) = n
  OBVIOUS
<1>4. IsSuffix(s, u) <=> m <= n /\ SubSeq(rs, 1, m) = SubSeq(ru, 1, m)
  <2>1. IsSuffix(s, u) <=> Len(rs) <= Len(ru) /\ SubSeq(rs, 1, Len(rs)) = SubSeq(ru, 1, Len(rs))
    BY <1>2, Zenon DEF IsSuffix, IsPrefix
  <2> HIDE DEF rs, ru, m, n
  <2> QED BY <1>3, <2>1
<1>5. ASSUME m <= n
      PROVE  SubSeq(rs, 1, m) = SubSeq(ru, 1, m) <=> \A i \in 1..m : rs[i] = ru[i]
  <2> HIDE DEF rs, ru, m, n
  <2>1. SubSeq(rs, 1, m) = [i \in 1..m |-> rs[i]] /\ SubSeq(ru, 1, m) = [i \in 1..m |-> ru[i]]
    BY <1>1, <1>3, <1>5
  <2> QED BY <2>1
<1>6. ASSUME m <= n
      PROVE  (\A i \in 1..m : rs[i] = ru[i]) <=> \A i \in 1..m : s[i] = u[n - m + i]
  <2>1. \A i \in 1..m : rs[i] = s[m - i + 1] /\ ru[i] = u[n - i + 1]
    BY <1>1, <1>6
  <2>2. ASSUME \A i \in 1..m : rs[i] = ru[i], NEW i \in 1..m PROVE s[i] = u[n - m + i]
    <3>1. m - i + 1 \in 1..m
      BY <1>1
    <3>2. rs[m - i + 1] = s[m - (m - i + 1) + 1] /\ ru[m - i + 1] = u[n - (m - i + 1) + 1]
      BY <2>1, <3>1
    <3>3. m - (m - i + 1) + 1 = i /\ n - (m - i + 1) + 1 = n - m + i
      BY <1>1
    <3> HIDE DEF rs, ru, m, n
    <3> QED BY <2>2, <3>1, <3>2, <3>3
  <2>3. ASSUME \A i \in 1..m : s[i] = u[n - m + i], NEW i \in 1..m PROVE rs[i] = ru[i]
    <3>1. m - i + 1 \in 1..m /\ n - m + (m - i + 1) = n - i + 1
      BY <1>1
    <3> HIDE DEF rs, ru, m, n
    <3> QED BY <2>1, <2>3, <3>1
  <2> HIDE DEF rs, ru, m, n
  <2> QED BY <2>2, <2>3
<1> HIDE DEF rs, ru
<1> QED BY <1>4, <1>5, <1>6

LEMMA TailIsSuffix ==
  ASSUME NEW S, NEW s \in Seq(S), NEW u \in Seq(S), IsSuffix(s, u), s # <<>>
  PROVE  IsSuffix(Tail(s), u)
<1>1. Len(s) <= Len(u) /\ \A i \in 1..Len(s) : s[i] = u[Len(u) - Len(s) + i]
  BY SuffixIs
<1>2. /\ Tail(s) \in Seq(S) /\ Len(Tail(s)) = Len(s) - 1 /\ Len(s) \in Nat /\ Len(u) \in Nat
      /\ \A i \in 1..(Len(s) - 1) : Tail(s)[i] = s[i + 1]
  OBVIOUS
<1>3. ASSUME NEW i \in 1..Len(Tail(s)) PROVE Tail(s)[i] = u[Len(u) - Len(Tail(s)) + i]
  <2>1. i + 1 \in 1..Len(s) /\ Len(u) - Len(s) + (i + 1) = Len(u) - Len(Tail(s)) + i
    BY <1>2
  <2> QED BY <1>1, <1>2, <2>1
<1>4. Len(Tail(s)) <= Len(u)
  BY <1>1, <1>2
<1>5. Tail(s) \in Seq(S)
  BY <1>2
<1>6. PICK rest : rest = Tail(s)
  OBVIOUS
<1> QED BY <1>3, <1>4, <1>5, <1>6, SuffixIs

\* What of the types the invariant does not say.
ProgramNow ==
  /\ \A s \in Informational : status[s] <= Warn
  /\ level \in [Checks -> Levels \cup {0}]
  /\ IsSuffix(setup, Setup)
  /\ changes \in 0..MaxChanges

LEMMA ProgramNowStep == ProgramInv /\ ProgramNow /\ [ProgramNext]_programVars => ProgramNow'
<1> SUFFICES ASSUME ProgramInv, ProgramNow, [ProgramNext]_programVars PROVE ProgramNow'
  OBVIOUS
<1> DEFINE Places == [state : Members, into : Aggregates \cup {Health}, worst : Status]
<1>1. /\ status \in [Members \cup {Health} -> Status] /\ setup \in Seq(Places)
      /\ Setup \in Seq(Places) /\ MaxChanges \in Nat /\ SetTo \subseteq Status
      /\ Informational \subseteq Manual \cup Aggregates /\ Health \notin Informational
      /\ Informational \cap Checks = {}
  BY StatesAssumption DEF ProgramInv, ProgramKinds, StatesAssumption, Members, Leaves
<1>2. \A s, st : st \in Status /\ s \in Informational => Capped(s, st) <= Warn
  BY CappedIs, StatusNumbers DEF Warn
<1>3. setup # <<>> => IsSuffix(Tail(setup), Setup)
  <2> HIDE DEF Places
  <2> QED BY <1>1, TailIsSuffix DEF ProgramNow
<1>4. Changed => changes' \in 0..MaxChanges
  BY <1>1 DEF Changed, ProgramNow
<1>5. ASSUME UNCHANGED <<level, setup, changes>>, NEW s \in Members \cup {Health}, NEW st,
             s \in Informational => st <= Warn, status' = [status EXCEPT ![s] = st]
      PROVE  ProgramNow'
  BY <1>1, <1>5 DEF ProgramNow, Members
<1>6. ASSUME NEW s \in Manual, NEW st \in SetTo, Set(s, st) PROVE ProgramNow'
  <2>1. status' = [status EXCEPT ![s] = Capped(s, st)] /\ UNCHANGED <<level, setup>> /\ changes' \in 0..MaxChanges
    BY <1>4, <1>6 DEF Set
  <2>2. s \in Informational => Capped(s, st) <= Warn
    BY <1>1, <1>2
  <2>3. \A i \in Informational : status'[i] <= Warn
    BY <1>1, <2>1, <2>2 DEF ProgramNow
  <2> QED BY <2>1, <2>3 DEF ProgramNow
<1>7. ASSUME NEW c \in Checks, NEW value \in Levels, Drift(c, value) PROVE ProgramNow'
  BY <1>4, <1>7 DEF Drift, ProgramNow
<1>8. CASE AddCheck \/ Register
  BY <1>3, <1>8 DEF AddCheck, Register, ProgramNow
<1>9. ASSUME NEW key \in Keys, SetHealthData(key) PROVE ProgramNow'
  BY <1>4, <1>9 DEF SetHealthData, ProgramNow
<1>10. ASSUME NEW r \in Readers, ReadDocument(r) PROVE ProgramNow'
  <2>1. CASE UNCHANGED <<status, level, setup, changes>>
    BY <2>1 DEF ProgramNow
  <2>2. CASE SetInner(r)
    <3>1. PICK call \in calls[r] : \E found \in call.found :
            status' = [status EXCEPT ![NextState(call)] = found.status] /\ UNCHANGED <<level, setup, changes>>
      BY <2>2 DEF SetInner
    <3>2. NextState(call) \in Checks
      BY <3>1 DEF ProgramInv, SeenSoFar, FoundAt
    <3> QED BY <1>1, <1>5, <3>1, <3>2 DEF Members, Leaves
  <2>3. CASE Leave(r)
    <3>1. PICK call \in calls[r] :
            /\ call.inside # None /\ UNCHANGED <<level, setup, changes>>
            /\ status' = [status EXCEPT ![call.inside] = AggregateStatus(call.inside, call.checks)]
      BY <2>3 DEF Leave
    <3>2. call.inside \in Aggregates /\ call.checks \in Seq(Row)
      BY <3>1, CallFields DEF ProgramInv
    <3>3. {Contribution(call.checks[i]) : i \in DOMAIN call.checks} \in SUBSET Status
      <4>1. \A i \in DOMAIN call.checks : call.checks[i] \in Row
        BY <3>2
      <4>2. \A x \in Row : Contribution(x) \in Status
        BY ContributionIs DEF Row
      <4> QED BY <4>1, <4>2
    <3>4. call.inside \in Informational => AggregateStatus(call.inside, call.checks) <= Warn
      BY <1>2, <3>3, WorstIs DEF AggregateStatus
    <3> QED BY <1>5, <3>1, <3>2, <3>4 DEF Members
  <2>4. CASE Finish(r)
    <3>1. PICK st : status' = [status EXCEPT ![Health] = st] /\ UNCHANGED <<level, setup, changes>>
      BY <2>4 DEF Finish
    <3> QED BY <1>1, <1>5, <3>1
  <2>5. CASE Begin(r) \/ ReadManual(r) \/ Measure(r) \/ ReadInner(r) \/ Enter(r)
    <3>1. CASE Begin(r)
      BY <2>1, <3>1, Zenon DEF Begin
    <3>2. CASE ReadManual(r) \/ Enter(r)
      BY <2>1, <3>2, Zenon DEF ReadManual, Enter
    <3>3. CASE Measure(r) \/ ReadInner(r)
      BY <2>1, <3>3, Zenon DEF Measure, ReadInner
    <3> QED BY <2>5, <3>1, <3>2, <3>3
  <2> QED BY <1>10, <2>2, <2>3, <2>4, <2>5 DEF ReadDocument
<1>11. CASE UNCHANGED programVars
  BY <1>11 DEF programVars, ProgramNow
<1> QED BY <1>6, <1>7, <1>8, <1>9, <1>10, <1>11 DEF ProgramNext

LEMMA ProgramIsTyped == ProgramSpec => []ProgramTypeOK
<1>1. ProgramInit => ProgramNow
  <2> SUFFICES ASSUME ProgramInit PROVE ProgramNow
    OBVIOUS
  <2>1. IsSuffix(Setup, Setup)
    BY SuffixIs, StatesAssumption DEF StatesAssumption
  <2>2. Informational \subseteq Leaves \cup Aggregates /\ MaxChanges \in Nat
    BY StatesAssumption DEF StatesAssumption, Leaves
  <2>3. \A s \in Informational : status[s] <= Warn
    BY <2>2 DEF ProgramInit, Pass, Warn
  <2>4. level \in [Checks -> Levels \cup {0}] /\ changes \in 0..MaxChanges
    BY <2>2 DEF ProgramInit
  <2> QED BY <2>1, <2>3, <2>4 DEF ProgramInit, ProgramNow
<1>2. ProgramInv /\ ProgramNow => ProgramTypeOK
  <2> SUFFICES ASSUME ProgramInv, ProgramNow PROVE ProgramTypeOK
    OBVIOUS
  <2>1. \A r \in Readers : \A call \in calls[r] :
          /\ call.states \in Seq(Members) /\ call.doc \in Seq(Entries)
          /\ call.inside \in Aggregates \cup {None} /\ call.found \in SUBSET Finding
    BY CallFields DEF ProgramInv
  <2>2. \A r \in Readers : \A answer \in answers[r] : answer.doc \in Seq(Entries)
    BY DEF ProgramInv, DocumentsAgree, AnswerAgrees, DocAgrees
  <2> QED BY <2>1, <2>2 DEF ProgramTypeOK, ProgramNow, ProgramInv, ProgramKinds, Members, Child, Finding
<1> QED BY <1>1, <1>2, ProgramNowStep, ProgramStart, ProgramStep, StatesAssumption, PTL DEF ProgramSpec

\* However many readers are under way at once, however the states change and checks are
\* set by several of them in between, every document agrees with itself and shows of a
\* leaf a status that it had, or was found to have, meanwhile (registry.go Snapshot,
\* registry_health.go, state_aggregate.go).  For any number of states, readers and changes.
THEOREM DocumentsAlwaysRight == ProgramSpec => []DocumentIsRight
<1>1. ProgramInv => DocumentAgrees /\ SeenDuringCall
  BY DocumentAnswers, StatesAssumption
<1> QED BY <1>1, ProgramStart, ProgramStep, ProgramIsTyped, StatesAssumption, PTL
       DEF ProgramSpec, DocumentIsRight

-----------------------------------------------------------------------------
(* The samples and the verdict of TrendCheck.                               *)

Sample == [at : Nat, value : Values]

\* A reading that the next one came an interval after, or that none came after.
LastsIn(u, k) == k = Len(u) \/ Interval = 0 \/ u[k+1].at - u[k].at >= Interval

\* Lasting, of any readings.
LastingIn(u) ==
  {k \in 1..Len(u) : LastsIn(u, k) /\ (TrendWindow = 0 \/ u[k].at >= u[Len(u)].at - TrendWindow)}

\* Readings come in time.
InTime(u) == \A i, j \in 1..Len(u) : i <= j => u[i].at <= u[j].at

\* The samples s are the readings of u that idx counts, in their order ...
PickedBy(idx, s, u) ==
  /\ idx \in [1..Len(s) -> 1..Len(u)]
  /\ \A i, j \in 1..Len(s) : i < j => idx[i] < idx[j]
  /\ \A i \in 1..Len(s) : s[i] = u[idx[i]] /\ LastsIn(u, idx[i])

\* ... all that last, and perhaps more than the window has ...
HeldBy(idx, s, u) ==
  PickedBy(idx, s, u) /\ \A k \in LastingIn(u) : \E i \in 1..Len(s) : idx[i] = k

\* ... or none but those.
KeptBy(idx, s, u) == HeldBy(idx, s, u) /\ \A i \in 1..Len(s) : idx[i] \in LastingIn(u)

\* Samples are an interval apart.
Apart(s) == \A i, j \in 1..Len(s) : i <= j => s[j].at - s[i].at >= (j - i) * Interval

\* addSampleLocked, of any samples.
AddedTo(s, sample) ==
  IF s # <<>> /\ Interval > 0 /\ sample.at - s[Len(s)].at < Interval
  THEN [s EXCEPT ![Len(s)] = sample] ELSE Append(s, sample)

\* The last reading is the last sample.
LEMMA LastIsKept ==
  ASSUME NEW u \in Seq(Sample), NEW s \in Seq(Sample), NEW idx, KeptBy(idx, s, u), u # <<>>
  PROVE  s # <<>> /\ Len(s) \in Nat \ {0} /\ idx[Len(s)] = Len(u) /\ s[Len(s)] = u[Len(u)]
<1>1. TrendWindow \in Nat /\ Len(u) \in Nat \ {0} /\ Len(s) \in Nat /\ u[Len(u)] \in Sample
  BY TrendAssumption
<1>2. Len(u) \in LastingIn(u)
  <2>1. u[Len(u)].at \in Nat
    BY <1>1 DEF Sample
  <2> QED BY <1>1, <2>1 DEF LastingIn, LastsIn
<1>3. PICK i \in 1..Len(s) : idx[i] = Len(u)
  BY <1>2 DEF KeptBy, HeldBy
<1>4. i = Len(s)
  <2> SUFFICES ASSUME i < Len(s) PROVE FALSE
    BY <1>1
  <2>1. idx[i] < idx[Len(s)] /\ idx[Len(s)] \in 1..Len(u)
    BY <1>1 DEF KeptBy, HeldBy, PickedBy
  <2> QED BY <1>1, <1>3, <2>1
<1> QED BY <1>1, <1>3, <1>4 DEF KeptBy, HeldBy, PickedBy

\* The readings w are those of u and one more.
OneMoreRead(u, sample, w) ==
  /\ w \in Seq(Sample) /\ Len(w) = Len(u) + 1 /\ w[Len(u) + 1] = sample
  /\ \A k \in 1..Len(u) : w[k] = u[k]
  /\ InTime(w)

\* Time goes on.
LEMMA NewReading ==
  ASSUME NEW u \in Seq(Sample), NEW sample \in Sample, InTime(u),
         u # <<>> => u[Len(u)].at <= sample.at,
         NEW w, w = Append(u, sample)
  PROVE  OneMoreRead(u, sample, w)
<1>1. /\ w \in Seq(Sample) /\ Len(w) = Len(u) + 1 /\ w[Len(u) + 1] = sample /\ Len(u) \in Nat
      /\ \A k \in 1..Len(u) : w[k] = u[k]
  OBVIOUS
<1>2. sample.at \in Nat /\ \A k \in 1..Len(u) : u[k] \in Sample /\ u[k].at \in Nat
  <2>1. \A k \in 1..Len(u) : u[k] \in Sample
    OBVIOUS
  <2> QED BY <2>1 DEF Sample
<1>3. \A k \in 1..Len(u) : u[k].at <= sample.at
  <2>1. ASSUME NEW k \in 1..Len(u) PROVE u[k].at <= sample.at
    <3>1. Len(u) \in 1..Len(u) /\ u # <<>> /\ k <= Len(u)
      BY <1>1
    <3>2. u[k].at <= u[Len(u)].at
      BY <3>1 DEF InTime
    <3> QED BY <1>2, <3>1, <3>2
  <2> QED BY <2>1
<1>4. ASSUME NEW i \in 1..Len(w), NEW j \in 1..Len(w), i <= j PROVE w[i].at <= w[j].at
  BY <1>1, <1>2, <1>3, <1>4 DEF InTime
<1> QED BY <1>1, <1>4 DEF InTime, OneMoreRead

\* What a reading adds to.
HeldWithNew(sample, more, w) ==
  /\ more \in Seq(Sample) /\ Len(more) \in Nat \ {0} /\ more[Len(more)] = sample
  /\ \E new : HeldBy(new, more, w)

\* A reading that comes holds all that last and what lasted until now.
LEMMA AddedIsHeld ==
  ASSUME NEW u \in Seq(Sample), NEW s \in Seq(Sample), NEW idx, KeptBy(idx, s, u),
         NEW sample \in Sample, InTime(u), u # <<>> => u[Len(u)].at <= sample.at,
         NEW w, w = Append(u, sample), NEW more, more = AddedTo(s, sample)
  PROVE  HeldWithNew(sample, more, w)
<1> USE DEF HeldWithNew
<1> DEFINE n == Len(u)
           m == Len(s)
<1>1. /\ w \in Seq(Sample) /\ Len(w) = n + 1 /\ w[n + 1] = sample /\ InTime(w)
      /\ \A k \in 1..n : w[k] = u[k]
  <2>1. /\ w \in Seq(Sample) /\ Len(w) = Len(u) + 1 /\ w[Len(u) + 1] = sample
        /\ \A k \in 1..Len(u) : w[k] = u[k]
        /\ InTime(w)
    <3>1. OneMoreRead(u, sample, w)
      BY NewReading, Zenon
    <3> QED BY <3>1 DEF OneMoreRead
  <2> QED BY <2>1
<1>2. Interval \in Nat /\ TrendWindow \in Nat /\ n \in Nat /\ m \in Nat
  BY TrendAssumption
<1>3. /\ idx \in [1..m -> 1..n]
      /\ \A i, j \in 1..m : i < j => idx[i] < idx[j]
      /\ \A i \in 1..m : s[i] = u[idx[i]] /\ LastsIn(u, idx[i])
      /\ \A k \in LastingIn(u) : \E i \in 1..m : idx[i] = k
  BY DEF KeptBy, HeldBy, PickedBy
<1>4. \A k \in 1..n : u[k] \in Sample /\ u[k].at \in Nat
  <2>1. \A k \in 1..n : u[k] \in Sample
    OBVIOUS
  <2> QED BY <2>1 DEF Sample
<1>5. sample.at \in Nat
  BY DEF Sample
<1>6. ASSUME NEW k \in 1..n, k # n PROVE LastsIn(w, k) <=> LastsIn(u, k)
  <2>1. k + 1 \in 1..n /\ k # n + 1
    BY <1>2, <1>6
  <2> QED BY <1>1, <1>6, <2>1 DEF LastsIn
<1>7. ASSUME NEW k \in LastingIn(w), k # n + 1, k # n PROVE k \in LastingIn(u)
  <2>1. k \in 1..n /\ LastsIn(u, k)
    BY <1>1, <1>2, <1>6, <1>7 DEF LastingIn
  <2>2. TrendWindow = 0 \/ w[k].at >= sample.at - TrendWindow
    BY <1>1, <1>7 DEF LastingIn
  <2>3. w[k] = u[k] /\ n \in 1..n /\ u[n].at <= sample.at
    BY <1>1, <1>2, <2>1
  <2>4. u[k].at \in Nat /\ u[n].at \in Nat
    BY <1>4, <2>1, <2>3
  <2>5. TrendWindow = 0 \/ u[k].at >= u[n].at - TrendWindow
    BY <1>2, <1>5, <2>2, <2>3, <2>4
  <2> QED BY <2>1, <2>5 DEF LastingIn
<1>8. CASE s # <<>> /\ Interval > 0 /\ sample.at - s[m].at < Interval
  <2>1. more = [s EXCEPT ![m] = sample]
    BY <1>8 DEF AddedTo
  <2>2. u # <<>> /\ m \in 1..m /\ n \in 1..n
    <3>1. m \in 1..m
      BY <1>2, <1>8
    <3>2. idx[m] \in 1..n
      BY <1>3, <3>1
    <3> QED BY <1>2, <3>1, <3>2
  <2>3. idx[m] = n /\ s[m] = u[n]
    BY <2>2, LastIsKept
  <2>4. more \in Seq(Sample) /\ Len(more) = m /\ more[m] = sample
        /\ \A i \in 1..m : i # m => more[i] = s[i]
    BY <2>1, <2>2
  <2>5. PICK new : new = [idx EXCEPT ![m] = n + 1]
    OBVIOUS
  <2>6. new[m] = n + 1 /\ \A i \in 1..m : i # m => new[i] = idx[i]
    BY <1>3, <2>2, <2>5
  <2>7. \A i \in 1..m : i # m => idx[i] \in 1..n /\ idx[i] # n /\ i < m
    <3>1. ASSUME NEW i \in 1..m, i # m PROVE idx[i] \in 1..n /\ idx[i] # n /\ i < m
      <4>1. i < m
        BY <1>2, <3>1
      <4>2. idx[i] \in 1..n /\ idx[i] < n
        BY <1>3, <2>2, <2>3, <4>1
      <4> QED BY <1>2, <4>1, <4>2
    <3> QED BY <3>1
  <2>8. new \in [1..m -> 1..(n + 1)]
    <3>1. idx \in [1..m -> 1..(n + 1)] /\ n + 1 \in 1..(n + 1)
      BY <1>2, <1>3
    <3> QED BY <2>2, <2>5, <3>1
  <2>9. ASSUME NEW i \in 1..m, NEW j \in 1..m, i < j PROVE new[i] < new[j]
    <3>1. i # m /\ i < m
      BY <1>2, <2>9
    <3>2. idx[i] \in 1..n /\ new[i] = idx[i]
      BY <1>3, <2>6, <3>1
    <3>3. CASE j = m
      BY <1>2, <2>6, <3>2, <3>3
    <3>4. CASE j # m
      BY <1>3, <2>6, <2>9, <3>2, <3>4
    <3> QED BY <3>3, <3>4
  <2>10. ASSUME NEW i \in 1..m PROVE more[i] = w[new[i]] /\ LastsIn(w, new[i])
    <3>1. CASE i = m
      BY <1>1, <2>4, <2>6, <3>1 DEF LastsIn
    <3>2. CASE i # m
      <4>1. idx[i] \in 1..n /\ idx[i] # n /\ new[i] = idx[i] /\ more[i] = s[i]
        BY <2>4, <2>6, <2>7, <3>2
      <4>2. w[idx[i]] = u[idx[i]] /\ LastsIn(w, idx[i])
        BY <1>1, <1>3, <1>6, <4>1
      <4> QED BY <1>3, <4>1, <4>2
    <3> QED BY <3>1, <3>2
  <2>11. PickedBy(new, more, w)
    BY <1>1, <2>4, <2>8, <2>9, <2>10 DEF PickedBy
  <2>12. ASSUME NEW k \in LastingIn(w) PROVE \E i \in 1..m : new[i] = k
    <3>1. CASE k = n + 1
      BY <2>2, <2>6, <3>1
    <3>2. CASE k = n
      <4>1. LastsIn(w, n) /\ n # n + 1 /\ Interval # 0
        BY <1>2, <1>8, <3>2 DEF LastingIn
      <4>2. w[n + 1].at - w[n].at >= Interval
        BY <1>1, <4>1 DEF LastsIn
      <4>3. w[n + 1].at - w[n].at < Interval
        BY <1>1, <1>8, <2>2, <2>3
      <4>4. PICK a, b : a = w[n + 1].at /\ b = w[n].at
        OBVIOUS
      <4>5. a \in Nat /\ b \in Nat
        BY <1>1, <1>4, <1>5, <2>2, <4>4
      <4>6. a - b >= Interval /\ a - b < Interval
        BY <4>2, <4>3, <4>4
      <4> QED BY <1>2, <4>5, <4>6
    <3>3. CASE k # n + 1 /\ k # n
      <4>1. k \in LastingIn(u)
        BY <1>7, <3>3
      <4>2. PICK i \in 1..m : idx[i] = k
        BY <1>3, <4>1
      <4>3. i # m
        BY <2>3, <3>3, <4>2
      <4> QED BY <2>6, <4>2, <4>3
    <3> QED BY <3>1, <3>2, <3>3
  <2>13. HeldBy(new, more, w)
    BY <2>4, <2>11, <2>12 DEF HeldBy
  <2> QED BY <1>2, <2>2, <2>4, <2>13
<1>9. CASE ~ (s # <<>> /\ Interval > 0 /\ sample.at - s[m].at < Interval)
  <2>1. more = Append(s, sample)
    BY <1>9 DEF AddedTo
  <2>2. more \in Seq(Sample) /\ Len(more) = m + 1 /\ more[m + 1] = sample
        /\ \A i \in 1..m : more[i] = s[i]
    BY <2>1
  <2>3. PICK new : new = [i \in 1..(m + 1) |-> IF i = m + 1 THEN n + 1 ELSE idx[i]]
    OBVIOUS
  <2>4. new[m + 1] = n + 1 /\ \A i \in 1..m : new[i] = idx[i] /\ idx[i] \in 1..n
    <3>1. m + 1 \in 1..(m + 1) /\ \A i \in 1..m : i \in 1..(m + 1) /\ i # m + 1
      BY <1>2
    <3>2. \A i \in 1..m : idx[i] \in 1..n
      BY <1>3
    <3> HIDE DEF n, m
    <3> QED BY <2>3, <3>1, <3>2
  <2>5. new \in [1..(m + 1) -> 1..(n + 1)]
    <3>1. ASSUME NEW i \in 1..(m + 1) PROVE new[i] \in 1..(n + 1)
      BY <1>2, <2>4
    <3> QED BY <2>3, <3>1
  <2>6. ASSUME NEW i \in 1..(m + 1), NEW j \in 1..(m + 1), i < j PROVE new[i] < new[j]
    <3>1. i \in 1..m
      BY <1>2, <2>6
    <3>2. CASE j = m + 1
      BY <1>2, <2>4, <3>1, <3>2
    <3>3. CASE j # m + 1
      <4>1. j \in 1..m
        BY <1>2, <3>3
      <4> QED BY <1>3, <2>4, <2>6, <3>1, <4>1
    <3> QED BY <3>2, <3>3
  <2>7. u # <<>> => m \in 1..m /\ idx[m] = n /\ s[m] = u[n] /\ s # <<>>
    BY LastIsKept
  <2>8. ASSUME NEW i \in 1..(m + 1) PROVE more[i] = w[new[i]] /\ LastsIn(w, new[i])
    <3>1. CASE i = m + 1
      BY <1>1, <2>2, <2>4, <3>1 DEF LastsIn
    <3>2. CASE i # m + 1
      <4>1. i \in 1..m
        BY <1>2, <3>2
      <4>2. idx[i] \in 1..n /\ new[i] = idx[i] /\ more[i] = s[i] /\ w[idx[i]] = u[idx[i]]
        BY <1>1, <2>2, <2>4, <4>1
      <4>3. LastsIn(w, idx[i])
        <5>1. CASE idx[i] # n
          BY <1>3, <1>6, <4>1, <4>2, <5>1
        <5>2. CASE idx[i] = n
          <6>1. u # <<>>
            BY <1>2, <4>2
          <6>2. Interval = 0 \/ sample.at - u[n].at >= Interval
            <7>1. s[m].at = u[n].at /\ u[n].at \in Nat
              BY <1>4, <2>7, <4>2, <5>2, <6>1
            <7>2. Interval = 0 \/ ~ (sample.at - u[n].at < Interval)
              BY <1>2, <1>9, <2>7, <6>1, <7>1
            <7> QED BY <1>2, <1>5, <7>1, <7>2
          <6>3. w[n + 1] = sample /\ w[n] = u[n]
            BY <1>1, <4>2, <5>2
          <6> QED BY <5>2, <6>2, <6>3 DEF LastsIn
        <5> QED BY <5>1, <5>2
      <4> QED BY <1>3, <4>1, <4>2, <4>3
    <3> QED BY <3>1, <3>2
  <2>9. PickedBy(new, more, w)
    BY <1>1, <2>2, <2>5, <2>6, <2>8 DEF PickedBy
  <2>10. ASSUME NEW k \in LastingIn(w) PROVE \E i \in 1..(m + 1) : new[i] = k
    <3>1. CASE k = n + 1
      BY <1>2, <2>4, <3>1
    <3>2. CASE k = n
      <4>1. n \in 1..n /\ u # <<>>
        BY <1>1, <1>2, <3>2 DEF LastingIn
      <4>2. m \in 1..m /\ new[m] = n /\ m \in 1..(m + 1)
        BY <1>2, <2>4, <2>7, <4>1
      <4> QED BY <3>2, <4>2
    <3>3. CASE k # n + 1 /\ k # n
      <4>1. PICK i \in 1..m : idx[i] = k
        BY <1>3, <1>7, <3>3
      <4> QED BY <1>2, <2>4, <4>1
    <3> QED BY <3>1, <3>2, <3>3
  <2>11. HeldBy(new, more, w)
    BY <2>2, <2>9, <2>10 DEF HeldBy
  <2> QED BY <1>2, <2>2, <2>11
<1> QED BY <1>8, <1>9

\* pruneLocked leaves those that the window has.
LEMMA PrunedIsKept ==
  ASSUME NEW s \in Seq(Sample), s # <<>>, NEW u \in Seq(Sample), u # <<>>, InTime(u),
         u[Len(u)].at = trendTime, s[Len(s)].at = trendTime,
         NEW idx, HeldBy(idx, s, u), Apart(s), NEW kept, kept = Pruned(s)
  PROVE  kept \in Seq(Sample) /\ (\E new : KeptBy(new, kept, u)) /\ Apart(kept)
<1> DEFINE cutoff == trendTime - TrendWindow
           keep == {i \in 1..Len(s) : s[i].at >= cutoff}
           a == Min(keep)
<1>1. /\ idx \in [1..Len(s) -> 1..Len(u)]
      /\ \A i, j \in 1..Len(s) : i < j => idx[i] < idx[j]
      /\ \A i \in 1..Len(s) : s[i] = u[idx[i]] /\ LastsIn(u, idx[i])
      /\ \A k \in LastingIn(u) : \E i \in 1..Len(s) : idx[i] = k
  BY DEF HeldBy, PickedBy
<1>2. Len(s) \in Nat \ {0} /\ TrendWindow \in Nat /\ Interval \in Nat
  BY TrendAssumption
<1>3. \A i \in 1..Len(s) : s[i].at \in Nat
  <2>1. \A i \in 1..Len(s) : s[i] \in Sample
    OBVIOUS
  <2> QED BY <2>1 DEF Sample
<1>4. CASE TrendWindow = 0
  <2>1. kept = s
    BY <1>4 DEF Pruned
  <2>2. \A i \in 1..Len(s) : idx[i] \in LastingIn(u)
    BY <1>1, <1>4 DEF LastingIn
  <2> QED BY <2>1, <2>2 DEF KeptBy
<1>5. CASE TrendWindow # 0
  <2>1. keep \in SUBSET Nat /\ Len(s) \in keep
    BY <1>2, <1>3
  <2>2. a \in keep /\ \A k \in keep : a <= k
    <3> HIDE DEF keep
    <3> QED BY <2>1, LeastOfNats
  <2>3. kept = SubSeq(s, a, Len(s))
    BY <1>5 DEF Pruned
  <2> HIDE DEF a
  <2>4. a \in 1..Len(s)
    BY <2>2
  <2> DEFINE n == Len(s) - a + 1
  <2>5. /\ kept \in Seq(Sample) /\ Len(kept) = n /\ n \in Nat
        /\ \A i \in 1..n : i + a - 1 \in 1..Len(s) /\ i + a - 1 >= a /\ kept[i] = s[i + a - 1]
    BY <1>2, <2>3, <2>4
  <2>6. \A i \in 1..Len(s) : i >= a => s[i].at >= cutoff
    <3>1. ASSUME NEW i \in 1..Len(s), i >= a PROVE s[i].at >= cutoff
      <4>1. s[i].at - s[a].at >= (i - a) * Interval
        BY <2>4, <3>1 DEF Apart
      <4>2. (i - a) * Interval >= 0
        BY <1>2, <2>4, <3>1
      <4>3. s[a].at >= cutoff /\ cutoff \in Int
        BY <1>2, <1>3, <2>1, <2>2
      <4> HIDE DEF cutoff
      <4>4. (i - a) * Interval \in Int
        BY <1>2, <2>4
      <4> QED BY <1>3, <2>4, <4>1, <4>2, <4>3, <4>4
    <3> QED BY <3>1
  <2> HIDE DEF n, keep, cutoff
  <2>7. PICK new : new = [i \in 1..n |-> idx[i + a - 1]]
    OBVIOUS
  <2>8. new \in [1..n -> 1..Len(u)] /\ \A i \in 1..n : new[i] = idx[i + a - 1]
    BY <1>1, <2>5, <2>7
  <2>9. ASSUME NEW i \in 1..n, NEW j \in 1..n, i < j PROVE new[i] < new[j]
    <3>1. i + a - 1 < j + a - 1 /\ i + a - 1 \in 1..Len(s) /\ j + a - 1 \in 1..Len(s)
      BY <2>4, <2>5, <2>9
    <3> QED BY <1>1, <2>8, <3>1
  <2>10. ASSUME NEW i \in 1..n PROVE kept[i] = u[new[i]] /\ LastsIn(u, new[i])
    BY <1>1, <2>5, <2>8
  <2>11. PickedBy(new, kept, u)
    BY <2>5, <2>8, <2>9, <2>10 DEF PickedBy
  <2>12. ASSUME NEW k \in LastingIn(u) PROVE \E i \in 1..n : new[i] = k
    <3>1. PICK j \in 1..Len(s) : idx[j] = k
      BY <1>1
    <3>2. u[k].at >= cutoff
      BY <1>5 DEF LastingIn, cutoff
    <3>3. j \in keep
      BY <1>1, <3>1, <3>2 DEF keep
    <3>4. j >= a
      BY <2>2, <2>4, <3>3
    <3>5. j - a + 1 \in 1..n /\ (j - a + 1) + a - 1 = j
      BY <1>2, <2>4, <3>4 DEF n
    <3> QED BY <2>8, <3>1, <3>5
  <2>13. ASSUME NEW i \in 1..n PROVE new[i] \in LastingIn(u)
    <3>1. new[i] \in 1..Len(u) /\ LastsIn(u, new[i]) /\ u[new[i]] = kept[i]
      BY <2>8, <2>10
    <3>2. kept[i].at >= cutoff
      BY <2>5, <2>6
    <3> QED BY <3>1, <3>2 DEF LastingIn, cutoff
  <2>14. KeptBy(new, kept, u)
    BY <2>5, <2>11, <2>12, <2>13 DEF KeptBy, HeldBy
  <2>15. Apart(kept)
    <3> SUFFICES ASSUME NEW i \in 1..n, NEW j \in 1..n, i <= j
                 PROVE  kept[j].at - kept[i].at >= (j - i) * Interval
      BY <2>5 DEF Apart
    <3>1. i + a - 1 <= j + a - 1 /\ (j + a - 1) - (i + a - 1) = j - i
      BY <2>4, <2>5
    <3>2. s[j + a - 1].at - s[i + a - 1].at >= ((j + a - 1) - (i + a - 1)) * Interval
      BY <2>5, <3>1 DEF Apart
    <3> QED BY <2>5, <3>1, <3>2
  <2> QED BY <2>5, <2>14, <2>15
<1> QED BY <1>4, <1>5

\* addSampleLocked leaves the samples an interval apart.
LEMMA AddedIsApart ==
  ASSUME NEW s \in Seq(Sample), Apart(s), NEW sample \in Sample,
         s # <<>> => s[Len(s)].at <= sample.at, NEW more, more = AddedTo(s, sample)
  PROVE  Apart(more)
<1>1. Len(s) \in Nat /\ Interval \in Nat /\ sample.at \in Nat
  BY TrendAssumption DEF Sample
<1>2. \A i \in 1..Len(s) : s[i].at \in Nat
  <2>1. \A i \in 1..Len(s) : s[i] \in Sample
    OBVIOUS
  <2> QED BY <2>1 DEF Sample
<1>3. CASE s # <<>> /\ Interval > 0 /\ sample.at - s[Len(s)].at < Interval
  <2>1. more = [s EXCEPT ![Len(s)] = sample]
    BY <1>3 DEF AddedTo
  <2>2. PICK m \in Nat : m = Len(s)
    BY <1>1
  <2>3. Len(more) = m /\ more[m] = sample /\ m \in 1..m
        /\ \A i \in 1..m : i # m => more[i] = s[i]
    BY <1>3, <2>1, <2>2
  <2> SUFFICES ASSUME NEW i \in 1..m, NEW j \in 1..m, i <= j
               PROVE  more[j].at - more[i].at >= (j - i) * Interval
    BY <2>3 DEF Apart
  <2>4. (j - i) * Interval \in Int /\ s[j].at - s[i].at >= (j - i) * Interval
        /\ s[i].at \in Nat /\ s[j].at \in Nat
    BY <1>1, <1>2, <2>2 DEF Apart
  <2>5. CASE j # m
    BY <2>2, <2>3, <2>4, <2>5
  <2>6. CASE j = m /\ i # m
    <3>1. more[j] = sample /\ more[i] = s[i] /\ s[j].at <= sample.at
      BY <1>3, <2>2, <2>3, <2>6
    <3>2. PICK p, q, t : p = s[j].at /\ q = s[i].at /\ t = (j - i) * Interval
      OBVIOUS
    <3>3. p \in Nat /\ q \in Nat /\ t \in Int /\ p - q >= t /\ p <= sample.at
      BY <2>4, <3>1, <3>2
    <3>4. sample.at - q >= t
      BY <1>1, <3>3
    <3> QED BY <3>1, <3>2, <3>4
  <2>7. CASE j = m /\ i = m
    <3>1. (j - i) * Interval = 0 /\ more[j].at - more[i].at = 0
      BY <1>1, <2>3, <2>7
    <3> QED BY <3>1
  <2> QED BY <2>5, <2>6, <2>7
<1>4. CASE ~ (s # <<>> /\ Interval > 0 /\ sample.at - s[Len(s)].at < Interval)
  <2>1. more = Append(s, sample)
    BY <1>4 DEF AddedTo
  <2>2. PICK m \in Nat : m = Len(s)
    BY <1>1
  <2>3. Len(more) = m + 1 /\ more[m + 1] = sample /\ \A i \in 1..m : more[i] = s[i]
    BY <2>1, <2>2
  <2> SUFFICES ASSUME NEW i \in 1..(m + 1), NEW j \in 1..(m + 1), i <= j
               PROVE  more[j].at - more[i].at >= (j - i) * Interval
    BY <2>3 DEF Apart
  <2>4. CASE j # m + 1
    <3>1. i \in 1..m /\ j \in 1..m
      BY <2>4
    <3>2. s[j].at - s[i].at >= (j - i) * Interval
      BY <2>2, <3>1 DEF Apart
    <3> QED BY <2>3, <3>1, <3>2
  <2>5. CASE j = m + 1 /\ i # m + 1
    <3>1. i \in 1..m /\ m \in 1..m /\ s # <<>>
      BY <2>2, <2>5
    <3>2. PICK p, q, t : p = s[m].at /\ q = s[i].at /\ t = (m - i) * Interval
      OBVIOUS
    <3>3. p - q >= t
      BY <2>2, <3>1, <3>2 DEF Apart
    <3>4. p \in Nat /\ q \in Nat /\ t \in Int /\ p <= sample.at
      BY <1>1, <1>2, <2>2, <3>1, <3>2
    <3>5. Interval = 0 \/ sample.at - p >= Interval
      BY <1>1, <1>4, <2>2, <3>1, <3>2, <3>4
    <3>6. (j - i) * Interval = t + Interval
      BY <1>1, <2>5, <3>2
    <3>7. more[j].at = sample.at /\ more[i].at = q
      BY <2>3, <2>5, <3>1, <3>2
    <3> QED BY <1>1, <3>3, <3>4, <3>5, <3>6, <3>7
  <2>6. CASE j = m + 1 /\ i = m + 1
    <3>1. (j - i) * Interval = 0 /\ more[j].at - more[i].at = 0
      BY <1>1, <2>3, <2>6
    <3> QED BY <3>1
  <2> QED BY <2>4, <2>5, <2>6
<1> QED BY <1>3, <1>4

\* Every variable holds a value of its kind.
TrendKinds ==
  /\ trendTime \in Nat /\ metric \subseteq Values
  /\ readOf \in [TrendReaders -> SUBSET Values]
  /\ samples \in Seq(Sample) /\ used \in Seq(Sample)

\* What the samples are, and the verdict that the last reading came to.
SamplesHold ==
  /\ InTime(used) /\ (used # <<>> => used[Len(used)].at <= trendTime)
  /\ \E idx : KeptBy(idx, samples, used)
  /\ Apart(samples)

\* The status is the verdict on the samples, unless the metric was not there.
TrendTold == used # <<>> /\ trend # "down" => trend = TrendOf(samples)

\* The inductive invariant.
TrendInv == TrendKinds /\ SamplesHold /\ TrendTold

LEMMA TrendStart == TrendInit => TrendInv
<1> SUFFICES ASSUME TrendInit PROVE TrendInv
  OBVIOUS
<1>1. samples = <<>> /\ used = <<>> /\ Len(used) = 0 /\ Len(samples) = 0 /\ 1..Len(used) = {}
  BY DEF TrendInit
<1>2. KeptBy(<<>>, samples, used)
  BY <1>1 DEF KeptBy, HeldBy, PickedBy, LastingIn
<1>3. SamplesHold /\ TrendTold
  BY <1>1, <1>2 DEF SamplesHold, InTime, Apart, TrendTold
<1>4. TrendKinds
  BY <1>1 DEF TrendKinds, TrendInit
<1> QED BY <1>3, <1>4 DEF TrendInv

\* current, once it has the lock.
LEMMA UsingKeeps ==
  ASSUME TrendInv, NEW r \in TrendReaders, UseReading(r)
  PROVE  TrendInv'
<1>1. PICK v \in readOf[r] :
        /\ samples' = Pruned(SampleAdded(v)) /\ trend' = TrendOf(Pruned(SampleAdded(v)))
        /\ used' = Append(used, [at |-> trendTime, value |-> v])
        /\ readOf' = [readOf EXCEPT ![r] = {}]
        /\ UNCHANGED <<trendTime, metric, readings>>
  BY Zenon DEF UseReading
<1>2. PICK sample : sample = [at |-> trendTime, value |-> v]
  OBVIOUS
<1>3. PICK more, kept, u, s, w :
         more = SampleAdded(v) /\ kept = Pruned(more) /\ u = used /\ s = samples /\ w = Append(used, sample)
  OBVIOUS
<1>4. sample \in Sample /\ sample.at = trendTime
  BY <1>2 DEF TrendInv, TrendKinds, Sample
<1>5. more = AddedTo(s, sample)
  BY <1>2, <1>3 DEF SampleAdded, AddedTo, LastOf
<1>6. u \in Seq(Sample) /\ s \in Seq(Sample) /\ InTime(u) /\ Apart(s)
      /\ (u # <<>> => u[Len(u)].at <= sample.at)
  BY <1>3, <1>4 DEF TrendInv, TrendKinds, SamplesHold
<1>7. PICK idx : KeptBy(idx, s, u)
  BY <1>3 DEF TrendInv, SamplesHold
<1>8. /\ more \in Seq(Sample) /\ Len(more) \in Nat \ {0} /\ more[Len(more)] = sample
      /\ \E new : HeldBy(new, more, w)
  <2>1. HeldWithNew(sample, more, w)
    BY <1>3, <1>4, <1>5, <1>6, <1>7, AddedIsHeld, Zenon
  <2> QED BY <2>1 DEF HeldWithNew
<1>9. /\ w \in Seq(Sample) /\ Len(w) = Len(u) + 1 /\ w[Len(u) + 1] = sample
      /\ InTime(w)
  <2>1. OneMoreRead(u, sample, w)
    BY <1>3, <1>4, <1>6, NewReading, Zenon
  <2> QED BY <2>1 DEF OneMoreRead
<1>10. s # <<>> => s[Len(s)].at <= sample.at
  <2> SUFFICES ASSUME s # <<>> PROVE s[Len(s)].at <= sample.at
    OBVIOUS
  <2>1. Len(s) \in 1..Len(s)
    BY <1>6
  <2>2. idx[Len(s)] \in 1..Len(u)
    BY <1>7, <2>1 DEF KeptBy, HeldBy, PickedBy
  <2>3. u # <<>>
    BY <2>2
  <2> QED BY <1>6, <1>7, <2>3, LastIsKept
<1>11. Apart(more)
  BY <1>4, <1>5, <1>6, <1>10, AddedIsApart
<1>12. PICK new : HeldBy(new, more, w)
  BY <1>8
<1>13. more # <<>> /\ w # <<>> /\ w[Len(w)] = sample
  BY <1>6, <1>8, <1>9
<1>14. kept \in Seq(Sample) /\ (\E x : KeptBy(x, kept, w)) /\ Apart(kept)
  BY <1>3, <1>4, <1>8, <1>9, <1>11, <1>12, <1>13, PrunedIsKept
<1>15. samples' = kept /\ trend' = TrendOf(kept) /\ used' = w /\ trendTime' = trendTime
  BY <1>1, <1>2, <1>3
<1>16. TrendKinds'
  BY <1>1, <1>9, <1>14, <1>15 DEF TrendInv, TrendKinds
<1>17. SamplesHold'
  <2>1. used'[Len(used')].at <= trendTime
    BY <1>4, <1>13, <1>15 DEF TrendInv, TrendKinds
  <2> QED BY <1>9, <1>14, <1>15, <2>1 DEF SamplesHold
<1>18. TrendTold'
  BY <1>15 DEF TrendTold, TrendOf, Growth, Elapsed, LastOf
<1> QED BY <1>16, <1>17, <1>18 DEF TrendInv

LEMMA TrendStep == TrendInv /\ [TrendNext]_trendVars => TrendInv'
<1> SUFFICES ASSUME TrendInv, [TrendNext]_trendVars PROVE TrendInv'
  OBVIOUS
<1>1. ASSUME NEW r \in TrendReaders, UseReading(r) PROVE TrendInv'
  BY <1>1, UsingKeeps
<1>2. ASSUME UNCHANGED <<samples, used>>, trendTime' \in Nat, trendTime' >= trendTime,
             metric' \subseteq Values, readOf' \in [TrendReaders -> SUBSET Values],
             trend' = trend \/ trend' = "down"
      PROVE  TrendInv'
  <2>1. TrendKinds'
    BY <1>2 DEF TrendInv, TrendKinds
  <2>2. used # <<>> => used[Len(used)].at <= trendTime'
    <3> SUFFICES ASSUME used # <<>> PROVE used[Len(used)].at <= trendTime'
      OBVIOUS
    <3>1. used[Len(used)] \in Sample
      BY DEF TrendInv, TrendKinds
    <3>2. used[Len(used)].at \in Nat /\ trendTime \in Nat /\ used[Len(used)].at <= trendTime
      BY <3>1 DEF TrendInv, TrendKinds, SamplesHold, Sample
    <3> QED BY <1>2, <3>2
  <2>3. SamplesHold'
    BY <1>2, <2>2 DEF TrendInv, SamplesHold
  <2>4. TrendTold'
    BY <1>2 DEF TrendInv, TrendTold, TrendOf, Growth, Elapsed, LastOf
  <2> QED BY <2>1, <2>3, <2>4 DEF TrendInv
<1>3. CASE \E m \in {{}} \cup {{v} : v \in Values} : MetricMoves(m)
  BY <1>2, <1>3 DEF MetricMoves, TrendInv, TrendKinds
<1>4. CASE \E r \in TrendReaders : ReadMetric(r)
  BY <1>2, <1>4 DEF ReadMetric, TrendInv, TrendKinds
<1>5. CASE TrendTick
  BY <1>2, <1>5 DEF TrendTick, TrendInv, TrendKinds
<1>6. CASE UNCHANGED trendVars
  BY <1>2, <1>6 DEF trendVars, TrendInv, TrendKinds
<1> QED BY <1>1, <1>3, <1>4, <1>5, <1>6 DEF TrendNext


\* A set that an increasing function counts has as many elements.
LEMMA CountedUp ==
  ASSUME NEW n \in Nat, NEW T, NEW f \in [1..n -> T],
         \A i, j \in 1..n : i < j => f[i] # f[j],
         \A x \in T : \E i \in 1..n : f[i] = x
  PROVE  IsFiniteSet(T) /\ Cardinality(T) = n
<1>1. \A i, j \in 1..n : f[i] = f[j] => i = j
  OBVIOUS
<1>2. f \in Injection(1..n, T)
  BY <1>1 DEF Injection, IsInjective
<1>3. f \in Surjection(1..n, T)
  BY DEF Surjection
<1>4. ExistsBijection(1..n, T)
  BY <1>2, <1>3 DEF Bijection, ExistsBijection
<1>5. IsFiniteSet(1..n) /\ Cardinality(1..n) = n
  <2>1. 1 \in Int /\ n \in Int /\ (IF 1 > n THEN 0 ELSE n - 1 + 1) = n
    OBVIOUS
  <2> QED BY <2>1, FS_Interval
<1> QED BY <1>4, <1>5, FS_Bijection

\* The samples are the readings that lasted, and fit the window.
LEMMA SamplesAnswer == ASSUME TrendInv PROVE SamplesAreRight
<1> SUFFICES ASSUME used # <<>>
             PROVE  /\ Len(samples) = Cardinality(Lasting)
                    /\ \A k \in Lasting : samples[Cardinality({j \in Lasting : j <= k})] = used[k]
                    /\ Interval > 0 /\ TrendWindow > 0 => Len(samples) <= TrendWindow \div Interval + 1
  BY DEF SamplesAreRight
<1>1. samples \in Seq(Sample) /\ used \in Seq(Sample) /\ Apart(samples)
  BY DEF TrendInv, TrendKinds, SamplesHold
<1>2. PICK idx : KeptBy(idx, samples, used)
  BY DEF TrendInv, SamplesHold
<1>3. Lasting = LastingIn(used)
  BY DEF Lasting, LastingIn, LastsIn, LastOf
<1>4. PICK m \in Nat : m = Len(samples)
  BY <1>1
<1>5. /\ idx \in [1..m -> Lasting] /\ Lasting \subseteq 1..Len(used)
      /\ \A i, j \in 1..m : i < j => idx[i] < idx[j]
      /\ \A k \in Lasting : \E i \in 1..m : idx[i] = k
      /\ \A i \in 1..m : samples[i] = used[idx[i]]
  BY <1>2, <1>3, <1>4 DEF KeptBy, HeldBy, PickedBy, LastingIn
<1>6. \A i \in 1..m : idx[i] \in Nat
  <2>1. ASSUME NEW i \in 1..m PROVE idx[i] \in Nat
    <3>1. idx[i] \in 1..Len(used)
      BY <1>5
    <3> QED BY <1>1, <3>1
  <2> QED BY <2>1
<1>7. IsFiniteSet(Lasting) /\ Cardinality(Lasting) = m
  <2>1. \A i, j \in 1..m : i < j => idx[i] # idx[j]
    BY <1>5, <1>6
  <2> QED BY <1>5, <2>1, CountedUp
<1>8. ASSUME NEW k \in Lasting PROVE samples[Cardinality({j \in Lasting : j <= k})] = used[k]
  <2>1. PICK n \in 1..m : idx[n] = k
    BY <1>5
  <2> DEFINE T == {j \in Lasting : j <= k}
  <2>2. PICK f : f = [i \in 1..n |-> idx[i]]
    OBVIOUS
  <2>3. n \in Nat /\ \A i \in 1..n : i \in 1..m /\ f[i] = idx[i]
    BY <2>2
  <2>4. f \in [1..n -> T]
    <3>1. ASSUME NEW i \in 1..n PROVE f[i] \in T
      <4>1. idx[i] \in Lasting /\ (i = n \/ idx[i] < idx[n]) /\ idx[i] \in Nat /\ idx[n] \in Nat
        BY <1>5, <1>6, <2>3
      <4> QED BY <2>1, <2>3, <4>1
    <3> QED BY <2>2, <3>1
  <2>5. \A i, j \in 1..n : i < j => f[i] # f[j]
    BY <1>5, <1>6, <2>3
  <2>6. ASSUME NEW x \in T PROVE \E i \in 1..n : f[i] = x
    <3>1. PICK i \in 1..m : idx[i] = x
      BY <1>5
    <3>2. ~ (n < i)
      <4>1. x <= k /\ x \in Nat /\ k \in Nat
        BY <1>6, <2>1, <3>1
      <4> QED BY <1>5, <2>1, <3>1, <4>1
    <3>3. i \in 1..n
      BY <2>3, <3>2
    <3> QED BY <2>3, <3>1, <3>3
  <2> HIDE DEF T
  <2>7. Cardinality(T) = n
    BY <2>3, <2>4, <2>5, <2>6, CountedUp
  <2> QED BY <1>5, <2>1, <2>7 DEF T
<1>9. ASSUME Interval > 0, TrendWindow > 0 PROVE Len(samples) <= TrendWindow \div Interval + 1
  <2>1. m \in 1..m /\ 1 \in 1..m /\ idx[m] = Len(used) /\ samples[m] = used[Len(used)]
    <3>1. samples # <<>> /\ idx[m] = Len(used) /\ samples[m] = used[Len(used)]
      BY <1>1, <1>2, <1>4, LastIsKept
    <3> QED BY <1>1, <1>4, <3>1
  <2>2. samples[1] = used[idx[1]] /\ idx[1] \in LastingIn(used)
    BY <1>3, <1>5, <2>1
  <2>3. samples[1].at >= samples[m].at - TrendWindow
    BY <1>9, <2>1, <2>2 DEF LastingIn
  <2>4. samples[m].at - samples[1].at >= (m - 1) * Interval
    BY <1>4, <2>1 DEF Apart, TrendInv, SamplesHold
  <2>5. samples[1].at \in Nat /\ samples[m].at \in Nat
    <3>1. samples[1] \in Sample /\ samples[m] \in Sample
      BY <1>1, <1>4, <2>1
    <3> QED BY <3>1 DEF Sample
  <2>6. Interval \in Nat /\ TrendWindow \in Nat /\ m - 1 \in Nat
    BY <2>1, TrendAssumption
  <2>7. (m - 1) * Interval <= TrendWindow
    <3>1. PICK p, q, t : p = samples[m].at /\ q = samples[1].at /\ t = (m - 1) * Interval
      OBVIOUS
    <3>2. p - q >= t /\ q >= p - TrendWindow /\ p \in Nat /\ q \in Nat /\ t \in Int
      BY <2>3, <2>4, <2>5, <2>6, <3>1
    <3>3. t <= TrendWindow
      BY <2>6, <3>2
    <3> QED BY <3>1, <3>3
  <2>8. PICK d : d = m - 1
    OBVIOUS
  <2>9. d <= TrendWindow \div Interval
    BY <1>9, <2>6, <2>7, <2>8
  <2>10. TrendWindow \div Interval \in Int
    BY <1>9, <2>6
  <2> QED BY <1>4, <2>8, <2>9, <2>10
<1> QED BY <1>4, <1>7, <1>8, <1>9

LEMMA MaxOfTwo ==
  ASSUME NEW a \in Int, NEW b \in Int
  PROVE  Max({a, b}) = IF a >= b THEN a ELSE b
<1> DEFINE x == IF a >= b THEN a ELSE b
<1>1. {a, b} \in SUBSET Int /\ x \in {a, b} /\ \A k \in {a, b} : k <= x
  OBVIOUS
<1> HIDE DEF x
<1>2. Max({a, b}) = x
  BY <1>1, GreatestIsMax
<1> QED BY <1>2 DEF x

\* The verdict on the samples is the one on the readings that lasted.
LEMMA TrendAnswers == ASSUME TrendInv PROVE TrendIsSeen
<1> DEFINE first == used[Min(Lasting)]
           seconds == LastOf(used).at - first.at
<1> SUFFICES ASSUME used # <<>>, trend # "down"
             PROVE  (trend = "bad") <=>
                      /\ Cardinality(Lasting) >= Max({2, TrendSamples})
                      /\ LastOf(used).value - first.value >= Max({1, GrowthAt * seconds})
                      /\ seconds > 0
  BY Zenon DEF TrendIsSeen
<1>1. samples \in Seq(Sample) /\ used \in Seq(Sample)
  BY DEF TrendInv, TrendKinds
<1>2. PICK idx : KeptBy(idx, samples, used)
  BY DEF TrendInv, SamplesHold
<1>3. Lasting = LastingIn(used)
  BY DEF Lasting, LastingIn, LastsIn, LastOf
<1>4. samples # <<>> /\ Len(samples) \in Nat \ {0} /\ samples[Len(samples)] = used[Len(used)]
  BY <1>1, <1>2, LastIsKept
<1>5. 1 \in 1..Len(samples) /\ idx[1] \in Lasting /\ samples[1] = used[idx[1]]
  BY <1>2, <1>3, <1>4 DEF KeptBy, HeldBy, PickedBy
<1>6. Min(Lasting) = idx[1]
  <2>1. Lasting \in SUBSET Int
    BY <1>1, <1>3 DEF LastingIn
  <2>2. ASSUME NEW k \in Lasting PROVE idx[1] <= k
    <3>1. PICK i \in 1..Len(samples) : idx[i] = k
      BY <1>2, <1>3 DEF KeptBy, HeldBy
    <3>2. i = 1 \/ idx[1] < idx[i]
      BY <1>2, <1>4, <1>5 DEF KeptBy, HeldBy, PickedBy
    <3>3. idx[1] \in Int /\ k \in Int
      BY <1>5, <2>1
    <3> QED BY <3>1, <3>2, <3>3
  <2> QED BY <1>5, <2>1, <2>2, LeastIsMin
<1>7. first = samples[1] /\ LastOf(used) = LastOf(samples)
  BY <1>4, <1>5, <1>6 DEF LastOf
<1>8. Cardinality(Lasting) = Len(samples)
  BY SamplesAnswer DEF SamplesAreRight
<1> DEFINE g == Growth(samples)
           e == Elapsed(samples)
<1>9. g \in Int /\ e \in Int
  <2>1. samples[1] \in Sample /\ LastOf(samples) \in Sample
    BY <1>1, <1>4, <1>5 DEF LastOf
  <2>2. \A x \in Sample : x.at \in Int /\ x.value \in Int
    <3>1. \A v \in Values : v \in Int
      BY TrendAssumption
    <3> QED BY <3>1 DEF Sample
  <2> QED BY <2>1, <2>2 DEF Growth, Elapsed
<1>10. LastOf(used).value - first.value = g /\ seconds = e
  BY <1>7 DEF Growth, Elapsed
<1>11. trend = TrendOf(samples)
  BY DEF TrendInv, TrendTold
<1>12. (trend = "bad") <=>
         /\ Len(samples) >= Max({2, TrendSamples}) /\ g > 0 /\ e > 0
         /\ g >= GrowthAt * e
  BY <1>11 DEF TrendOf
<1> HIDE DEF g, e
<1>13. GrowthAt * e \in Int
  BY <1>9, TrendAssumption
<1>14. g >= Max({1, GrowthAt * e}) <=> g > 0 /\ g >= GrowthAt * e
  BY <1>9, <1>13, MaxOfTwo
<1> HIDE DEF seconds, first
<1> QED BY <1>8, <1>10, <1>12, <1>14

\* No sample is of the future.
LEMMA SamplesTyped ==
  ASSUME TrendInv, NEW i \in 1..Len(samples)
  PROVE  samples[i] \in [at : 0..trendTime, value : Values]
<1>1. samples \in Seq(Sample) /\ used \in Seq(Sample) /\ trendTime \in Nat
  BY DEF TrendInv, TrendKinds
<1>2. PICK idx : KeptBy(idx, samples, used)
  BY DEF TrendInv, SamplesHold
<1>3. idx[i] \in 1..Len(used) /\ samples[i] = used[idx[i]]
  BY <1>2 DEF KeptBy, HeldBy, PickedBy
<1>4. Len(used) \in 1..Len(used) /\ used # <<>>
  BY <1>1, <1>3
<1>5. used[idx[i]].at <= used[Len(used)].at /\ used[Len(used)].at <= trendTime
  BY <1>3, <1>4 DEF TrendInv, SamplesHold, InTime
<1>6. used[idx[i]] \in Sample /\ used[Len(used)] \in Sample
  BY <1>1, <1>3, <1>4
<1>7. used[idx[i]].at \in 0..trendTime
  BY <1>1, <1>5, <1>6 DEF Sample
<1> QED BY <1>3, <1>6, <1>7 DEF Sample

\* What of the types the invariant does not say.
TrendNow ==
  /\ trendTime \in 0..MaxTrendTime /\ trend \in {"pass", "bad", "down"}
  /\ metric = {} \/ \E v \in Values : metric = {v}
  /\ \A r \in TrendReaders : readOf[r] = {} \/ \E v \in Values : readOf[r] = {v}

LEMMA TrendNowStep == TrendInv /\ TrendNow /\ [TrendNext]_trendVars => TrendNow'
<1> SUFFICES ASSUME TrendInv, TrendNow, [TrendNext]_trendVars PROVE TrendNow'
  OBVIOUS
<1>1. trendTime \in 0..MaxTrendTime /\ MaxTrendTime \in Nat /\ readOf = [r \in TrendReaders |-> readOf[r]]
  BY TrendAssumption DEF TrendInv, TrendKinds, TrendNow
<1>2. ASSUME NEW m \in {{}} \cup {{v} : v \in Values}, MetricMoves(m) PROVE TrendNow'
  BY <1>2 DEF MetricMoves, TrendNow
<1>3. ASSUME NEW r \in TrendReaders, ReadMetric(r) PROVE TrendNow'
  BY <1>1, <1>3 DEF ReadMetric, TrendNow
<1>4. ASSUME NEW r \in TrendReaders, UseReading(r) PROVE TrendNow'
  BY <1>1, <1>4 DEF UseReading, TrendOf, TrendNow
<1>5. CASE TrendTick
  BY <1>1, <1>5 DEF TrendTick, TrendNow
<1>6. CASE UNCHANGED trendVars
  BY <1>6 DEF trendVars, TrendNow
<1> QED BY <1>2, <1>3, <1>4, <1>5, <1>6 DEF TrendNext

LEMMA TrendIsTyped == TrendSpec => []TrendTypeOK
<1>1. TrendInit => TrendNow
  BY TrendAssumption DEF TrendInit, TrendNow
<1>2. TrendInv /\ TrendNow => TrendTypeOK
  <2> SUFFICES ASSUME TrendInv, TrendNow PROVE TrendTypeOK
    OBVIOUS
  <2>1. ASSUME NEW r \in TrendReaders PROVE readOf[r] \subseteq Values /\ Cardinality(readOf[r]) <= 1
    <3>1. readOf[r] = {} \/ \E v \in Values : readOf[r] = {v}
      BY DEF TrendNow
    <3> QED BY <3>1, NoneOrOne
  <2>2. metric \subseteq Values
    BY DEF TrendNow
  <2> QED BY <2>1, <2>2, SamplesTyped DEF TrendTypeOK, TrendNow
<1> QED BY <1>1, <1>2, TrendNowStep, TrendStart, TrendStep, PTL DEF TrendSpec

\* However readers overtake each other between reading the metric and taking the lock,
\* the samples are the readings of the window that lasted, no more than fit it, and the
\* trend is told bad exactly for the growth between the first and the last of them
\* (runtime_state.go: addSampleLocked, pruneLocked, current).  For any interval, window
\* and threshold, any number of readers and readings, and whatever the metric does.
THEOREM TrendsAlwaysRight == TrendSpec => []TrendIsRight
<1>1. TrendInv => SamplesAreRight /\ TrendIsSeen
  BY SamplesAnswer, TrendAnswers
<1> QED BY <1>1, TrendStart, TrendStep, TrendIsTyped, PTL DEF TrendSpec, TrendIsRight

-----------------------------------------------------------------------------
(* Buckets, slots and days.                                                 *)

LEMMA ChartNumbers ==
  /\ Window \in Nat /\ Window > 0
  /\ PerDay \in Nat /\ PerDay > 0
  /\ Fineness \in Nat /\ Fineness > 0
  BY ChartAssumption

LEMMA QuotientIs ==
  ASSUME NEW n \in Int, NEW w \in Nat, w > 0
  PROVE  \E q \in Int, r \in 0..(w - 1) : n \div w = q /\ n % w = r /\ n = w * q + r
<1>1. n \div w \in Int /\ n % w \in 0..(w - 1) /\ n = w * (n \div w) + (n % w)
  OBVIOUS
<1> QED BY <1>1

LEMMA MultiplesApart ==
  ASSUME NEW w \in Nat, w > 0, NEW p \in Int, NEW q \in Int, p < q
  PROVE  w * p + w <= w * q
<1>1. PICK d \in Nat : q = p + 1 + d
  <2>1. q - p - 1 \in Nat /\ q = p + 1 + (q - p - 1)
    OBVIOUS
  <2> QED BY <2>1
<1>2. w * q = w * p + w + w * d
  BY <1>1
<1>3. w * d \in Nat /\ w * p \in Int
  OBVIOUS
<1> QED BY <1>2, <1>3

\* Division, by multiples of the divisor.
LEMMA QuotientBetween ==
  ASSUME NEW n \in Int, NEW w \in Nat, w > 0, NEW k \in Int
  PROVE  /\ n \div w \in Int
         /\ n \div w >= k <=> w * k <= n
         /\ n \div w <= k <=> n < w * k + w
<1>1. PICK q \in Int, r \in 0..(w - 1) : n \div w = q /\ n = w * q + r
  BY QuotientIs
<1>2. w * q \in Int /\ w * k \in Int
  OBVIOUS
<1>3. q < k => w * q + w <= w * k
  BY MultiplesApart
<1>4. k < q => w * k + w <= w * q
  BY MultiplesApart
<1>5. q = k => w * q = w * k
  OBVIOUS
<1>6. q < k \/ q = k \/ k < q
  OBVIOUS
<1> QED BY <1>1, <1>2, <1>3, <1>4, <1>5, <1>6

LEMMA SlotTypes ==
  ASSUME NEW t \in Int PROVE Slot(t) \in 0..(Window - 1) /\ Day(t) \in Int
  BY ChartNumbers DEF Slot, Day

\* Two buckets of one slot are a window apart.
LEMMA SameSlot ==
  ASSUME NEW t \in Int, NEW u \in Int, Slot(t) = Slot(u), t < u + Window, u < t + Window
  PROVE  t = u
<1>0. Window \in Nat /\ Window > 0
  BY ChartNumbers
<1>1. PICK p \in Int, r \in 0..(Window - 1) : t % Window = r /\ t = Window * p + r
  BY <1>0, QuotientIs
<1>2. PICK q \in Int, s \in 0..(Window - 1) : u % Window = s /\ u = Window * q + s
  BY <1>0, QuotientIs
<1>3. r = s
  BY <1>1, <1>2 DEF Slot
<1>4. Window * p \in Int /\ Window * q \in Int
  BY <1>0
<1>5. p < q => Window * p + Window <= Window * q
  BY <1>0, MultiplesApart
<1>6. q < p => Window * q + Window <= Window * p
  BY <1>0, MultiplesApart
<1>7. p = q
  BY <1>0, <1>1, <1>2, <1>3, <1>4, <1>5, <1>6
<1> QED BY <1>1, <1>2, <1>3, <1>7

\* A bucket's day ends after the bucket.
LEMMA DayEnds ==
  ASSUME NEW t \in Int PROVE t < (Day(t) + 1) * PerDay
<1>0. PerDay \in Nat /\ PerDay > 0
  BY ChartNumbers
<1>1. PICK q \in Int, r \in 0..(PerDay - 1) : t \div PerDay = q /\ t = PerDay * q + r
  BY <1>0, QuotientIs
<1>2. (q + 1) * PerDay = PerDay * q + PerDay
  BY <1>0
<1>3. PerDay * q \in Int
  BY <1>0
<1> QED BY <1>0, <1>1, <1>2, <1>3 DEF Day

-----------------------------------------------------------------------------
(* Folds over finite sets, from the greatest member down.                   *)

\* A set of subsets that has {} and, with a set less one member, the set.
LEMMA SubsetsGrow ==
  ASSUME NEW D, IsFiniteSet(D), NEW G, {} \in G,
         \A s \in SUBSET D : s # {} /\ (\A x \in s : s \ {x} \in G) => s \in G
  PROVE  D \in G
<1> DEFINE T == {s \in SUBSET D : s \notin G}
<1>1. T \subseteq FiniteSubsetsOf(D)
  BY FS_Subset DEF FiniteSubsetsOf
<1>2. T = {}
  <2> SUFFICES ASSUME T # {} PROVE FALSE
    OBVIOUS
  <2>1. IsWellFoundedOn(StrictSubsetOrdering(D), FiniteSubsetsOf(D))
    BY FS_StrictSubsetOrderingWellFounded
  <2> HIDE DEF T
  <2>2. PICK s \in T : \A r \in T : ~ (<<r, s>> \in StrictSubsetOrdering(D))
    BY <1>1, <2>1, WFMin
  <2> USE DEF T
  <2>3. ASSUME NEW x \in s PROVE s \ {x} \in G
    <3>1. s \in SUBSET D /\ s \ {x} \in SUBSET D /\ s \ {x} # s /\ s \ {x} \subseteq s
      OBVIOUS
    <3>2. <<s \ {x}, s>> \in StrictSubsetOrdering(D)
      BY <3>1 DEF StrictSubsetOrdering
    <3> QED BY <2>2, <3>1, <3>2
  <2> QED BY <2>2, <2>3
<1> QED BY <1>2

\* A line that no other one comes after.
NoneAfter(lines, at) ==
  at \in lines /\ \A before \in lines :
    before[1] < at[1] \/ (before[1] = at[1] /\ before[2] <= at[2])

LEMMA LatestIs ==
  ASSUME NEW lines \in SUBSET (Int \X Int), IsFiniteSet(lines), lines # {}
  PROVE  NoneAfter(lines, Latest(lines))
<1> DEFINE G == {s \in SUBSET lines : s = {} \/ \E at : NoneAfter(s, at)}
<1>1. {} \in G
  OBVIOUS
<1>2. ASSUME NEW s \in SUBSET lines, s # {}, \A x \in s : s \ {x} \in G PROVE s \in G
  <2>1. PICK x \in s : TRUE
    BY <1>2
  <2>2. s \ {x} = {} \/ \E at : NoneAfter(s \ {x}, at)
    BY <1>2, <2>1
  <2>3. \A p \in s : p[1] \in Int /\ p[2] \in Int /\ p = <<p[1], p[2]>>
    OBVIOUS
  <2>4. CASE s \ {x} = {}
    <3>1. NoneAfter(s, x)
      BY <2>3, <2>4 DEF NoneAfter
    <3> QED BY <3>1
  <2>5. ASSUME NEW at, NoneAfter(s \ {x}, at) PROVE s \in G
    <3>1. at \in s /\ at[1] \in Int /\ at[2] \in Int /\ x[1] \in Int /\ x[2] \in Int
      BY <2>3, <2>5 DEF NoneAfter
    <3>2. CASE x[1] < at[1] \/ (x[1] = at[1] /\ x[2] <= at[2])
      <4>1. NoneAfter(s, at)
        BY <2>3, <2>5, <3>1, <3>2 DEF NoneAfter
      <4> QED BY <4>1
    <3>3. CASE at[1] < x[1] \/ (at[1] = x[1] /\ at[2] <= x[2])
      <4>1. \A p \in s : p = x \/ p \in s \ {x}
        OBVIOUS
      <4>2. NoneAfter(s, x)
        BY <2>3, <2>5, <3>1, <3>3, <4>1 DEF NoneAfter
      <4> QED BY <4>2
    <3> QED BY <3>1, <3>2, <3>3
  <2> QED BY <2>2, <2>4, <2>5
<1> HIDE DEF G
<1>3. lines \in G
  BY <1>1, <1>2, SubsetsGrow
<1>4. \E at : NoneAfter(lines, at)
  BY <1>3 DEF G
<1> QED BY <1>4 DEF Latest, NoneAfter

-----------------------------------------------------------------------------
(* Replay.                                                                  *)

EmptyRing == [n \in 0..(Window - 1) |-> Unused]

\* The ring with the last of some lines, given that without it.
WithLatest(files, lines, before) ==
  LET at == Latest(lines)
  IN  Recorded(before[lines \ {at}], files[at[1]][at[2]].t, files[at[1]][at[2]].states)

\* What rings a replay passes through, by the lines that it has come past.
Passes(files, lines, rings) ==
  rings = [s \in SUBSET lines |-> IF s = {} THEN EmptyRing ELSE WithLatest(files, s, rings)]

LEMMA ReplayPasses ==
  ASSUME NEW files, NEW lines \in SUBSET (Int \X Int), IsFiniteSet(lines)
  PROVE  \E rings : Passes(files, lines, rings)
<1> DEFINE G == {s \in SUBSET lines : \E rings : Passes(files, s, rings)}
<1>1. {} \in G
  <2> DEFINE none == [s \in SUBSET {} |-> EmptyRing]
  <2>1. none = [s \in SUBSET {} |-> IF s = {} THEN EmptyRing ELSE WithLatest(files, s, none)]
    OBVIOUS
  <2>2. Passes(files, {}, none)
    BY <2>1, Zenon DEF Passes
  <2> HIDE DEF none
  <2> QED BY <2>2
<1>2. ASSUME NEW s \in SUBSET lines, s # {}, \A x \in s : s \ {x} \in G PROVE s \in G
  <2> DEFINE x == Latest(s)
  <2>1. IsFiniteSet(s) /\ NoneAfter(s, x)
    BY <1>2, FS_Subset, LatestIs
  <2>2. x \in s
    BY <2>1 DEF NoneAfter
  <2> HIDE DEF x
  <2>3. PICK rings : Passes(files, s \ {x}, rings)
    BY <1>2, <2>2
  <2> DEFINE Step(r) == IF r = {} THEN EmptyRing ELSE WithLatest(files, r, rings)
             more == [r \in SUBSET s |-> Step(r)]
  <2>4. \A r \in SUBSET (s \ {x}) : rings[r] = Step(r)
    BY <2>3, Zenon DEF Passes
  <2>5. ASSUME NEW r \in SUBSET s
        PROVE  more[r] = IF r = {} THEN EmptyRing ELSE WithLatest(files, r, more)
    <3>1. CASE r = {}
      BY <3>1
    <3>2. CASE r # {}
      <4> DEFINE y == Latest(r)
      <4>1. IsFiniteSet(r) /\ r \in SUBSET (Int \X Int)
        BY <2>1, FS_Subset
      <4>2. NoneAfter(r, y)
        BY <3>2, <4>1, LatestIs
      <4> HIDE DEF y
      <4>3. x \in r => x = y
        <5> SUFFICES ASSUME x \in r PROVE x = y
          OBVIOUS
        <5>1. /\ y \in s /\ x \in Int \X Int /\ y \in Int \X Int
          BY <2>2, <4>2 DEF NoneAfter
        <5>2. x[1] < y[1] \/ (x[1] = y[1] /\ x[2] <= y[2])
          BY <4>2 DEF NoneAfter
        <5>3. y[1] < x[1] \/ (y[1] = x[1] /\ y[2] <= x[2])
          BY <2>1, <5>1 DEF NoneAfter
        <5>4. x[1] = y[1] /\ x[2] = y[2]
          BY <5>1, <5>2, <5>3
        <5> QED BY <5>1, <5>4
      <4>4. r \ {y} \in SUBSET (s \ {x}) /\ r \ {y} \in SUBSET s
        BY <4>3
      <4>5. more[r \ {y}] = rings[r \ {y}]
        BY <2>4, <4>4
      <4>6. WithLatest(files, r, more) = WithLatest(files, r, rings)
        <5> HIDE DEF more
        <5> QED BY <4>5 DEF WithLatest, y
      <4> QED BY <3>2, <4>6
    <3> QED BY <3>1, <3>2
  <2>6. more = [r \in SUBSET s |-> IF r = {} THEN EmptyRing ELSE WithLatest(files, r, more)]
    <3>1. more = [r \in SUBSET s |-> more[r]]
      OBVIOUS
    <3> HIDE DEF more
    <3> QED BY <2>5, <3>1
  <2> HIDE DEF more
  <2>7. Passes(files, s, more)
    BY <2>6, Zenon DEF Passes
  <2> QED BY <2>7
<1> HIDE DEF G
<1>3. lines \in G
  BY <1>1, <1>2, SubsetsGrow
<1> QED BY <1>3 DEF G

LEMMA ReplayedIs ==
  ASSUME NEW files, Replayable(files) \in SUBSET (Int \X Int), IsFiniteSet(Replayable(files))
  PROVE  \E rings : /\ Passes(files, Replayable(files), rings)
                    /\ Replayed(files) = rings[Replayable(files)]
<1> DEFINE lines == Replayable(files)
           Fits(rings) == rings = [s \in SUBSET lines |-> IF s = {} THEN [n \in 0..(Window - 1) |-> Unused]
                            ELSE LET at == Latest(s) IN Recorded(rings[s \ {at}], files[at[1]][at[2]].t, files[at[1]][at[2]].states)]
           c == CHOOSE rings : Fits(rings)
<1>1. Replayed(files) = c[lines]
  BY DEF Replayed, MapThenFoldSet
<1>2. \A v : Fits(v) <=> Passes(files, lines, v)
  BY DEF Passes, EmptyRing, WithLatest
<1>3. \E v : Passes(files, lines, v)
  BY ReplayPasses
<1> HIDE DEF Fits
<1>4. Fits(c)
  BY <1>2, <1>3, Zenon
<1> QED BY <1>1, <1>2, <1>4

-----------------------------------------------------------------------------
(* Rings.                                                                   *)

\* What may be triggering in a bucket.
Triggering == UNION {[ids -> Statuses] : ids \in SUBSET Identities}

\* A slot holds nothing or a bucket that belongs there.
SlotTyped(ring, n) ==
  \/ ring[n] = Unused
  \/ ring[n].t \in Int /\ Slot(ring[n].t) = n /\ ring[n].states \in Triggering

RingTyped(ring) ==
  /\ DOMAIN ring = 0..(Window - 1)
  /\ \A n \in 0..(Window - 1) : SlotTyped(ring, n)

LEMMA TriggeringIs ==
  ASSUME NEW f
  PROVE  f \in Triggering <=> /\ f = [i \in DOMAIN f |-> f[i]]
                              /\ DOMAIN f \subseteq Identities
                              /\ \A i \in DOMAIN f : f[i] \in Statuses
  BY DEF Triggering

LEMMA NothingTriggers == <<>> \in Triggering /\ DOMAIN <<>> = {}
<1>1. DOMAIN <<>> = {}
  OBVIOUS
<1>2. <<>> = [i \in {} |-> <<>>[i]]
  BY <1>1
<1> QED BY <1>1, <1>2 DEF Triggering

LEMMA MergedTriggering ==
  ASSUME NEW kept \in Triggering, NEW marks \in Triggering
  PROVE  /\ Merged(kept, marks) \in Triggering
         /\ DOMAIN Merged(kept, marks) = DOMAIN marks \cup DOMAIN kept
         /\ \A i \in DOMAIN marks : Merged(kept, marks)[i] = marks[i]
         /\ \A i \in DOMAIN kept \ DOMAIN marks : Merged(kept, marks)[i] = kept[i]
<1>1. /\ DOMAIN kept \subseteq Identities /\ DOMAIN marks \subseteq Identities
      /\ \A i \in DOMAIN kept : kept[i] \in Statuses
      /\ \A i \in DOMAIN marks : marks[i] \in Statuses
  BY TriggeringIs
<1> DEFINE f == Merged(kept, marks)
<1>2. /\ DOMAIN f = DOMAIN marks \cup DOMAIN kept
      /\ f = [i \in DOMAIN f |-> f[i]]
      /\ \A i \in DOMAIN f : f[i] = IF i \in DOMAIN marks THEN marks[i] ELSE kept[i]
  BY DEF Merged
<1>3. f \in Triggering
  <2> HIDE DEF f
  <2> QED BY <1>1, <1>2, TriggeringIs
<1> QED BY <1>2, <1>3

\* What is kept of what its slot holds when a bucket is recorded.
KeptOf(ring, t) == IF ring[Slot(t)].t = t THEN ring[Slot(t)].states ELSE <<>>

Records(new, ring, t, marks) ==
  /\ DOMAIN new = 0..(Window - 1)
  /\ \A n \in 0..(Window - 1) : n # Slot(t) => new[n] = ring[n]
  /\ new[Slot(t)].t = t
  /\ new[Slot(t)].states = Merged(KeptOf(ring, t), marks)

LEMMA RecordedIs ==
  ASSUME NEW ring, DOMAIN ring = 0..(Window - 1), NEW t \in Int, NEW marks
  PROVE  Records(Recorded(ring, t, marks), ring, t, marks)
<1>1. Slot(t) \in DOMAIN ring
  BY SlotTypes
<1> QED BY <1>1 DEF Recorded, Merged, KeptOf, Records

LEMMA KeptTyped ==
  ASSUME NEW ring, RingTyped(ring), NEW t \in Int
  PROVE  KeptOf(ring, t) \in Triggering
<1>1. SlotTyped(ring, Slot(t))
  BY SlotTypes DEF RingTyped
<1>2. CASE ring[Slot(t)] = Unused
  BY <1>2, NothingTriggers DEF KeptOf, Unused
<1>3. CASE ring[Slot(t)] # Unused
  BY <1>1, <1>3, NothingTriggers DEF KeptOf, SlotTyped
<1> QED BY <1>2, <1>3

LEMMA RecordedTyped ==
  ASSUME NEW ring, RingTyped(ring), NEW t \in Int, NEW marks \in Triggering
  PROVE  RingTyped(Recorded(ring, t, marks))
<1> DEFINE new == Recorded(ring, t, marks)
           s == Slot(t)
           kept == KeptOf(ring, t)
<1>1. s \in 0..(Window - 1)
  BY SlotTypes
<1>2. kept \in Triggering
  BY KeptTyped
<1>3. Merged(kept, marks) \in Triggering
  <2> HIDE DEF kept
  <2> QED BY <1>2, MergedTriggering
<1>4. /\ DOMAIN new = 0..(Window - 1)
      /\ \A n \in 0..(Window - 1) : n # s => new[n] = ring[n]
      /\ new[s].t = t /\ new[s].states = Merged(kept, marks)
  <2>1. DOMAIN ring = 0..(Window - 1)
    BY DEF RingTyped
  <2>2. Records(new, ring, t, marks)
    BY <2>1, RecordedIs
  <2> HIDE DEF new, kept
  <2> QED BY <2>2 DEF Records, kept
<1> HIDE DEF new, kept
<1>5. SlotTyped(new, s)
  BY <1>3, <1>4 DEF SlotTyped
<1>6. ASSUME NEW n \in 0..(Window - 1) PROVE SlotTyped(new, n)
  BY <1>4, <1>5, <1>6 DEF RingTyped, SlotTyped
<1> HIDE DEF s
<1>7. RingTyped(new)
  BY <1>4, <1>6 DEF RingTyped
<1> QED BY <1>7 DEF new

-----------------------------------------------------------------------------
(* What a replay shows.                                                     *)

Said(files, at) == files[at[1]][at[2]]

NotAfter(at, before) == before[1] < at[1] \/ (before[1] = at[1] /\ before[2] <= at[2])

\* The lines about the buckets of a slot.
LinesOfSlot(files, lines, n) == {at \in lines : Slot(Said(files, at).t) = n}

\* The bucket with all that the lines say, of each identity what the last one does.
ShowsLines(files, lines, shown, t) ==
  /\ shown.t = t
  /\ \A i : i \in DOMAIN shown.states <=> \E at \in lines : i \in DOMAIN Said(files, at).states
  /\ \A at \in lines : \A i \in DOMAIN Said(files, at).states :
       (\A p \in lines : i \in DOMAIN Said(files, p).states => NotAfter(at, p))
         => shown.states[i] = Said(files, at).states[i]

\* Of a slot that lines of one bucket only are about.
SlotShows(files, lines, ring, n) ==
  /\ LinesOfSlot(files, lines, n) = {} => ring[n] = Unused
  /\ \A t : /\ LinesOfSlot(files, lines, n) # {}
            /\ \A at \in LinesOfSlot(files, lines, n) : Said(files, at).t = t
            => ShowsLines(files, LinesOfSlot(files, lines, n), ring[n], t)

ReplayShows(files, lines, ring) ==
  /\ RingTyped(ring)
  /\ \A n \in 0..(Window - 1) : SlotShows(files, lines, ring, n)

\* Lines that a replay can take.
Legible(files, lines) ==
  \A at \in lines : Said(files, at).t \in Int /\ Said(files, at).states \in Triggering

\* One line more.
LEMMA LineShown ==
  ASSUME NEW files, NEW s \in SUBSET (Int \X Int), NEW x, NoneAfter(s, x), Legible(files, s),
         NEW ring, ReplayShows(files, s \ {x}, ring)
  PROVE  ReplayShows(files, s, Recorded(ring, Said(files, x).t, Said(files, x).states))
<1> DEFINE u == Said(files, x).t
           marks == Said(files, x).states
           new == Recorded(ring, u, marks)
           m == Slot(u)
           kept == KeptOf(ring, u)
<1>1. x \in s /\ u \in Int /\ marks \in Triggering
  BY DEF NoneAfter, Legible
<1>2. RingTyped(ring) /\ DOMAIN ring = 0..(Window - 1)
  BY DEF ReplayShows, RingTyped
<1>3. RingTyped(new)
  BY <1>1, <1>2, RecordedTyped
<1>4. /\ \A n \in 0..(Window - 1) : n # m => new[n] = ring[n]
      /\ new[m].t = u /\ new[m].states = Merged(kept, marks)
  <2>1. Records(new, ring, u, marks)
    <3> HIDE DEF u, marks
    <3> QED BY <1>1, <1>2, RecordedIs
  <2> HIDE DEF new, kept, marks, u
  <2> QED BY <2>1 DEF Records, kept
<1>5. kept \in Triggering /\ m \in 0..(Window - 1)
  BY <1>1, <1>2, SlotTypes, KeptTyped
<1>6. /\ new[m].t = u
      /\ DOMAIN new[m].states = DOMAIN marks \cup DOMAIN kept
      /\ \A i \in DOMAIN marks : new[m].states[i] = marks[i]
      /\ \A i \in DOMAIN kept \ DOMAIN marks : new[m].states[i] = kept[i]
  <2> HIDE DEF new, kept, marks, m, u
  <2>1. /\ DOMAIN Merged(kept, marks) = DOMAIN marks \cup DOMAIN kept
        /\ \A i \in DOMAIN marks : Merged(kept, marks)[i] = marks[i]
        /\ \A i \in DOMAIN kept \ DOMAIN marks : Merged(kept, marks)[i] = kept[i]
    BY <1>1, <1>5, MergedTriggering
  <2>2. new[m].t = u /\ new[m].states = Merged(kept, marks)
    BY <1>4
  <2> QED BY <2>1, <2>2
<1>7. ASSUME NEW n \in 0..(Window - 1), n # m PROVE SlotShows(files, s, new, n)
  <2>1. LinesOfSlot(files, s, n) = LinesOfSlot(files, s \ {x}, n)
    BY <1>7 DEF LinesOfSlot
  <2>2. new[n] = ring[n] /\ SlotShows(files, s \ {x}, ring, n)
    BY <1>4, <1>7 DEF ReplayShows
  <2> HIDE DEF new
  <2> QED BY <2>1, <2>2 DEF SlotShows
<1>8. SlotShows(files, s, new, m)
  <2> DEFINE old == LinesOfSlot(files, s \ {x}, m)
             all == LinesOfSlot(files, s, m)
  <2>1. all = old \cup {x} /\ x \notin old /\ x \in all
    BY <1>1 DEF LinesOfSlot
  <2>2. SlotShows(files, s \ {x}, ring, m)
    BY <1>5 DEF ReplayShows
  <2>3. ASSUME NEW t, \A at \in all : Said(files, at).t = t
        PROVE  ShowsLines(files, all, new[m], t)
    <3>1. t = u /\ \A at \in old : Said(files, at).t = t
      BY <2>1, <2>3
    <3>2. /\ \A i : i \in DOMAIN kept <=> \E at \in old : i \in DOMAIN Said(files, at).states
          /\ \A at \in old : \A i \in DOMAIN Said(files, at).states :
               (\A p \in old : i \in DOMAIN Said(files, p).states => NotAfter(at, p))
                 => kept[i] = Said(files, at).states[i]
      <4>1. CASE old = {}
        <5>1. ring[m] = Unused
          BY <2>2, <4>1 DEF SlotShows
        <5>2. kept = <<>>
          BY <5>1 DEF Unused, KeptOf
        <5> QED BY <4>1, <5>2, NothingTriggers
      <4>2. CASE old # {}
        <5>1. ShowsLines(files, old, ring[m], u)
          BY <2>2, <3>1, <4>2 DEF SlotShows
        <5>2. kept = ring[m].states
          BY <5>1 DEF ShowsLines, KeptOf
        <5> HIDE DEF kept
        <5> QED BY <5>1, <5>2 DEF ShowsLines
      <4> QED BY <4>1, <4>2
    <3> HIDE DEF kept, new, old, all, m
    <3>3. \A i : i \in DOMAIN new[m].states <=> \E at \in all : i \in DOMAIN Said(files, at).states
      BY <1>6, <2>1, <3>2 DEF marks
    <3>4. ASSUME NEW at \in all, NEW i \in DOMAIN Said(files, at).states,
                 \A p \in all : i \in DOMAIN Said(files, p).states => NotAfter(at, p)
          PROVE  new[m].states[i] = Said(files, at).states[i]
      <4>1. CASE at = x
        BY <1>6, <4>1 DEF marks
      <4>2. CASE at # x
        <5>1. at \in old
          BY <2>1, <4>2
        <5>2. i \notin DOMAIN marks
          <6> SUFFICES ASSUME i \in DOMAIN marks PROVE FALSE
            OBVIOUS
          <6>1. NotAfter(at, x)
            BY <2>1, <3>4 DEF marks
          <6>2. at \in s
            BY <5>1 DEF old, LinesOfSlot
          <6>3. NotAfter(x, at) /\ at \in Int \X Int /\ x \in Int \X Int
            BY <1>1, <6>2 DEF NoneAfter, NotAfter
          <6>4. at[1] = x[1] /\ at[2] = x[2]
            BY <6>1, <6>3 DEF NotAfter
          <6> QED BY <4>2, <6>3, <6>4
        <5>3. kept[i] = Said(files, at).states[i] /\ i \in DOMAIN kept
          BY <2>1, <3>2, <3>4, <5>1
        <5> QED BY <1>6, <5>2, <5>3
      <4> QED BY <4>1, <4>2
    <3> QED BY <1>6, <3>1, <3>3, <3>4 DEF ShowsLines
  <2> QED BY <2>1, <2>3 DEF SlotShows
<1> HIDE DEF new, m
<1>9. \A n \in 0..(Window - 1) : SlotShows(files, s, new, n)
  BY <1>7, <1>8
<1>10. ReplayShows(files, s, new)
  BY <1>3, <1>9 DEF ReplayShows
<1> QED BY <1>10 DEF new

LEMMA EmptyRingShows == ASSUME NEW files PROVE ReplayShows(files, {}, EmptyRing)
<1>1. DOMAIN EmptyRing = 0..(Window - 1) /\ \A n \in 0..(Window - 1) : EmptyRing[n] = Unused
  BY DEF EmptyRing
<1>2. \A n : LinesOfSlot(files, {}, n) = {}
  BY DEF LinesOfSlot
<1> QED BY <1>1, <1>2 DEF ReplayShows, RingTyped, SlotTyped, SlotShows

\* A replay shows what all the lines say that it comes past.
LEMMA ReplayShown ==
  ASSUME NEW files, Replayable(files) \in SUBSET (Int \X Int), IsFiniteSet(Replayable(files)),
         Legible(files, Replayable(files))
  PROVE  ReplayShows(files, Replayable(files), Replayed(files))
<1> DEFINE lines == Replayable(files)
<1>1. PICK rings : Passes(files, lines, rings) /\ Replayed(files) = rings[lines]
  BY ReplayedIs
<1> HIDE DEF lines
<1> DEFINE G == {s \in SUBSET lines : ReplayShows(files, s, rings[s])}
<1>2. \A s \in SUBSET lines : rings[s] = IF s = {} THEN EmptyRing ELSE WithLatest(files, s, rings)
  BY <1>1, Zenon DEF Passes
<1>3. {} \in G
  BY <1>2, EmptyRingShows
<1>4. ASSUME NEW s \in SUBSET lines, s # {}, \A x \in s : s \ {x} \in G PROVE s \in G
  <2> DEFINE x == Latest(s)
  <2>1. IsFiniteSet(s) /\ s \in SUBSET (Int \X Int) /\ Legible(files, s)
    BY <1>4, FS_Subset DEF lines, Legible
  <2>2. NoneAfter(s, x)
    BY <1>4, <2>1, LatestIs
  <2>3. x \in s
    BY <2>2 DEF NoneAfter
  <2>4. rings[s] = Recorded(rings[s \ {x}], Said(files, x).t, Said(files, x).states)
    BY <1>2, <1>4 DEF WithLatest, Said
  <2> HIDE DEF x
  <2>5. ReplayShows(files, s \ {x}, rings[s \ {x}])
    BY <1>4, <2>3
  <2>6. ReplayShows(files, s, rings[s])
    BY <2>1, <2>2, <2>4, <2>5, LineShown
  <2> QED BY <2>6
<1> HIDE DEF G
<1>5. IsFiniteSet(lines)
  BY DEF lines
<1>6. lines \in G
  BY <1>3, <1>4, <1>5, SubsetsGrow
<1> QED BY <1>1, <1>6 DEF G, lines

-----------------------------------------------------------------------------
(* The inductive invariant of the chart: the ring shows what was observed,  *)
(* of each bucket of the window, and the files say it too, unless a call is *)
(* on its way to them; what went wrong is of a slot that is spoilt, or will *)
(* be once the process ends.                                                *)

\* What is written, and what a line may be.
Writable == {marks \in UNION {Reports[d] : d \in Docs} : marks # <<>>}

Line == {Garbage} \cup [t : Int, states : Writable]

\* The calls of Record of a document.
CallsOf(d) ==
  {call \in [t : Int, states : Reports[d], came : Int, inMemory : BOOLEAN] :
     call.inMemory => call.states # <<>>}

CallsTyped ==
  /\ recording = [d \in Docs |-> recording[d]]
  /\ \A d \in Docs : recording[d] = {} \/ \E call \in CallsOf(d) : recording[d] = {call}

ChartTypes ==
  /\ now \in Window + 1..MaxTime /\ records \in 0..MaxRecords
  /\ writeFaults \in 0..MaxWriteFaults /\ crashes \in 0..MaxCrashes
  /\ RingTyped(slots)
  /\ CallsTyped
  /\ chartErr \in BOOLEAN
  /\ unsaved \cup spoilt \subseteq 0..(Window - 1)
  /\ DOMAIN observed \subseteq 1..now
  /\ \A t \in DOMAIN observed : observed[t] \in Triggering

\* Files of lines, each about a bucket of its day that was observed, or whose slot is
\* spoilt.
FilesTyped(files, lates, times) ==
  /\ DOMAIN files \subseteq Int /\ IsFiniteSet(DOMAIN files)
  /\ \A day \in DOMAIN files : files[day] \in Seq(Line)
  /\ \A day \in DOMAIN files : \A k \in DOMAIN files[day] :
       \/ files[day][k] = Garbage
       \/ /\ Day(files[day][k].t) = day
          /\ Slot(files[day][k].t) \in lates \/ files[day][k].t \in times

SegmentsTyped ==
  /\ FilesTyped(segments, spoilt, DOMAIN observed)
  /\ torn \cup open \subseteq DOMAIN segments

Mentions(line, t, i) == line.t = t /\ i \in DOMAIN line.states

LinesIn(files, day) == IF day \in DOMAIN files THEN files[day] ELSE <<>>

\* What the last line says of an identity in a bucket.
Says(lines, t, i, mark) ==
  \E k \in DOMAIN lines :
    /\ Mentions(lines[k], t, i) /\ lines[k].states[i] = mark
    /\ \A m \in DOMAIN lines : Mentions(lines[m], t, i) => m <= k

Silent(lines, t, i) == \A k \in DOMAIN lines : ~ Mentions(lines[k], t, i)

Agrees(lines, marks, t, i) ==
  IF i \in DOMAIN marks THEN Says(lines, t, i, marks[i]) ELSE Silent(lines, t, i)

\* A call is on its way to the files with what it has to say of an identity.
OnItsWay(d) == {call \in recording[d] : call.inMemory}

Pends(t, i) == \E d \in Docs : \E call \in OnItsWay(d) : Mentions(call, t, i)

\* What is on its way was observed.
PendingSeen ==
  \A d \in Docs : \A call \in OnItsWay(d) : Slot(call.t) \notin spoilt =>
    /\ call.t \in DOMAIN observed
    /\ \A i \in DOMAIN call.states :
         i \in DOMAIN observed[call.t] /\ observed[call.t][i] = call.states[i]

\* A ring shows what was seen, all of it that is in the window.
RingRight(ring, noted, lates, at) ==
  /\ \A n \in 0..(Window - 1) : n \notin lates =>
       ring[n] = Unused \/ (ring[n].t \in DOMAIN noted /\ ring[n].states = noted[ring[n].t])
  /\ \A t \in DOMAIN noted : t > at - Window /\ Slot(t) \notin lates /\ noted[t] # <<>> => ring[Slot(t)].t = t

Durable ==
  \A t \in DOMAIN observed : t > now - Window /\ Slot(t) \notin spoilt \cup unsaved =>
    \A i \in Identities : Pends(t, i) \/ Agrees(LinesIn(segments, Day(t)), observed[t], t, i)

\* What is taken for written last still is what the file says.
LastStands ==
  \A written \in lastWritten :
    written.t \in Int /\ (written.t > now - Window /\ Slot(written.t) \notin spoilt \cup unsaved =>
      \A i \in DOMAIN written.states : Says(LinesIn(segments, Day(written.t)), written.t, i, written.states[i]))

ChartInv ==
  /\ ChartTypes /\ SegmentsTyped /\ PendingSeen
  /\ RingRight(slots, observed, spoilt, now) /\ Durable /\ LastStands

-----------------------------------------------------------------------------
(* Calls, files and lines.                                                  *)

LEMMA ReportsTrigger ==
  ASSUME NEW d \in Docs, NEW marks \in Reports[d]
  PROVE  marks \in Triggering /\ DOMAIN marks \subseteq IdentitiesOf(d)
<1>1. marks \in [DOMAIN marks -> Statuses]
  BY ChartAssumption
<1>2. DOMAIN marks \subseteq IdentitiesOf(d)
  BY DEF IdentitiesOf
<1>3. DOMAIN marks \subseteq Identities
  BY <1>2 DEF Identities
<1> QED BY <1>1, <1>2, <1>3 DEF Triggering

LEMMA WrittenTriggers == Writable \subseteq Triggering
  BY ReportsTrigger DEF Writable

LEMMA OwnIdentities ==
  ASSUME NEW d \in Docs, NEW e \in Docs, d # e, NEW i \in IdentitiesOf(d)
  PROVE  i \notin IdentitiesOf(e)
  BY ChartAssumption

LEMMA CallIs ==
  ASSUME CallsTyped, NEW d \in Docs, NEW call \in recording[d]
  PROVE  /\ recording[d] = {call}
         /\ call = [t |-> call.t, states |-> call.states, came |-> call.came, inMemory |-> call.inMemory]
         /\ call.t \in Int /\ call.came \in Int /\ call.inMemory \in BOOLEAN
         /\ call.states \in Reports[d]
         /\ call.inMemory => call.states # <<>>
<1>1. call \in CallsOf(d) /\ recording[d] = {call}
  BY DEF CallsTyped
<1> QED BY <1>1 DEF CallsOf

\* A document's call changes, or ends.
LEMMA CallChanges ==
  ASSUME CallsTyped, NEW d \in Docs, NEW c,
         c = {} \/ \E call \in CallsOf(d) : c = {call},
         recording' = [recording EXCEPT ![d] = c]
  PROVE  /\ CallsTyped'
         /\ recording'[d] = c
         /\ \A e \in Docs : e # d => recording'[e] = recording[e]
<1>1. recording' = [e \in Docs |-> IF e = d THEN c ELSE recording[e]]
  BY DEF CallsTyped
<1>2. recording'[d] = c /\ \A e \in Docs : e # d => recording'[e] = recording[e]
  BY <1>1
<1>3. recording' = [e \in Docs |-> recording'[e]]
  BY <1>1
<1>4. ASSUME NEW e \in Docs PROVE recording'[e] = {} \/ \E call \in CallsOf(e) : recording'[e] = {call}
  BY <1>2 DEF CallsTyped
<1> QED BY <1>2, <1>3, <1>4 DEF CallsTyped

LEMMA SweptIs ==
  ASSUME NEW files, NEW c \in Int
  PROVE  /\ DOMAIN Swept(files, c) \subseteq DOMAIN files
         /\ \A day \in DOMAIN Swept(files, c) : Swept(files, c)[day] = files[day]
         /\ \A t \in Int : t > c => LinesIn(Swept(files, c), Day(t)) = LinesIn(files, Day(t))
<1>1. /\ DOMAIN Swept(files, c) = {day \in DOMAIN files : (day + 1) * PerDay >= c}
      /\ \A day \in DOMAIN Swept(files, c) : Swept(files, c)[day] = files[day]
  BY DEF Swept, RestrictDomain, Restrict
<1>2. ASSUME NEW t \in Int, t > c
      PROVE  LinesIn(Swept(files, c), Day(t)) = LinesIn(files, Day(t))
  <2>1. Day(t) \in Int /\ t < (Day(t) + 1) * PerDay
    BY SlotTypes, DayEnds
  <2>2. PICK z : z = (Day(t) + 1) * PerDay
    OBVIOUS
  <2>3. z \in Int
    BY <2>1, <2>2, ChartNumbers
  <2>4. (Day(t) + 1) * PerDay >= c
    BY <1>2, <2>1, <2>2, <2>3
  <2> QED BY <1>1, <2>4 DEF LinesIn
<1> QED BY <1>1, <1>2

LEMMA SweptTyped ==
  ASSUME NEW files, NEW c \in Int, NEW lates, NEW times, FilesTyped(files, lates, times)
  PROVE  FilesTyped(Swept(files, c), lates, times)
<1> DEFINE new == Swept(files, c)
<1>1. DOMAIN new \subseteq DOMAIN files /\ \A day \in DOMAIN new : new[day] = files[day]
  BY SweptIs
<1> HIDE DEF new
<1>2. DOMAIN new \subseteq Int /\ IsFiniteSet(DOMAIN new)
  BY <1>1, FS_Subset DEF FilesTyped
<1>3. FilesTyped(new, lates, times)
  BY <1>1, <1>2 DEF FilesTyped
<1> QED BY <1>3 DEF new

\* The segments when that of a call's day is open.
LEMMA WithSegmentIs ==
  ASSUME NEW call, call.t \in Int, now \in Int
  PROVE  /\ DOMAIN WithSegment(call) \subseteq DOMAIN segments \cup {Day(call.t)}
         /\ Day(call.t) \in DOMAIN WithSegment(call)
         /\ \A day \in DOMAIN WithSegment(call) :
              \/ day \in DOMAIN segments /\ WithSegment(call)[day] = segments[day]
              \/ day = Day(call.t) /\ WithSegment(call)[day] = <<>>
         /\ \A t \in Int : t > now - Window => LinesIn(WithSegment(call), Day(t)) = LinesIn(segments, Day(t))
<1> DEFINE d == Day(call.t)
           swept == IF open = {d} THEN segments ELSE Swept(segments, now - Window)
           new == WithSegment(call)
<1>0. now - Window \in Int
  BY ChartNumbers
<1>1. /\ DOMAIN swept \subseteq DOMAIN segments
      /\ \A day \in DOMAIN swept : swept[day] = segments[day]
      /\ \A t \in Int : t > now - Window => LinesIn(swept, Day(t)) = LinesIn(segments, Day(t))
  BY <1>0, SweptIs
<1>2. /\ DOMAIN new = DOMAIN swept \cup {d}
      /\ \A day \in DOMAIN new : new[day] = IF day \in DOMAIN swept THEN swept[day] ELSE <<>>
  BY DEF WithSegment
<1> HIDE DEF new, swept, d
<1>3. \A day \in DOMAIN new :
        \/ day \in DOMAIN segments /\ new[day] = segments[day]
        \/ day = d /\ new[day] = <<>>
  BY <1>1, <1>2
<1>4. \A day : LinesIn(new, day) = LinesIn(swept, day)
  BY <1>2 DEF LinesIn
<1>5. DOMAIN new \subseteq DOMAIN segments \cup {d} /\ d \in DOMAIN new
  BY <1>1, <1>2
<1> QED BY <1>1, <1>3, <1>4, <1>5 DEF new, d

LEMMA WithSegmentTyped ==
  ASSUME NEW call, call.t \in Int, now \in Int, SegmentsTyped
  PROVE  FilesTyped(WithSegment(call), spoilt, DOMAIN observed)
<1> DEFINE new == WithSegment(call)
           d == Day(call.t)
<1>1. /\ DOMAIN new \subseteq DOMAIN segments \cup {d}
      /\ \A day \in DOMAIN new :
           \/ day \in DOMAIN segments /\ new[day] = segments[day]
           \/ day = d /\ new[day] = <<>>
  BY WithSegmentIs
<1>2. d \in Int
  BY SlotTypes
<1>3. <<>> \in Seq(Line) /\ DOMAIN <<>> = {}
  OBVIOUS
<1> HIDE DEF new, d
<1>4. FilesTyped(segments, spoilt, DOMAIN observed)
  BY DEF SegmentsTyped
<1>5. IsFiniteSet(DOMAIN segments \cup {d})
  BY <1>4, FS_AddElement DEF FilesTyped
<1>6. IsFiniteSet(DOMAIN new) /\ DOMAIN new \subseteq Int
  BY <1>1, <1>2, <1>4, <1>5, FS_Subset DEF FilesTyped
<1>7. FilesTyped(new, spoilt, DOMAIN observed)
  BY <1>1, <1>3, <1>4, <1>6 DEF FilesTyped
<1> QED BY <1>7 DEF new

\* A line is appended.
LEMMA AppendTyped ==
  ASSUME NEW files, NEW lates, NEW times, FilesTyped(files, lates, times),
         NEW day \in DOMAIN files, NEW line \in Line,
         line = Garbage \/ (Day(line.t) = day /\ (Slot(line.t) \in lates \/ line.t \in times))
  PROVE  FilesTyped([files EXCEPT ![day] = Append(@, line)], lates, times)
<1> DEFINE new == [files EXCEPT ![day] = Append(@, line)]
<1>1. /\ DOMAIN new = DOMAIN files /\ new[day] = Append(files[day], line)
      /\ \A e \in DOMAIN files : e # day => new[e] = files[e]
  OBVIOUS
<1>2. files[day] \in Seq(Line)
  BY DEF FilesTyped
<1>3. /\ new[day] \in Seq(Line)
      /\ \A k \in DOMAIN new[day] : new[day][k] = line \/ (k \in DOMAIN files[day] /\ new[day][k] = files[day][k])
  <2> HIDE DEF new
  <2> QED BY <1>1, <1>2
<1> HIDE DEF new
<1>4. FilesTyped(new, lates, times)
  BY <1>1, <1>3 DEF FilesTyped
<1> QED BY <1>4 DEF new

LEMMA FilesTypedGrows ==
  ASSUME NEW files, NEW lates, NEW times, FilesTyped(files, lates, times),
         NEW lates2, NEW times2, lates \subseteq lates2, times \subseteq times2
  PROVE  FilesTyped(files, lates2, times2)
  BY DEF FilesTyped

\* What a line more makes of what is said.
LEMMA AppendSays ==
  ASSUME NEW lines \in Seq(Line), NEW line, NEW t, NEW i
  PROVE  /\ ~ Mentions(line, t, i) =>
              /\ Silent(lines, t, i) => Silent(Append(lines, line), t, i)
              /\ \A mark : Says(lines, t, i, mark) => Says(Append(lines, line), t, i, mark)
         /\ Mentions(line, t, i) => Says(Append(lines, line), t, i, line.states[i])
<1> DEFINE n == Len(lines)
           more == Append(lines, line)
<1>1. /\ n \in Nat /\ DOMAIN lines = 1..n /\ DOMAIN more = 1..(n + 1)
      /\ more[n + 1] = line /\ \A k \in 1..n : more[k] = lines[k]
  OBVIOUS
<1> HIDE DEF more, n
<1>2. ASSUME ~ Mentions(line, t, i), Silent(lines, t, i) PROVE Silent(more, t, i)
  BY <1>1, <1>2 DEF Silent
<1>3. ASSUME ~ Mentions(line, t, i), NEW mark, Says(lines, t, i, mark) PROVE Says(more, t, i, mark)
  <2>1. PICK k \in DOMAIN lines :
          /\ Mentions(lines[k], t, i) /\ lines[k].states[i] = mark
          /\ \A m \in DOMAIN lines : Mentions(lines[m], t, i) => m <= k
    BY <1>3 DEF Says
  <2>2. k \in DOMAIN more /\ more[k] = lines[k]
    BY <1>1, <2>1
  <2>3. \A m \in DOMAIN more : Mentions(more[m], t, i) => m <= k
    BY <1>1, <1>3, <2>1
  <2> QED BY <2>1, <2>2, <2>3 DEF Says
<1>4. ASSUME Mentions(line, t, i) PROVE Says(more, t, i, line.states[i])
  <2>1. n + 1 \in DOMAIN more /\ \A m \in DOMAIN more : m <= n + 1
    BY <1>1
  <2> QED BY <1>1, <1>4, <2>1 DEF Says
<1> QED BY <1>2, <1>3, <1>4 DEF more

-----------------------------------------------------------------------------
(* The steps.                                                               *)

LEMMA ChartTimes ==
  ASSUME ChartInv
  PROVE  now \in Int /\ now > Window /\ now - Window \in Int /\ now <= MaxTime
<1>1. now \in Window + 1..MaxTime
  BY DEF ChartInv, ChartTypes
<1>2. Window \in Nat /\ MaxTime \in Nat
  BY ChartAssumption
<1> QED BY <1>1, <1>2

\* Steps that change neither ring nor files, nor what is on its way.
LEMMA QuietStep ==
  ASSUME ChartInv, UNCHANGED <<slots, segments, lastWritten, observed, unsaved, spoilt>>,
         now' = now \/ (now < MaxTime /\ now' = now + 1),
         records' \in 0..MaxRecords, UNCHANGED <<writeFaults, crashes, chartErr>>,
         CallsTyped', torn' = torn, open' \subseteq open, \A d \in Docs : OnItsWay(d)' = OnItsWay(d)
  PROVE  ChartInv'
<1>0. now \in Int /\ Window \in Nat /\ MaxTime \in Nat /\ now > Window /\ now <= MaxTime /\ now - Window \in Int
  BY ChartTimes, ChartAssumption
<1>1. now' \in Int /\ now' \in Window + 1..MaxTime /\ now <= now' /\ now - Window <= now' - Window
  BY <1>0
<1>2. DOMAIN observed \subseteq 1..now'
  BY <1>0, <1>1 DEF ChartInv, ChartTypes
<1>3. ChartTypes'
  BY <1>1, <1>2 DEF ChartInv, ChartTypes
<1>4. SegmentsTyped'
  BY DEF ChartInv, SegmentsTyped
<1>5. PendingSeen'
  BY DEF ChartInv, PendingSeen
<1>6. \A t \in Int : t > now' - Window => t > now - Window
  <2>1. CASE now' = now
    BY <2>1
  <2>2. CASE now' = now + 1
    <3>1. ASSUME NEW t \in Int, t > now + 1 - Window PROVE t > now - Window
      BY <1>0, <3>1
    <3> QED BY <1>0, <2>2, <3>1
  <2> QED BY <2>1, <2>2
<1>7. DOMAIN observed \subseteq Int
  BY <1>2
<1>8. RingRight(slots, observed, spoilt, now')
  BY <1>6, <1>7 DEF ChartInv, RingRight
<1>9. Durable'
  <2> SUFFICES ASSUME NEW t \in DOMAIN observed, t > now' - Window, Slot(t) \notin spoilt \cup unsaved,
                      NEW i \in Identities
               PROVE  Pends(t, i)' \/ Agrees(LinesIn(segments, Day(t)), observed[t], t, i)
    BY DEF Durable
  <2>1. Pends(t, i) \/ Agrees(LinesIn(segments, Day(t)), observed[t], t, i)
    BY <1>6, <1>7 DEF ChartInv, Durable
  <2> QED BY <2>1 DEF Pends
<1>10. LastStands'
  BY <1>6 DEF ChartInv, LastStands
<1> QED BY <1>3, <1>4, <1>5, <1>8, <1>9, <1>10 DEF ChartInv

LEMMA TickRight == ASSUME ChartInv, Tick PROVE ChartInv'
<1>1. CallsTyped' /\ \A d \in Docs : OnItsWay(d)' = OnItsWay(d)
  BY DEF Tick, ChartInv, ChartTypes, CallsTyped, OnItsWay
<1>2. records \in 0..MaxRecords
  BY DEF ChartInv, ChartTypes
<1> QED BY <1>1, <1>2, QuietStep DEF Tick

LEMMA CloseRight == ASSUME ChartInv, CloseFile \/ UNCHANGED vars PROVE ChartInv'
<1>1. CallsTyped' /\ \A d \in Docs : OnItsWay(d)' = OnItsWay(d)
  BY DEF CloseFile, vars, ChartInv, ChartTypes, CallsTyped, OnItsWay
<1>2. records \in 0..MaxRecords
  BY DEF ChartInv, ChartTypes
<1>3. CASE CloseFile
  BY <1>1, <1>2, <1>3, QuietStep DEF CloseFile
<1>4. CASE UNCHANGED vars
  BY <1>1, <1>2, <1>4, QuietStep DEF vars
<1> QED BY <1>3, <1>4

LEMMA IngestedRight == ASSUME ChartInv, NEW d \in Docs, Ingested(d) PROVE ChartInv'
<1>0. now \in Int /\ Lags \subseteq Int /\ MaxRecords \in Nat
  BY ChartTimes, ChartAssumption
<1>1. PICK lag \in Lags, marks \in Reports[d] :
        recording' = [recording EXCEPT ![d] =
          {[t |-> now - lag, states |-> marks, came |-> now, inMemory |-> FALSE]}]
  BY DEF Ingested
<1> DEFINE call == [t |-> now - lag, states |-> marks, came |-> now, inMemory |-> FALSE]
<1>2. now - lag \in Int
  BY <1>0
<1>3. call \in CallsOf(d) /\ ~ call.inMemory
  BY <1>0, <1>1, <1>2 DEF CallsOf
<1> HIDE DEF call
<1>4. CallsTyped' /\ recording'[d] = {call} /\ \A e \in Docs : e # d => recording'[e] = recording[e]
  BY <1>1, <1>3, CallChanges DEF call, ChartInv, ChartTypes
<1>5. recording[d] = {}
  BY DEF Ingested
<1>6. \A e \in Docs : OnItsWay(e)' = OnItsWay(e)
  BY <1>3, <1>4, <1>5 DEF OnItsWay
<1>7. records' \in 0..MaxRecords
  BY <1>0 DEF ChartInv, ChartTypes, Ingested
<1> QED BY <1>4, <1>6, <1>7, QuietStep DEF Ingested

\* Which calls are on their way when that of one document has ended.
LEMMA CallEnds ==
  ASSUME ChartInv, NEW d \in Docs, recording' = [recording EXCEPT ![d] = {}]
  PROVE  /\ CallsTyped'
         /\ OnItsWay(d)' = {}
         /\ \A e \in Docs : e # d => OnItsWay(e)' = OnItsWay(e)
<1>1. CallsTyped' /\ recording'[d] = {} /\ \A e \in Docs : e # d => recording'[e] = recording[e]
  <2>1. CallsTyped
    BY DEF ChartInv, ChartTypes
  <2> QED BY <2>1, CallChanges
<1> QED BY <1>1 DEF OnItsWay

\* When a write has failed its slot counts as not saved.
LEMMA RecordFailsRight == ASSUME ChartInv, NEW d \in Docs, RecordFails(d) PROVE ChartInv'
<1>0. now \in Int /\ now - Window \in Int /\ MaxWriteFaults \in Nat
  BY ChartTimes, ChartAssumption
<1>1. PICK call \in recording[d] :
        /\ call.inMemory /\ FailedWrite(call)
        /\ recording' = [recording EXCEPT ![d] = {}]
  BY DEF RecordFails
<1>2. call.t \in Int /\ recording[d] = {call}
  BY CallIs DEF ChartInv, ChartTypes
<1>3. /\ UNCHANGED <<now, slots, lastWritten, records, crashes, observed, leftTorn, spoilt>>
      /\ writeFaults' \in 0..MaxWriteFaults /\ chartErr' = TRUE
  BY <1>0 DEF RecordFails, ChartInv, ChartTypes
<1>4. /\ CallsTyped' /\ OnItsWay(d)' = {}
      /\ \A e \in Docs : e # d => OnItsWay(e)' = OnItsWay(e)
  BY <1>1, CallEnds
<1>5. unsaved' = unsaved \cup {Slot(call.t)}
  BY <1>1 DEF FailedWrite
<1>6. unsaved' \cup spoilt \subseteq 0..(Window - 1)
  BY <1>2, <1>5, SlotTypes DEF ChartInv, ChartTypes
<1>7. /\ SegmentsTyped'
      /\ \A t \in Int : t > now - Window => LinesIn(segments', Day(t)) = LinesIn(segments, Day(t))
  <2>1. CASE /\ open' = {} /\ segments' = Swept(segments, now - Window)
             /\ torn' = torn \cap DOMAIN segments'
    <3>1. FilesTyped(segments', spoilt, DOMAIN observed)
      BY <1>0, <2>1, SweptTyped DEF ChartInv, SegmentsTyped
    <3>2. SegmentsTyped'
      BY <1>3, <2>1, <3>1 DEF SegmentsTyped
    <3> QED BY <1>0, <2>1, <3>2, SweptIs
  <2>2. CASE /\ open' = {Day(call.t)} /\ segments' = WithSegment(call)
             /\ torn' \in {torn \cap DOMAIN segments', (torn \cap DOMAIN segments') \cup {Day(call.t)}}
    <3>1. FilesTyped(segments', spoilt, DOMAIN observed)
      BY <1>0, <1>2, <2>2, WithSegmentTyped DEF ChartInv
    <3>2. Day(call.t) \in DOMAIN segments'
      BY <1>0, <1>2, <2>2, WithSegmentIs
    <3>3. SegmentsTyped'
      BY <1>3, <2>2, <3>1, <3>2 DEF SegmentsTyped
    <3> QED BY <1>0, <1>2, <2>2, <3>3, WithSegmentIs
  <2> QED BY <1>1, <2>1, <2>2 DEF FailedWrite
<1>8. ChartTypes'
  BY <1>3, <1>4, <1>6 DEF ChartInv, ChartTypes
<1>9. PendingSeen'
  BY <1>3, <1>4 DEF ChartInv, PendingSeen
<1>10. RingRight(slots', observed', spoilt', now')
  BY <1>3 DEF ChartInv
<1>11. Durable'
  <2> SUFFICES ASSUME NEW t \in DOMAIN observed, t > now - Window, Slot(t) \notin spoilt \cup unsaved',
                      NEW i \in Identities
               PROVE  Pends(t, i)' \/ Agrees(LinesIn(segments', Day(t)), observed[t], t, i)
    BY <1>3 DEF Durable
  <2>1. t \in Int
    BY <1>0 DEF ChartInv, ChartTypes
  <2>2. t # call.t /\ Slot(t) \notin spoilt \cup unsaved
    BY <1>5
  <2>3. CASE Pends(t, i)
    <3>1. PICK e \in Docs : \E c \in OnItsWay(e) : Mentions(c, t, i)
      BY <2>3 DEF Pends
    <3>2. e # d
      BY <1>2, <2>2, <3>1 DEF OnItsWay, Mentions
    <3> QED BY <1>4, <3>1, <3>2 DEF Pends
  <2>4. CASE Agrees(LinesIn(segments, Day(t)), observed[t], t, i)
    BY <1>7, <2>1, <2>4
  <2> QED BY <2>2, <2>3, <2>4 DEF ChartInv, Durable
<1>12. LastStands'
  <2> SUFFICES ASSUME NEW written \in lastWritten
               PROVE  written.t \in Int /\ (written.t > now - Window /\ Slot(written.t) \notin spoilt \cup unsaved' =>
      \A i \in DOMAIN written.states : Says(LinesIn(segments', Day(written.t)), written.t, i, written.states[i]))
    BY <1>3 DEF LastStands
  <2>1. written.t \in Int /\ (written.t > now - Window /\ Slot(written.t) \notin spoilt \cup unsaved =>
      \A i \in DOMAIN written.states : Says(LinesIn(segments, Day(written.t)), written.t, i, written.states[i]))
    BY DEF ChartInv, LastStands
  <2>2. written.t > now - Window => LinesIn(segments', Day(written.t)) = LinesIn(segments, Day(written.t))
    BY <1>7, <2>1
  <2> QED BY <1>5, <2>1, <2>2
<1> QED BY <1>7, <1>8, <1>9, <1>10, <1>11, <1>12 DEF ChartInv

LEMMA LinesAreSeq ==
  ASSUME ChartInv, NEW day PROVE LinesIn(segments, day) \in Seq(Line)
<1>1. <<>> \in Seq(Line)
  OBVIOUS
<1> QED BY <1>1 DEF ChartInv, SegmentsTyped, FilesTyped, LinesIn

LEMMA GarbageIsSilent ==
  Garbage \in Line /\ \A t, i : ~ Mentions(Garbage, t, i)
<1>1. DOMAIN Garbage.states = {}
  BY NothingTriggers DEF Garbage
<1> QED BY <1>1 DEF Mentions, Line

\* What is on its way, of a call that comes to the files.
LEMMA DigestIs ==
  ASSUME ChartInv, NEW d \in Docs, NEW call \in recording[d], call.inMemory
  PROVE  /\ call.t \in Int /\ recording[d] = {call} /\ OnItsWay(d) = {call}
         /\ Digest(call) \in Line /\ Digest(call).t = call.t /\ Digest(call).states = call.states
         /\ Slot(call.t) \in spoilt \/ call.t \in DOMAIN observed
         /\ Slot(call.t) \notin spoilt =>
              \A i \in DOMAIN call.states :
                i \in DOMAIN observed[call.t] /\ observed[call.t][i] = call.states[i]
<1>1. /\ recording[d] = {call} /\ call.t \in Int /\ call.states \in Reports[d] /\ call.states # <<>>
  BY CallIs DEF ChartInv, ChartTypes
<1>2. call.states \in Writable
  BY <1>1 DEF Writable
<1>3. OnItsWay(d) = {call}
  BY <1>1 DEF OnItsWay
<1> QED BY <1>1, <1>2, <1>3 DEF Digest, Line, ChartInv, PendingSeen

\* A bucket of another slot stays on its way, or in the files.
LEMMA OthersPend ==
  ASSUME ChartInv, NEW d \in Docs, NEW call \in recording[d], call.inMemory,
         recording' = [recording EXCEPT ![d] = {}],
         NEW t, NEW i, Pends(t, i), ~ Mentions(call, t, i)
  PROVE  Pends(t, i)'
<1>1. OnItsWay(d) = {call} /\ \A e \in Docs : e # d => OnItsWay(e)' = OnItsWay(e)
  BY DigestIs, CallEnds
<1>2. PICK e \in Docs : \E c \in OnItsWay(e) : Mentions(c, t, i)
  BY DEF Pends
<1>3. e # d
  BY <1>1, <1>2
<1> QED BY <1>1, <1>2, <1>3 DEF Pends

\* What was written last need not be written again.
LEMMA SameAgainRight ==
  ASSUME ChartInv, NEW d \in Docs, RecordFile(d), NEW call \in recording[d], call.inMemory,
         recording' = [recording EXCEPT ![d] = {}],
         lastWritten = {Digest(call)}, UNCHANGED <<segments, torn, open, lastWritten, unsaved>>
  PROVE  ChartInv'
<1>1. UNCHANGED <<now, slots, chartErr, records, writeFaults, crashes, observed, leftTorn, spoilt>>
  BY DEF RecordFile
<1>2. /\ CallsTyped' /\ OnItsWay(d)' = {}
      /\ \A e \in Docs : e # d => OnItsWay(e)' = OnItsWay(e)
  BY CallEnds
<1>3. ChartTypes' /\ SegmentsTyped' /\ LastStands' /\ RingRight(slots', observed', spoilt', now')
  BY <1>1, <1>2 DEF ChartInv, ChartTypes, SegmentsTyped, LastStands
<1>4. PendingSeen'
  BY <1>1, <1>2 DEF ChartInv, PendingSeen
<1>5. Durable'
  <2> SUFFICES ASSUME NEW t \in DOMAIN observed, t > now - Window, Slot(t) \notin spoilt \cup unsaved,
                      NEW i \in Identities
               PROVE  Pends(t, i)' \/ Agrees(LinesIn(segments, Day(t)), observed[t], t, i)
    BY <1>1 DEF Durable
  <2>1. CASE Mentions(call, t, i)
    <3>1. t = call.t /\ i \in DOMAIN call.states
      BY <2>1 DEF Mentions
    <3>2. i \in DOMAIN observed[t] /\ observed[t][i] = call.states[i]
      BY <3>1, DigestIs
    <3>3. Digest(call).t = t /\ Digest(call).states = call.states
      BY <3>1, DigestIs
    <3>4. Says(LinesIn(segments, Day(t)), t, i, call.states[i])
      BY <3>1, <3>3 DEF ChartInv, LastStands
    <3> QED BY <3>2, <3>4 DEF Agrees
  <2>2. CASE ~ Mentions(call, t, i)
    <3>1. Pends(t, i) \/ Agrees(LinesIn(segments, Day(t)), observed[t], t, i)
      BY DEF ChartInv, Durable
    <3> QED BY <2>2, <3>1, OthersPend
  <2> QED BY <2>1, <2>2
<1> QED BY <1>3, <1>4, <1>5 DEF ChartInv

\* What a line more in the file of its day makes of what the files say.
LEMMA LineAppended ==
  ASSUME ChartInv, NEW call, call.t \in Int, NEW line \in Line,
         segments' = [WithSegment(call) EXCEPT ![Day(call.t)] = Append(@, line)],
         NEW t \in Int, t > now - Window, NEW i
  PROVE  /\ ~ Mentions(line, t, i) =>
              /\ Silent(LinesIn(segments, Day(t)), t, i) => Silent(LinesIn(segments', Day(t)), t, i)
              /\ \A mark : Says(LinesIn(segments, Day(t)), t, i, mark) => Says(LinesIn(segments', Day(t)), t, i, mark)
         /\ Day(t) = Day(call.t) /\ Mentions(line, t, i) => Says(LinesIn(segments', Day(t)), t, i, line.states[i])
<1>0. now \in Int
  BY ChartTimes
<1>1. LinesIn(WithSegment(call), Day(t)) = LinesIn(segments, Day(t)) /\ Day(call.t) \in DOMAIN WithSegment(call)
  BY <1>0, WithSegmentIs
<1>2. LinesIn(segments, Day(t)) \in Seq(Line)
  BY LinesAreSeq
<1> DEFINE old == LinesIn(segments, Day(t))
<1>3. CASE Day(t) = Day(call.t)
  <2>1. LinesIn(segments', Day(t)) = Append(old, line)
    BY <1>1, <1>3 DEF LinesIn
  <2> HIDE DEF old
  <2> QED BY <1>2, <2>1, AppendSays DEF old
<1>4. CASE Day(t) # Day(call.t)
  <2>1. LinesIn(segments', Day(t)) = old
    BY <1>1, <1>4 DEF LinesIn
  <2> QED BY <1>4, <2>1
<1> QED BY <1>3, <1>4

\* A line is written, or runs into one that was cut.
LEMMA WrittenRight ==
  ASSUME ChartInv, NEW d \in Docs, RecordFile(d), NEW call \in recording[d], call.inMemory,
         recording' = [recording EXCEPT ![d] = {}],
         open' = {Day(call.t)}, lastWritten' = {Digest(call)},
         segments' = [WithSegment(call) EXCEPT ![Day(call.t)] =
                        Append(@, IF Day(call.t) \in torn THEN Garbage ELSE Digest(call))],
         torn' = (torn \cap DOMAIN segments') \ {Day(call.t)},
         unsaved' = IF Day(call.t) \in torn THEN unsaved \cup {Slot(call.t)} ELSE unsaved
  PROVE  ChartInv'
<1> DEFINE cut == Day(call.t) \in torn
           line == IF cut THEN Garbage ELSE Digest(call)
<1>0. now \in Int /\ now - Window \in Int
  BY ChartTimes
<1>1. UNCHANGED <<now, slots, chartErr, records, writeFaults, crashes, observed, leftTorn, spoilt>>
  BY DEF RecordFile
<1>2. /\ CallsTyped' /\ OnItsWay(d)' = {}
      /\ \A e \in Docs : e # d => OnItsWay(e)' = OnItsWay(e)
  BY CallEnds
<1>3. /\ call.t \in Int /\ Slot(call.t) \in 0..(Window - 1)
      /\ Digest(call) \in Line /\ Digest(call).t = call.t /\ Digest(call).states = call.states
      /\ Slot(call.t) \in spoilt \/ call.t \in DOMAIN observed
  BY DigestIs, SlotTypes
<1>4. line \in Line /\ (line = Garbage \/ line = Digest(call)) /\ (~ cut => line = Digest(call))
  BY <1>3, GarbageIsSilent
<1>5. /\ unsaved \subseteq unsaved' /\ unsaved' \subseteq unsaved \cup {Slot(call.t)}
      /\ cut => Slot(call.t) \in unsaved'
  OBVIOUS
<1>6. segments' = [WithSegment(call) EXCEPT ![Day(call.t)] = Append(@, line)]
  OBVIOUS
<1> HIDE DEF line, cut
<1>7. ChartTypes'
  BY <1>1, <1>2, <1>3, <1>5 DEF ChartInv, ChartTypes
<1>8. SegmentsTyped'
  <2>1. FilesTyped(WithSegment(call), spoilt, DOMAIN observed) /\ Day(call.t) \in DOMAIN WithSegment(call)
    BY <1>0, <1>3, WithSegmentTyped, WithSegmentIs DEF ChartInv
  <2>2. line = Garbage \/ (Day(line.t) = Day(call.t) /\ (Slot(line.t) \in spoilt \/ line.t \in DOMAIN observed))
    BY <1>3, <1>4
  <2>3. FilesTyped([WithSegment(call) EXCEPT ![Day(call.t)] = Append(@, line)], spoilt, DOMAIN observed)
    BY <1>4, <2>1, <2>2, AppendTyped
  <2>4. Day(call.t) \in DOMAIN segments'
    BY <1>6, <2>1
  <2> QED BY <1>1, <1>6, <2>3, <2>4 DEF SegmentsTyped
<1>9. PendingSeen'
  BY <1>1, <1>2 DEF ChartInv, PendingSeen
<1>10. RingRight(slots', observed', spoilt', now')
  BY <1>1 DEF ChartInv
<1>11. ASSUME NEW t \in Int, t > now - Window, NEW i, Slot(t) \notin unsaved', Mentions(call, t, i)
       PROVE  Says(LinesIn(segments', Day(t)), t, i, call.states[i])
  <2>1. t = call.t /\ i \in DOMAIN call.states
    BY <1>11 DEF Mentions
  <2>2. line = Digest(call)
    BY <1>4, <1>5, <1>11, <2>1
  <2>3. Mentions(line, t, i) /\ line.states = call.states
    BY <1>3, <2>1, <2>2 DEF Mentions
  <2> QED BY <1>3, <1>4, <1>6, <1>11, <2>1, <2>3, LineAppended
<1>12. ASSUME NEW t \in Int, t > now - Window, NEW i, ~ Mentions(call, t, i)
       PROVE  /\ Silent(LinesIn(segments, Day(t)), t, i) => Silent(LinesIn(segments', Day(t)), t, i)
              /\ \A mark : Says(LinesIn(segments, Day(t)), t, i, mark) => Says(LinesIn(segments', Day(t)), t, i, mark)
  <2>1. ~ Mentions(line, t, i)
    BY <1>3, <1>4, <1>12, GarbageIsSilent DEF Mentions
  <2> QED BY <1>3, <1>4, <1>6, <1>12, <2>1, LineAppended
<1>13. Durable'
  <2> SUFFICES ASSUME NEW t \in DOMAIN observed, t > now - Window, Slot(t) \notin spoilt \cup unsaved',
                      NEW i \in Identities
               PROVE  Pends(t, i)' \/ Agrees(LinesIn(segments', Day(t)), observed[t], t, i)
    BY <1>1 DEF Durable
  <2>0. t \in Int /\ Slot(t) \notin spoilt \cup unsaved
    BY <1>0, <1>5 DEF ChartInv, ChartTypes
  <2>1. CASE Mentions(call, t, i)
    <3>1. Says(LinesIn(segments', Day(t)), t, i, call.states[i])
      BY <1>11, <2>0, <2>1
    <3>2. i \in DOMAIN observed[t] /\ observed[t][i] = call.states[i]
      BY <2>1, DigestIs DEF Mentions
    <3> QED BY <3>1, <3>2 DEF Agrees
  <2>2. CASE ~ Mentions(call, t, i)
    <3>1. Pends(t, i) \/ Agrees(LinesIn(segments, Day(t)), observed[t], t, i)
      BY <2>0 DEF ChartInv, Durable
    <3>2. CASE Pends(t, i)
      BY <2>2, <3>2, OthersPend
    <3>3. CASE Agrees(LinesIn(segments, Day(t)), observed[t], t, i)
      BY <1>12, <2>0, <2>2, <3>3 DEF Agrees
    <3> QED BY <3>1, <3>2, <3>3
  <2> QED BY <2>1, <2>2
<1>14. LastStands'
  <2> SUFFICES ASSUME NEW written, written = Digest(call)
               PROVE  written.t \in Int /\ (written.t > now - Window /\ Slot(written.t) \notin spoilt \cup unsaved' =>
      \A i \in DOMAIN written.states : Says(LinesIn(segments', Day(written.t)), written.t, i, written.states[i]))
    BY <1>1 DEF LastStands
  <2>1. written.t = call.t /\ written.states = call.states
    BY <1>3
  <2>2. \A i \in DOMAIN written.states : Mentions(call, call.t, i)
    BY <2>1 DEF Mentions
  <2> QED BY <1>3, <1>11, <2>1, <2>2
<1> QED BY <1>7, <1>8, <1>9, <1>10, <1>13, <1>14 DEF ChartInv

LEMMA RecordFileRight == ASSUME ChartInv, NEW d \in Docs, RecordFile(d) PROVE ChartInv'
<1>1. PICK call \in recording[d] :
        /\ call.inMemory
        /\ recording' = [recording EXCEPT ![d] = {}]
        /\ IF lastWritten = {Digest(call)} THEN UNCHANGED <<segments, torn, open, lastWritten, unsaved>>
           ELSE /\ open' = {Day(call.t)} /\ lastWritten' = {Digest(call)}
                /\ segments' = [WithSegment(call) EXCEPT ![Day(call.t)] =
                     Append(@, IF Day(call.t) \in torn THEN Garbage ELSE Digest(call))]
                /\ torn' = (torn \cap DOMAIN segments') \ {Day(call.t)}
                /\ unsaved' = IF Day(call.t) \in torn THEN unsaved \cup {Slot(call.t)} ELSE unsaved
  BY DEF RecordFile
<1>2. CASE lastWritten = {Digest(call)}
  BY <1>1, <1>2, SameAgainRight
<1>3. CASE lastWritten # {Digest(call)}
  BY <1>1, <1>3, WrittenRight
<1> QED BY <1>2, <1>3

\* What is on its way once the memory has a call's states: its own, if there are any.
LEMMA CallGoesOn ==
  ASSUME ChartInv, NEW d \in Docs, NEW call \in recording[d], ~ call.inMemory,
         recording' = [recording EXCEPT ![d] = IF call.states = <<>> THEN {} ELSE {Remembered(call)}]
  PROVE  /\ CallsTyped'
         /\ OnItsWay(d) = {}
         /\ \A e \in Docs : e # d => OnItsWay(e)' = OnItsWay(e)
         /\ \A c \in OnItsWay(d)' : c.t = call.t /\ c.states = call.states
         /\ call.states # <<>> => OnItsWay(d)' # {}
<1>1. /\ recording[d] = {call}
      /\ call = [t |-> call.t, states |-> call.states, came |-> call.came, inMemory |-> call.inMemory]
      /\ call.t \in Int /\ call.came \in Int /\ call.states \in Reports[d]
  BY CallIs DEF ChartInv, ChartTypes
<1> DEFINE more == Remembered(call)
           c == IF call.states = <<>> THEN {} ELSE {more}
<1>2. more = [t |-> call.t, states |-> call.states, came |-> call.came, inMemory |-> TRUE]
  BY DEF Remembered
<1>3. more.t = call.t /\ more.states = call.states /\ more.inMemory
  BY <1>2
<1> HIDE DEF more
<1>4. call.states # <<>> => more \in CallsOf(d)
  BY <1>1, <1>2, <1>3 DEF CallsOf
<1>5. (c = {} \/ \E x \in CallsOf(d) : c = {x}) /\ recording' = [recording EXCEPT ![d] = c]
  BY <1>4 DEF more
<1> HIDE DEF c
<1>6. CallsTyped' /\ recording'[d] = c /\ \A e \in Docs : e # d => recording'[e] = recording[e]
  <2>1. CallsTyped
    BY DEF ChartInv, ChartTypes
  <2> QED BY <1>5, <2>1, CallChanges
<1>7. OnItsWay(d) = {} /\ OnItsWay(d)' = c
  <2>1. OnItsWay(d) = {}
    BY <1>1 DEF OnItsWay
  <2>2. \A x \in c : x.inMemory
    BY <1>3 DEF c
  <2> QED BY <1>6, <2>1, <2>2 DEF OnItsWay
<1> QED BY <1>3, <1>6, <1>7 DEF OnItsWay, c

\* What was observed of a bucket, with what more is.
Observed(t) == IF t \in DOMAIN observed THEN observed[t] ELSE <<>>

LEMMA ObservedTriggers ==
  ASSUME ChartInv, NEW t PROVE Observed(t) \in Triggering
  BY NothingTriggers DEF ChartInv, ChartTypes, Observed

\* A call from the window.
LEMMA InTimeRight ==
  ASSUME ChartInv, NEW d \in Docs, NEW call \in recording[d], ~ call.inMemory,
         recording' = [recording EXCEPT ![d] = IF call.states = <<>> THEN {} ELSE {Remembered(call)}],
         slots' = Recorded(slots, call.t, call.states),
         call.t \in (now - Window + 1)..now,
         observed' = [t \in DOMAIN observed \cup {call.t} |->
           IF t # call.t THEN observed[t]
           ELSE Merged(IF t \in DOMAIN observed THEN observed[t] ELSE <<>>, call.states)],
         UNCHANGED <<now, segments, torn, open, lastWritten, chartErr, records, writeFaults, crashes,
                     unsaved, leftTorn, spoilt>>
  PROVE  ChartInv'
<1> DEFINE t == call.t
           marks == call.states
           old == Observed(t)
           m == Slot(t)
<1>0. now \in Int /\ now - Window \in Int /\ Window \in Nat /\ now > Window
  BY ChartTimes, ChartNumbers
<1>1. t \in Int /\ t > now - Window /\ t <= now /\ t \in 1..now /\ m \in 0..(Window - 1)
  <2>1. t \in (now - Window + 1)..now
    OBVIOUS
  <2> HIDE DEF t
  <2>2. t \in Int /\ t > now - Window /\ t <= now /\ t \in 1..now
    BY <1>0, <2>1
  <2> QED BY <2>2, SlotTypes
<1>2. marks \in Reports[d]
  BY CallIs DEF ChartInv, ChartTypes
<1>3. marks \in Triggering /\ DOMAIN marks \subseteq IdentitiesOf(d) /\ old \in Triggering
  BY <1>2, ReportsTrigger, ObservedTriggers
<1>4. /\ DOMAIN observed' = DOMAIN observed \cup {t}
      /\ \A u \in DOMAIN observed : u # t => observed'[u] = observed[u]
      /\ observed'[t] = Merged(old, marks)
  BY DEF Observed
<1>5. /\ observed'[t] \in Triggering
      /\ DOMAIN observed'[t] = DOMAIN marks \cup DOMAIN old
      /\ \A i \in DOMAIN marks : observed'[t][i] = marks[i]
      /\ \A i \in DOMAIN old \ DOMAIN marks : observed'[t][i] = old[i]
  <2> HIDE DEF old, marks, t
  <2>1. /\ Merged(old, marks) \in Triggering
        /\ DOMAIN Merged(old, marks) = DOMAIN marks \cup DOMAIN old
        /\ \A i \in DOMAIN marks : Merged(old, marks)[i] = marks[i]
        /\ \A i \in DOMAIN old \ DOMAIN marks : Merged(old, marks)[i] = old[i]
    BY <1>3, MergedTriggering
  <2> QED BY <1>4, <2>1
<1>6. /\ CallsTyped' /\ OnItsWay(d) = {}
      /\ \A e \in Docs : e # d => OnItsWay(e)' = OnItsWay(e)
      /\ \A c \in OnItsWay(d)' : c.t = t /\ c.states = marks
      /\ marks # <<>> => OnItsWay(d)' # {}
  BY CallGoesOn
<1>7. RingTyped(slots) /\ DOMAIN slots = 0..(Window - 1) /\ DOMAIN observed \subseteq 1..now
  BY DEF ChartInv, ChartTypes, RingTyped
<1>8. RingTyped(slots') /\ Records(slots', slots, t, marks)
  <2> HIDE DEF t, marks
  <2> QED BY <1>1, <1>3, <1>7, RecordedTyped, RecordedIs DEF t, marks
<1> HIDE DEF t, marks, old, m
<1>9. ChartTypes'
  BY <1>1, <1>4, <1>5, <1>6, <1>7, <1>8 DEF ChartInv, ChartTypes
<1>10. SegmentsTyped'
  <2>1. FilesTyped(segments, spoilt, DOMAIN observed')
    BY <1>4, FilesTypedGrows DEF ChartInv, SegmentsTyped
  <2> QED BY <2>1 DEF ChartInv, SegmentsTyped
<1>11. PendingSeen'
  <2> SUFFICES ASSUME NEW e \in Docs, NEW c \in OnItsWay(e)', Slot(c.t) \notin spoilt
               PROVE  /\ c.t \in DOMAIN observed'
                      /\ \A i \in DOMAIN c.states :
                           i \in DOMAIN observed'[c.t] /\ observed'[c.t][i] = c.states[i]
    BY DEF PendingSeen
  <2>1. CASE e = d
    BY <1>4, <1>5, <1>6, <2>1
  <2>2. CASE e # d
    <3>1. c \in OnItsWay(e)
      BY <1>6, <2>2
    <3>2. /\ c.t \in DOMAIN observed
          /\ \A i \in DOMAIN c.states :
               i \in DOMAIN observed[c.t] /\ observed[c.t][i] = c.states[i]
      BY <3>1 DEF ChartInv, PendingSeen
    <3>3. c.states \in Reports[e]
      BY <3>1, CallIs DEF ChartInv, ChartTypes, OnItsWay
    <3>4. \A i \in DOMAIN c.states : i \notin DOMAIN marks
      BY <1>3, <2>2, <3>3, ReportsTrigger, OwnIdentities
    <3>5. CASE c.t = t
      <4>1. old = observed[c.t]
        BY <3>2, <3>5 DEF old, Observed
      <4> QED BY <1>4, <1>5, <3>2, <3>4, <3>5, <4>1
    <3>6. CASE c.t # t
      BY <1>4, <3>2, <3>6
    <3> QED BY <3>5, <3>6
  <2> QED BY <2>1, <2>2
<1>12. RingRight(slots', observed', spoilt, now)
  <2>0. RingRight(slots, observed, spoilt, now)
    BY DEF ChartInv
  <2>1. /\ \A n \in 0..(Window - 1) : n # m => slots'[n] = slots[n]
        /\ slots'[m].t = t /\ slots'[m].states = Merged(KeptOf(slots, t), marks)
    BY <1>8 DEF Records, m
  <2>2. ASSUME m \notin spoilt PROVE KeptOf(slots, t) = old
    <3>1. CASE slots[m].t = t
      <4>1. slots[m] # Unused
        BY <1>1, <3>1 DEF Unused, NoTime
      <4> QED BY <1>1, <2>0, <2>2, <3>1, <4>1 DEF RingRight, KeptOf, old, Observed, m
    <3>2. CASE slots[m].t # t
      <4>1. KeptOf(slots, t) = <<>>
        BY <3>2 DEF KeptOf, m
      <4>2. old = <<>>
        BY <1>1, <2>0, <2>2, <3>2 DEF RingRight, old, Observed, m
      <4> QED BY <4>1, <4>2
    <3> QED BY <3>1, <3>2
  <2>3. ASSUME NEW n \in 0..(Window - 1), n \notin spoilt
        PROVE  slots'[n] = Unused \/ (slots'[n].t \in DOMAIN observed' /\ slots'[n].states = observed'[slots'[n].t])
    <3>1. CASE n = m
      BY <1>4, <2>1, <2>2, <2>3, <3>1
    <3>2. CASE n # m /\ slots[n] # Unused
      <4>1. slots[n].t \in DOMAIN observed /\ slots[n].states = observed[slots[n].t]
        BY <2>0, <2>3, <3>2 DEF RingRight
      <4>2. Slot(slots[n].t) = n
        BY <1>7, <3>2 DEF RingTyped, SlotTyped
      <4>3. slots[n].t # t
        BY <3>2, <4>2 DEF m
      <4> QED BY <1>4, <2>1, <3>2, <4>1, <4>3
    <3> QED BY <2>1, <3>1, <3>2
  <2>4. ASSUME NEW u \in DOMAIN observed', u > now - Window, Slot(u) \notin spoilt, observed'[u] # <<>>
        PROVE  slots'[Slot(u)].t = u
    <3>1. CASE u = t
      BY <2>1, <3>1 DEF m
    <3>2. CASE u # t
      <4>1. u \in DOMAIN observed /\ observed[u] # <<>> /\ u \in Int /\ u <= now
        BY <1>0, <1>4, <1>7, <2>4, <3>2
      <4>2. slots[Slot(u)].t = u
        BY <2>0, <2>4, <4>1 DEF RingRight
      <4>3. Slot(u) # m
        <5>1. u < t + Window /\ t < u + Window
          BY <1>0, <1>1, <2>4, <4>1
        <5> QED BY <1>1, <3>2, <4>1, <5>1, SameSlot DEF m
      <4>4. Slot(u) \in 0..(Window - 1)
        BY <4>1, SlotTypes
      <4> QED BY <2>1, <4>2, <4>3, <4>4
    <3> QED BY <3>1, <3>2
  <2> QED BY <2>3, <2>4 DEF RingRight
<1>13. Durable'
  <2> SUFFICES ASSUME NEW u \in DOMAIN observed', u > now - Window, Slot(u) \notin spoilt \cup unsaved,
                      NEW i \in Identities
               PROVE  Pends(u, i)' \/ Agrees(LinesIn(segments, Day(u)), observed'[u], u, i)
    BY DEF Durable
  <2>1. Pends(u, i) => Pends(u, i)'
    BY <1>6 DEF Pends
  <2>2. CASE u # t
    <3>1. u \in DOMAIN observed /\ observed'[u] = observed[u]
      BY <1>4, <2>2
    <3>2. Pends(u, i) \/ Agrees(LinesIn(segments, Day(u)), observed[u], u, i)
      BY <3>1 DEF ChartInv, Durable
    <3> QED BY <2>1, <3>1, <3>2
  <2>3. CASE u = t /\ i \in DOMAIN marks
    <3>1. marks # <<>>
      BY <2>3, NothingTriggers
    <3>2. PICK c \in OnItsWay(d)' : c.t = t /\ c.states = marks
      BY <1>6, <3>1
    <3>3. Mentions(c, u, i)
      BY <2>3, <3>2 DEF Mentions
    <3> QED BY <3>2, <3>3 DEF Pends
  <2>4. CASE u = t /\ i \notin DOMAIN marks /\ t \in DOMAIN observed
    <3>1. Pends(t, i) \/ Agrees(LinesIn(segments, Day(t)), observed[t], t, i)
      BY <2>4 DEF ChartInv, Durable
    <3>2. old = observed[t]
      BY <2>4 DEF old, Observed
    <3>3. Agrees(LinesIn(segments, Day(t)), observed[t], t, i) => Agrees(LinesIn(segments, Day(t)), observed'[t], t, i)
      BY <1>5, <2>4, <3>2 DEF Agrees
    <3> QED BY <2>1, <2>4, <3>1, <3>3
  <2>5. CASE u = t /\ i \notin DOMAIN marks /\ t \notin DOMAIN observed
    <3>1. i \notin DOMAIN observed'[t]
      BY <1>5, <2>5, NothingTriggers DEF old, Observed
    <3>2. Silent(LinesIn(segments, Day(t)), t, i)
      <4> SUFFICES ASSUME NEW k \in DOMAIN LinesIn(segments, Day(t)), Mentions(LinesIn(segments, Day(t))[k], t, i)
                   PROVE  FALSE
        BY DEF Silent
      <4>1. Day(t) \in DOMAIN segments /\ LinesIn(segments, Day(t)) = segments[Day(t)]
        BY NothingTriggers DEF LinesIn
      <4> DEFINE line == segments[Day(t)][k]
      <4>2. line # Garbage
        BY <4>1, GarbageIsSilent
      <4>3. Slot(line.t) \in spoilt \/ line.t \in DOMAIN observed
        BY <4>1, <4>2 DEF ChartInv, SegmentsTyped, FilesTyped
      <4>4. line.t = t
        BY <4>1 DEF Mentions
      <4> QED BY <2>5, <4>3, <4>4
    <3> QED BY <2>5, <3>1, <3>2 DEF Agrees
  <2> QED BY <2>2, <2>3, <2>4, <2>5
<1>14. LastStands'
  BY DEF ChartInv, LastStands
<1> QED BY <1>9, <1>10, <1>11, <1>12, <1>13, <1>14 DEF ChartInv

\* A call from before the window, or from the future: its slot is spoilt.
LEMMA OutOfTimeRight ==
  ASSUME ChartInv, NEW d \in Docs, NEW call \in recording[d], ~ call.inMemory,
         recording' = [recording EXCEPT ![d] = IF call.states = <<>> THEN {} ELSE {Remembered(call)}],
         slots' = Recorded(slots, call.t, call.states),
         spoilt' = spoilt \cup {Slot(call.t)},
         UNCHANGED <<now, segments, torn, open, lastWritten, chartErr, records, writeFaults, crashes,
                     observed, unsaved, leftTorn>>
  PROVE  ChartInv'
<1>1. call.t \in Int /\ call.states \in Reports[d]
  BY CallIs DEF ChartInv, ChartTypes
<1>2. call.states \in Triggering /\ Slot(call.t) \in 0..(Window - 1)
  BY <1>1, ReportsTrigger, SlotTypes
<1>3. /\ CallsTyped' /\ OnItsWay(d) = {}
      /\ \A e \in Docs : e # d => OnItsWay(e)' = OnItsWay(e)
      /\ \A c \in OnItsWay(d)' : c.t = call.t
  BY CallGoesOn
<1>4. RingTyped(slots) /\ DOMAIN slots = 0..(Window - 1)
  BY DEF ChartInv, ChartTypes, RingTyped
<1>5. RingTyped(slots') /\ \A n \in 0..(Window - 1) : n # Slot(call.t) => slots'[n] = slots[n]
  <2>1. PICK t \in Int, marks \in Triggering : t = call.t /\ marks = call.states
    BY <1>1, <1>2
  <2>2. RingTyped(Recorded(slots, t, marks)) /\ Records(Recorded(slots, t, marks), slots, t, marks)
    BY <1>4, RecordedTyped, RecordedIs
  <2> QED BY <2>1, <2>2 DEF Records
<1>6. spoilt \subseteq spoilt' /\ spoilt' \cup unsaved \subseteq 0..(Window - 1)
  BY <1>2 DEF ChartInv, ChartTypes
<1>7. ChartTypes'
  BY <1>3, <1>5, <1>6 DEF ChartInv, ChartTypes
<1>8. SegmentsTyped'
  <2>1. FilesTyped(segments, spoilt', DOMAIN observed)
    BY <1>6, FilesTypedGrows DEF ChartInv, SegmentsTyped
  <2> QED BY <2>1 DEF ChartInv, SegmentsTyped
<1>9. PendingSeen'
  <2> SUFFICES ASSUME NEW e \in Docs, NEW c \in OnItsWay(e)', Slot(c.t) \notin spoilt'
               PROVE  /\ c.t \in DOMAIN observed
                      /\ \A i \in DOMAIN c.states :
                           i \in DOMAIN observed[c.t] /\ observed[c.t][i] = c.states[i]
    BY DEF PendingSeen
  <2>1. e # d
    BY <1>3
  <2> QED BY <1>3, <1>6, <2>1 DEF ChartInv, PendingSeen
<1>10. RingRight(slots', observed, spoilt', now)
  <2>0. RingRight(slots, observed, spoilt, now)
    BY DEF ChartInv
  <2>1. ASSUME NEW t \in DOMAIN observed PROVE Slot(t) \in 0..(Window - 1)
    <3>1. t \in Int
      BY ChartTimes DEF ChartInv, ChartTypes
    <3> QED BY <3>1, SlotTypes
  <2>2. \A n \in 0..(Window - 1) : n \notin spoilt' => n \notin spoilt /\ slots'[n] = slots[n]
    BY <1>5
  <2> QED BY <2>0, <2>1, <2>2 DEF RingRight
<1>11. Durable'
  <2> SUFFICES ASSUME NEW t \in DOMAIN observed, t > now - Window, Slot(t) \notin spoilt' \cup unsaved,
                      NEW i \in Identities
               PROVE  Pends(t, i)' \/ Agrees(LinesIn(segments, Day(t)), observed[t], t, i)
    BY DEF Durable
  <2>1. Pends(t, i) => Pends(t, i)'
    BY <1>3 DEF Pends
  <2> QED BY <1>6, <2>1 DEF ChartInv, Durable
<1>12. LastStands'
  BY <1>6 DEF ChartInv, LastStands
<1> QED BY <1>7, <1>8, <1>9, <1>10, <1>11, <1>12 DEF ChartInv

LEMMA RecordMemoryRight == ASSUME ChartInv, NEW d \in Docs, RecordMemory(d) PROVE ChartInv'
<1>1. PICK call \in recording[d] :
    /\ ~ call.inMemory
    /\ slots' = Recorded(slots, call.t, call.states)
    /\ recording' = [recording EXCEPT ![d] = IF call.states = <<>> THEN {} ELSE {Remembered(call)}]
    /\ IF call.t \in (now - Window + 1)..now
       THEN /\ observed' = [t \in DOMAIN observed \cup {call.t} |->
                 IF t # call.t THEN observed[t]
                 ELSE Merged(IF t \in DOMAIN observed THEN observed[t] ELSE <<>>, call.states)]
            /\ UNCHANGED spoilt
       ELSE spoilt' = spoilt \cup {Slot(call.t)} /\ UNCHANGED observed
    /\ UNCHANGED <<now, segments, torn, open, lastWritten, chartErr, records, writeFaults, crashes, unsaved, leftTorn>>
  BY DEF RecordMemory
<1>2. CASE call.t \in (now - Window + 1)..now
  BY <1>1, <1>2, InTimeRight
<1>3. CASE call.t \notin (now - Window + 1)..now
  BY <1>1, <1>3, OutOfTimeRight
<1> QED BY <1>2, <1>3

\* Where lines are, of some days.
PlacesOn(files, days) == {at \in days \X Nat : at[2] \in DOMAIN files[at[1]]}

LEMMA PlacesFinite ==
  ASSUME NEW files, NEW lates, NEW times, FilesTyped(files, lates, times)
  PROVE  IsFiniteSet(PlacesOn(files, DOMAIN files))
<1> DEFINE D == DOMAIN files
           G == {s \in SUBSET D : IsFiniteSet(PlacesOn(files, s))}
<1>1. {} \in G
  <2>1. PlacesOn(files, {}) = {}
    BY DEF PlacesOn
  <2> QED BY <2>1, FS_EmptySet
<1>2. ASSUME NEW s \in SUBSET D, s # {}, \A x \in s : s \ {x} \in G PROVE s \in G
  <2>1. PICK x \in s : TRUE
    BY <1>2
  <2>2. IsFiniteSet(PlacesOn(files, s \ {x}))
    BY <1>2, <2>1
  <2>3. files[x] \in Seq(Line)
    BY <2>1 DEF FilesTyped
  <2>4. PICK n \in Nat : DOMAIN files[x] = 1..n
    BY <2>3
  <2>5. IsFiniteSet(1..n)
    BY FS_Interval
  <2>6. IsFiniteSet({x})
    BY FS_Singleton
  <2>7. IsFiniteSet({x} \X (1..n))
    BY <2>5, <2>6, FS_Product
  <2>8. PlacesOn(files, s) = PlacesOn(files, s \ {x}) \cup ({x} \X (1..n))
    BY <2>1, <2>4 DEF PlacesOn
  <2>9. IsFiniteSet(PlacesOn(files, s \ {x}) \cup ({x} \X (1..n)))
    BY <2>2, <2>7, FS_Union
  <2> QED BY <2>8, <2>9
<1> HIDE DEF G
<1>3. IsFiniteSet(D)
  BY DEF FilesTyped
<1>4. D \in G
  BY <1>1, <1>2, <1>3, SubsetsGrow
<1> QED BY <1>4 DEF G

\* The lines that a replay takes.
LEMMA ReplayableIs ==
  ASSUME ChartInv
  PROVE  /\ Replayable(segments) \in SUBSET (Int \X Int) /\ IsFiniteSet(Replayable(segments))
         /\ \A at \in Replayable(segments) :
              LET line == Said(segments, at)
              IN  /\ line.t \in Int /\ line.t > now - Window /\ line.states \in Triggering
                  /\ at[1] = Day(line.t) /\ Day(line.t) \in DOMAIN segments
                  /\ at[2] \in DOMAIN segments[Day(line.t)]
                  /\ Slot(line.t) \in spoilt \/ line.t \in DOMAIN observed
         /\ \A t \in Int : \A i : \A k \in DOMAIN LinesIn(segments, Day(t)) :
              t > now - Window /\ Mentions(LinesIn(segments, Day(t))[k], t, i)
                => <<Day(t), k>> \in Replayable(segments)
<1> DEFINE swept == Swept(segments, now - Window)
           R == Replayable(segments)
<1>0. now - Window \in Int
  BY ChartTimes
<1>1. FilesTyped(segments, spoilt, DOMAIN observed)
  BY DEF ChartInv, SegmentsTyped
<1>2. DOMAIN swept \subseteq DOMAIN segments /\ \A day \in DOMAIN swept : swept[day] = segments[day]
  BY <1>0, SweptIs
<1>3. \A t \in Int : t > now - Window => LinesIn(swept, Day(t)) = LinesIn(segments, Day(t))
  BY <1>0, SweptIs
<1> HIDE DEF swept
<1>4. \A at : at \in R <=> /\ \E day \in DOMAIN swept : at \in {day} \X DOMAIN segments[day]
                           /\ Said(segments, at) # Garbage /\ Said(segments, at).t > now - Window
  BY DEF Replayable, Said, swept
<1> HIDE DEF R
<1>5. \A day \in DOMAIN segments : segments[day] \in Seq(Line) /\ DOMAIN segments[day] \subseteq Nat /\ day \in Int
  BY <1>1 DEF FilesTyped
<1>6. ASSUME NEW at \in R
      PROVE  /\ at \in Int \X Int /\ at \in PlacesOn(segments, DOMAIN segments)
             /\ LET line == Said(segments, at)
                IN  /\ line.t \in Int /\ line.t > now - Window /\ line.states \in Triggering
                    /\ at[1] = Day(line.t) /\ Day(line.t) \in DOMAIN segments
                    /\ at[2] \in DOMAIN segments[Day(line.t)]
                    /\ Slot(line.t) \in spoilt \/ line.t \in DOMAIN observed
  <2>1. PICK day \in DOMAIN swept : at \in {day} \X DOMAIN segments[day]
    BY <1>4
  <2>2. day \in DOMAIN segments /\ at[1] = day /\ at[2] \in DOMAIN segments[day] /\ at = <<day, at[2]>>
    BY <1>2, <2>1
  <2>3. at \in Int \X Int /\ at \in PlacesOn(segments, DOMAIN segments)
    BY <1>5, <2>2 DEF PlacesOn
  <2> DEFINE line == segments[day][at[2]]
  <2>4. Said(segments, at) = line /\ line # Garbage /\ line.t > now - Window
    BY <1>4, <2>2 DEF Said
  <2>5. line \in Line
    BY <1>5, <2>2
  <2>6. line.t \in Int /\ line.states \in Triggering
    BY <2>4, <2>5, WrittenTriggers DEF Line
  <2>7. Day(line.t) = day /\ (Slot(line.t) \in spoilt \/ line.t \in DOMAIN observed)
    BY <1>1, <2>2, <2>4 DEF FilesTyped
  <2> QED BY <2>2, <2>3, <2>4, <2>6, <2>7
<1>7. IsFiniteSet(R) /\ R \in SUBSET (Int \X Int)
  <2>1. IsFiniteSet(PlacesOn(segments, DOMAIN segments)) /\ R \subseteq PlacesOn(segments, DOMAIN segments)
    BY <1>1, <1>6, PlacesFinite
  <2> QED BY <1>6, <2>1, FS_Subset
<1>8. ASSUME NEW t \in Int, NEW i, NEW k \in DOMAIN LinesIn(segments, Day(t)),
             t > now - Window, Mentions(LinesIn(segments, Day(t))[k], t, i)
      PROVE  <<Day(t), k>> \in R
  <2>1. Day(t) \in DOMAIN segments /\ LinesIn(segments, Day(t)) = segments[Day(t)]
    BY NothingTriggers DEF LinesIn
  <2>2. Day(t) \in DOMAIN swept
    <3>1. k \in DOMAIN LinesIn(swept, Day(t))
      BY <1>3, <1>8
    <3> QED BY <3>1, NothingTriggers DEF LinesIn
  <2>3. segments[Day(t)][k] # Garbage /\ segments[Day(t)][k].t = t
    BY <1>8, <2>1, GarbageIsSilent DEF Mentions
  <2>4. Said(segments, <<Day(t), k>>) = segments[Day(t)][k]
    BY DEF Said
  <2> QED BY <1>4, <1>8, <2>1, <2>2, <2>3, <2>4
<1> QED BY <1>6, <1>7, <1>8 DEF R

\* What a replay makes of the slots that nothing went wrong with.
LEMMA ReplayedRight ==
  ASSUME ChartInv, NEW lates, spoilt \cup unsaved \subseteq lates,
         \A d \in Docs : \A call \in OnItsWay(d) : Slot(call.t) \in lates
  PROVE  /\ RingTyped(Replayed(segments))
         /\ RingRight(Replayed(segments), observed, lates, now)
<1> DEFINE R == Replayable(segments)
           ring == Replayed(segments)
<1>0. now \in Int /\ now - Window \in Int /\ Window \in Nat
  BY ChartTimes, ChartNumbers
<1>1. ReplayShows(segments, R, ring)
  BY ReplayableIs, ReplayShown DEF Legible
<1>2. RingTyped(ring)
  BY <1>1 DEF ReplayShows
<1>3. R \in SUBSET (Int \X Int)
  BY ReplayableIs
<1>4. \A at \in R :
        /\ Said(segments, at).t \in Int /\ Said(segments, at).t > now - Window
        /\ at[1] = Day(Said(segments, at).t) /\ Day(Said(segments, at).t) \in DOMAIN segments
        /\ at[2] \in DOMAIN segments[Day(Said(segments, at).t)]
        /\ Slot(Said(segments, at).t) \in spoilt \/ Said(segments, at).t \in DOMAIN observed
  BY ReplayableIs
<1>5. \A t \in Int : \A i : \A k \in DOMAIN LinesIn(segments, Day(t)) :
        t > now - Window /\ Mentions(LinesIn(segments, Day(t))[k], t, i) => <<Day(t), k>> \in R
  BY ReplayableIs
<1>6. DOMAIN observed \subseteq 1..now /\ \A t \in DOMAIN observed : observed[t] \in Triggering
  BY DEF ChartInv, ChartTypes
<1> HIDE DEF R, ring
<1>7. ASSUME NEW t \in DOMAIN observed, t > now - Window, Slot(t) \notin lates, NEW i \in Identities
      PROVE  Agrees(LinesIn(segments, Day(t)), observed[t], t, i)
  <2>1. ~ Pends(t, i)
    BY <1>7 DEF Pends, Mentions
  <2> QED BY <1>7, <2>1 DEF ChartInv, Durable
\* All the lines about a slot are about one bucket.
<1>8. ASSUME NEW n, n \notin lates, NEW p \in LinesOfSlot(segments, R, n)
      PROVE  /\ Said(segments, p).t \in DOMAIN observed
             /\ \A at \in LinesOfSlot(segments, R, n) : Said(segments, at).t = Said(segments, p).t
  <2>1. ASSUME NEW at \in LinesOfSlot(segments, R, n)
        PROVE  /\ Said(segments, at).t \in Int /\ Slot(Said(segments, at).t) = n
               /\ Said(segments, at).t \in DOMAIN observed
               /\ Said(segments, at).t > now - Window /\ Said(segments, at).t <= now
    <3>1. at \in R /\ Slot(Said(segments, at).t) = n
      BY DEF LinesOfSlot
    <3>2. Said(segments, at).t \in DOMAIN observed
      BY <1>4, <1>8, <3>1
    <3> QED BY <1>0, <1>4, <1>6, <3>1, <3>2
  <2>2. ASSUME NEW at \in LinesOfSlot(segments, R, n)
        PROVE  Said(segments, at).t = Said(segments, p).t
    <3>1. PICK t \in Int : t = Said(segments, at).t /\ Slot(t) = n /\ t > now - Window /\ t <= now
      BY <2>1
    <3>2. PICK u \in Int : u = Said(segments, p).t /\ Slot(u) = n /\ u > now - Window /\ u <= now
      BY <2>1
    <3>3. t < u + Window /\ u < t + Window
      BY <1>0, <3>1, <3>2
    <3> QED BY <3>1, <3>2, <3>3, SameSlot
  <2> QED BY <2>1, <2>2
\* And together they say what was observed.
<1>9. ASSUME NEW n \in 0..(Window - 1), n \notin lates, NEW p \in LinesOfSlot(segments, R, n)
      PROVE  ring[n].t = Said(segments, p).t /\ ring[n].states = observed[ring[n].t]
  <2> DEFINE L == LinesOfSlot(segments, R, n)
  <2>1. PICK t : t = Said(segments, p).t
    OBVIOUS
  <2>2. t \in DOMAIN observed /\ \A at \in L : Said(segments, at).t = t
    BY <1>8, <1>9, <2>1
  <2>3. t \in Int /\ t > now - Window /\ Slot(t) = n
    BY <1>4, <2>1 DEF LinesOfSlot
  <2>4. ShowsLines(segments, L, ring[n], t)
    BY <1>1, <1>9, <2>2 DEF ReplayShows, SlotShows
  <2>5. \A at \in L : at \in R /\ at[1] = Day(t) /\ Day(t) \in DOMAIN segments /\ at[2] \in DOMAIN segments[Day(t)]
    BY <1>4, <2>2 DEF LinesOfSlot
  <2> HIDE DEF L
  <2> DEFINE lines == LinesIn(segments, Day(t))
             shown == ring[n].states
             noted == observed[t]
  <2>6. \A at \in L : at[2] \in DOMAIN lines /\ lines[at[2]] = Said(segments, at)
    BY <2>5 DEF LinesIn, Said
  <2>7. \A i : \A k \in DOMAIN lines : Mentions(lines[k], t, i) =>
          <<Day(t), k>> \in L /\ Said(segments, <<Day(t), k>>) = lines[k]
    <3> SUFFICES ASSUME NEW i, NEW k \in DOMAIN lines, Mentions(lines[k], t, i)
                 PROVE  <<Day(t), k>> \in L /\ Said(segments, <<Day(t), k>>) = lines[k]
      OBVIOUS
    <3>1. <<Day(t), k>> \in R
      BY <1>5, <2>3
    <3>2. Said(segments, <<Day(t), k>>) = lines[k]
      BY NothingTriggers DEF Said, LinesIn
    <3>3. lines[k].t = t
      BY DEF Mentions
    <3> QED BY <2>3, <3>1, <3>2, <3>3 DEF L, LinesOfSlot
  <2>8. shown \in Triggering /\ noted \in Triggering
    <3>1. ring[n] # Unused \/ ring[n] = Unused
      OBVIOUS
    <3> QED BY <1>2, <1>6, <2>2, NothingTriggers DEF RingTyped, SlotTyped, Unused
  <2>9. \A i \in Identities : Agrees(lines, noted, t, i)
    BY <1>7, <1>9, <2>2, <2>3
  <2>10. \A i : i \in DOMAIN shown <=> \E at \in L : i \in DOMAIN Said(segments, at).states
    BY <2>4 DEF ShowsLines
  <2>11. \A at \in L : \A i \in DOMAIN Said(segments, at).states :
           (\A q \in L : i \in DOMAIN Said(segments, q).states => NotAfter(at, q))
             => shown[i] = Said(segments, at).states[i]
    BY <2>4 DEF ShowsLines
  <2>12. \A k \in DOMAIN lines : k \in Int
    <3>1. lines \in Seq(Line)
      BY LinesAreSeq
    <3> QED BY <3>1
  <2>13. DOMAIN shown \subseteq Identities /\ DOMAIN noted \subseteq Identities
    BY <2>8, TriggeringIs
  <2> HIDE DEF lines, shown, noted
  <2>14. ASSUME NEW i \in DOMAIN shown PROVE i \in DOMAIN noted
    <3>1. PICK at \in L : i \in DOMAIN Said(segments, at).states
      BY <2>10
    <3>2. at[2] \in DOMAIN lines /\ Mentions(lines[at[2]], t, i)
      BY <2>2, <2>6, <3>1 DEF Mentions, L
    <3>3. ~ Silent(lines, t, i)
      BY <3>2 DEF Silent
    <3> QED BY <2>9, <2>13, <3>3 DEF Agrees
  <2>15. ASSUME NEW i \in DOMAIN noted PROVE i \in DOMAIN shown /\ shown[i] = noted[i]
    <3>1. Says(lines, t, i, noted[i])
      BY <2>9, <2>13 DEF Agrees
    <3>2. PICK k \in DOMAIN lines :
            /\ Mentions(lines[k], t, i) /\ lines[k].states[i] = noted[i]
            /\ \A m \in DOMAIN lines : Mentions(lines[m], t, i) => m <= k
      BY <3>1 DEF Says
    <3> DEFINE at == <<Day(t), k>>
    <3>3. at \in L /\ Said(segments, at) = lines[k] /\ i \in DOMAIN Said(segments, at).states
      BY <2>7, <3>2 DEF Mentions
    <3>4. ASSUME NEW q \in L, i \in DOMAIN Said(segments, q).states PROVE NotAfter(at, q)
      <4>1. q[2] \in DOMAIN lines /\ Mentions(lines[q[2]], t, i) /\ q[1] = Day(t)
        BY <2>2, <2>5, <2>6, <3>4 DEF Mentions, L
      <4>2. q[2] <= k
        BY <3>2, <4>1
      <4> QED BY <4>1, <4>2 DEF NotAfter
    <3> HIDE DEF at
    <3>5. shown[i] = Said(segments, at).states[i]
      BY <2>11, <3>3, <3>4
    <3> QED BY <2>10, <3>2, <3>3, <3>5
  <2>16. shown = noted
    <3>1. DOMAIN shown = DOMAIN noted
      BY <2>14, <2>15
    <3>2. shown = [i \in DOMAIN shown |-> shown[i]] /\ noted = [i \in DOMAIN noted |-> noted[i]]
      BY <2>8, TriggeringIs
    <3> QED BY <2>15, <3>1, <3>2
  <2>17. ring[n].t = t
    BY <2>4 DEF ShowsLines
  <2> QED BY <2>1, <2>16, <2>17 DEF shown, noted
<1>10. ASSUME NEW n \in 0..(Window - 1), n \notin lates
       PROVE  ring[n] = Unused \/ (ring[n].t \in DOMAIN observed /\ ring[n].states = observed[ring[n].t])
  <2>1. CASE LinesOfSlot(segments, R, n) = {}
    BY <1>1, <2>1 DEF ReplayShows, SlotShows
  <2>2. ASSUME NEW p \in LinesOfSlot(segments, R, n)
        PROVE  ring[n].t \in DOMAIN observed /\ ring[n].states = observed[ring[n].t]
    BY <1>8, <1>9, <1>10
  <2> QED BY <2>1, <2>2
<1>11. ASSUME NEW t \in DOMAIN observed, t > now - Window, Slot(t) \notin lates, observed[t] # <<>>
       PROVE  ring[Slot(t)].t = t
  <2>1. t \in Int /\ Slot(t) \in 0..(Window - 1)
    BY <1>6, SlotTypes
  <2>2. observed[t] \in Triggering
    BY <1>6
  <2>3. PICK i : i \in DOMAIN observed[t]
    <3> SUFFICES ASSUME DOMAIN observed[t] = {} PROVE FALSE
      OBVIOUS
    <3>1. PICK f : f = observed[t] /\ f \in Triggering /\ DOMAIN f = {}
      BY <2>2
    <3>2. f = [j \in {} |-> f[j]] /\ <<>> = [j \in {} |-> <<>>[j]]
      BY <3>1, TriggeringIs, NothingTriggers
    <3>3. f = <<>>
      BY <3>2
    <3> QED BY <1>11, <3>1, <3>3
  <2>4. i \in Identities
    BY <2>2, <2>3, TriggeringIs
  <2>5. Says(LinesIn(segments, Day(t)), t, i, observed[t][i])
    BY <1>7, <1>11, <2>3, <2>4 DEF Agrees
  <2>6. PICK k \in DOMAIN LinesIn(segments, Day(t)) : Mentions(LinesIn(segments, Day(t))[k], t, i)
    BY <2>5 DEF Says
  <2> DEFINE at == <<Day(t), k>>
  <2>7. at \in R
    BY <1>5, <1>11, <2>1, <2>6
  <2>8. Said(segments, at).t = t
    BY <2>6, NothingTriggers DEF Said, LinesIn, Mentions
  <2> HIDE DEF at
  <2>9. at \in LinesOfSlot(segments, R, Slot(t))
    BY <2>7, <2>8 DEF LinesOfSlot
  <2> QED BY <1>9, <1>11, <2>1, <2>8, <2>9
<1>12. RingRight(ring, observed, lates, now)
  BY <1>10, <1>11 DEF RingRight
<1> QED BY <1>2, <1>12 DEF ring

\* A restart brings back what the files say.
LEMMA CrashRight == ASSUME ChartInv, Crash PROVE ChartInv'
<1> DEFINE pending == {Slot(call.t) : call \in {call \in UNION Range(recording) : call.inMemory}}
<1>0. now - Window \in Int /\ MaxCrashes \in Nat
  BY ChartTimes, ChartAssumption
<1>1. /\ segments' = Swept(segments, now - Window) /\ slots' = Replayed(segments)
      /\ recording' = [d \in Docs |-> {}] /\ open' = {} /\ lastWritten' = {} /\ chartErr' = FALSE
      /\ spoilt' = spoilt \cup unsaved \cup pending /\ unsaved' = {}
      /\ UNCHANGED <<now, records, writeFaults, observed>>
  BY DEF Crash
<1>2. torn' \subseteq DOMAIN segments'
  BY <1>1 DEF Crash
<1>3. CallsTyped
  BY DEF ChartInv, ChartTypes
<1>4. \A call : call \in UNION Range(recording) <=> \E d \in Docs : call \in recording[d]
  BY <1>3 DEF CallsTyped, Range
<1>5. \A d \in Docs : \A call \in OnItsWay(d) : Slot(call.t) \in spoilt'
  BY <1>1, <1>4 DEF OnItsWay
<1>6. spoilt' \subseteq 0..(Window - 1)
  <2>1. pending \subseteq 0..(Window - 1)
    BY <1>3, <1>4, CallIs, SlotTypes
  <2> QED BY <1>1, <2>1 DEF ChartInv, ChartTypes
<1>7. RingTyped(slots') /\ RingRight(slots', observed, spoilt', now)
  BY <1>1, <1>5, ReplayedRight
<1>8. CallsTyped' /\ \A d \in Docs : OnItsWay(d)' = {}
  BY <1>1 DEF CallsTyped, OnItsWay
<1>9. crashes' \in 0..MaxCrashes
  BY <1>0 DEF Crash, ChartInv, ChartTypes
<1>10. ChartTypes'
  BY <1>1, <1>6, <1>7, <1>8, <1>9 DEF ChartInv, ChartTypes
<1>11. SegmentsTyped'
  <2>1. FilesTyped(segments', spoilt, DOMAIN observed)
    BY <1>0, <1>1, SweptTyped DEF ChartInv, SegmentsTyped
  <2>2. FilesTyped(segments', spoilt', DOMAIN observed)
    BY <1>1, <2>1, FilesTypedGrows
  <2> QED BY <1>1, <1>2, <2>2 DEF SegmentsTyped
<1>12. PendingSeen'
  BY <1>8 DEF PendingSeen
<1>13. Durable'
  <2> SUFFICES ASSUME NEW t \in DOMAIN observed, t > now - Window, Slot(t) \notin spoilt', NEW i \in Identities
               PROVE  Agrees(LinesIn(segments', Day(t)), observed[t], t, i)
    BY <1>1 DEF Durable
  <2>1. t \in Int /\ Slot(t) \notin spoilt \cup unsaved
    BY <1>1, ChartTimes DEF ChartInv, ChartTypes
  <2>2. ~ Pends(t, i)
    BY <1>5 DEF Pends, Mentions
  <2>3. Agrees(LinesIn(segments, Day(t)), observed[t], t, i)
    BY <2>1, <2>2 DEF ChartInv, Durable
  <2> QED BY <1>0, <1>1, <2>1, <2>3, SweptIs
<1>14. LastStands'
  BY <1>1 DEF LastStands
<1> QED BY <1>1, <1>7, <1>10, <1>11, <1>12, <1>13, <1>14 DEF ChartInv

LEMMA ChartInit == Init => ChartInv
<1> SUFFICES ASSUME Init PROVE ChartInv
  OBVIOUS
<1>1. /\ now = Window + 1 /\ recording = [d \in Docs |-> {}] /\ slots = EmptyRing
      /\ segments = <<>> /\ torn = {} /\ open = {} /\ lastWritten = {} /\ chartErr = FALSE
      /\ records = 0 /\ writeFaults = 0 /\ crashes = 0
      /\ observed = <<>> /\ unsaved = {} /\ leftTorn = {} /\ spoilt = {}
  BY DEF Init, EmptyRing
<1>2. now \in Window + 1..MaxTime /\ records \in 0..MaxRecords /\ writeFaults \in 0..MaxWriteFaults /\ crashes \in 0..MaxCrashes
  BY <1>1, ChartAssumption
<1>3. RingTyped(slots)
  BY <1>1, EmptyRingShows DEF ReplayShows
<1>4. DOMAIN observed = {} /\ DOMAIN segments = {}
  BY <1>1, NothingTriggers
<1>5. CallsTyped /\ \A d \in Docs : OnItsWay(d) = {}
  BY <1>1 DEF CallsTyped, OnItsWay
<1>6. ChartTypes
  BY <1>1, <1>2, <1>3, <1>4, <1>5 DEF ChartTypes
<1>7. SegmentsTyped
  BY <1>1, <1>4, FS_EmptySet DEF SegmentsTyped, FilesTyped
<1>8. PendingSeen /\ Durable /\ LastStands
  BY <1>1, <1>4, <1>5 DEF PendingSeen, Durable, LastStands
<1>9. RingRight(slots, observed, spoilt, now)
  BY <1>1, <1>4 DEF RingRight, EmptyRing
<1> QED BY <1>6, <1>7, <1>8, <1>9 DEF ChartInv

LEMMA ChartStep == ChartInv /\ [Next]_vars => ChartInv'
<1> SUFFICES ASSUME ChartInv, [Next]_vars PROVE ChartInv'
  OBVIOUS
<1>1. CASE Tick
  BY <1>1, TickRight
<1>2. CASE CloseFile \/ UNCHANGED vars
  BY <1>2, CloseRight
<1>3. CASE Crash
  BY <1>3, CrashRight
<1>4. ASSUME NEW d \in Docs, Ingested(d) \/ RecordMemory(d) \/ RecordFails(d) \/ RecordFile(d)
      PROVE  ChartInv'
  BY <1>4, IngestedRight, RecordMemoryRight, RecordFailsRight, RecordFileRight
<1> QED BY <1>1, <1>2, <1>3, <1>4 DEF Next

-----------------------------------------------------------------------------
(* What is shown of a bucket.                                               *)

LEMMA ChartTypeOK == ChartInv => TypeOK
<1> SUFFICES ASSUME ChartInv PROVE TypeOK
  OBVIOUS
<1>1. RingTyped(slots) /\ CallsTyped
  BY DEF ChartInv, ChartTypes
<1>2. \A n \in DOMAIN slots : slots[n] = Unused \/ Slot(slots[n].t) = n
  BY <1>1 DEF RingTyped, SlotTyped
<1>3. ASSUME NEW n \in DOMAIN slots, NEW i \in DOMAIN slots[n].states
      PROVE  slots[n].states[i] \in Statuses
  <2>1. slots[n].states \in Triggering
    <3>1. SlotTyped(slots, n)
      BY <1>1 DEF RingTyped
    <3> QED BY <3>1, NothingTriggers DEF SlotTyped, Unused
  <2> QED BY <2>1, TriggeringIs
<1>4. ASSUME NEW d \in Docs PROVE Cardinality(recording[d]) <= 1
  <2>1. recording[d] = {} \/ \E call : recording[d] = {call}
    BY <1>1 DEF CallsTyped
  <2>2. CASE recording[d] = {}
    <3>1. Cardinality(recording[d]) = 0
      BY <2>2, FS_EmptySet
    <3> QED BY <3>1
  <2>3. ASSUME NEW call, recording[d] = {call} PROVE Cardinality(recording[d]) <= 1
    <3>1. Cardinality(recording[d]) = 1
      BY <2>3, FS_Singleton
    <3> QED BY <3>1
  <2> QED BY <2>1, <2>2, <2>3
<1>5. ASSUME NEW day \in DOMAIN segments, NEW line \in Range(segments[day])
      PROVE  line = Garbage \/ (Day(line.t) = day /\ line.states # <<>>)
  <2>1. FilesTyped(segments, spoilt, DOMAIN observed)
    BY DEF ChartInv, SegmentsTyped
  <2>2. PICK k \in DOMAIN segments[day] : line = segments[day][k]
    BY DEF Range
  <2>3. segments[day] \in Seq(Line)
    BY <2>1 DEF FilesTyped
  <2>4. line \in Line
    BY <2>2, <2>3
  <2>5. line = Garbage \/ Day(line.t) = day
    BY <2>1, <2>2 DEF FilesTyped
  <2> QED BY <2>4, <2>5 DEF Line, Writable
<1>6. torn \cup open \subseteq DOMAIN segments
  BY DEF ChartInv, SegmentsTyped
<1>7. chartErr \in BOOLEAN
  BY DEF ChartInv, ChartTypes
<1>8. unsaved \cup spoilt \subseteq DOMAIN slots
  BY <1>1 DEF ChartInv, ChartTypes, RingTyped
<1>9. /\ now \in Window + 1..MaxTime /\ records \in 0..MaxRecords
      /\ writeFaults \in 0..MaxWriteFaults /\ crashes \in 0..MaxCrashes
  BY DEF ChartInv, ChartTypes
<1> QED BY <1>2, <1>3, <1>4, <1>5, <1>6, <1>7, <1>8, <1>9 DEF TypeOK

LEMMA NothingIs == ASSUME NEW f \in Triggering, DOMAIN f = {} PROVE f = <<>>
<1>1. f = [j \in {} |-> f[j]] /\ <<>> = [j \in {} |-> <<>>[j]]
  BY TriggeringIs, NothingTriggers
<1> QED BY <1>1

\* A bucket of the fleet is all that its slot holds of it.
LEMMA FleetBucket ==
  ASSUME NEW t \in Int, RingTyped(slots)
  PROVE  Bucket(slots, "fleet", t) = KeptOf(slots, t)
<1>1. InScope("fleet") = Identities
  BY DEF InScope
<1>2. CASE slots[Slot(t)].t = t
  <2> DEFINE f == slots[Slot(t)].states
  <2>1. f \in Triggering
    BY <1>2, KeptTyped DEF KeptOf
  <2> HIDE DEF f
  <2>2. DOMAIN f \cap Identities = DOMAIN f /\ f = [i \in DOMAIN f |-> f[i]]
    BY <2>1, TriggeringIs
  <2>3. Restrict(f, DOMAIN f \cap Identities) = f
    BY <2>2 DEF Restrict
  <2> QED BY <1>1, <1>2, <2>3 DEF Bucket, KeptOf, f
<1>3. CASE slots[Slot(t)].t # t
  BY <1>3 DEF Bucket, KeptOf
<1> QED BY <1>2, <1>3

LEMMA ChartRight == ChartInv => ChartIsRight
<1> SUFFICES ASSUME ChartInv PROVE ChartIsRight
  OBVIOUS
<1>0. now \in Int /\ now >= Window + 1 /\ Window \in Nat /\ Window > 0
  BY ChartTimes, ChartNumbers DEF ChartInv, ChartTypes
<1>1. RingTyped(slots) /\ RingRight(slots, observed, spoilt, now)
  BY DEF ChartInv, ChartTypes
<1>2. DOMAIN observed \subseteq 1..now /\ \A t \in DOMAIN observed : observed[t] \in Triggering
  BY DEF ChartInv, ChartTypes
<1> DEFINE happened(t) == IF t \in DOMAIN observed THEN observed[t] ELSE <<>>
<1>3. ASSUME NEW t \in Int, Slot(t) \notin spoilt
      PROVE  \/ KeptOf(slots, t) = happened(t)
             \/ t \notin (now - Window + 1)..now /\ KeptOf(slots, t) = <<>>
  <2> DEFINE n == Slot(t)
  <2>1. n \in 0..(Window - 1)
    BY SlotTypes
  <2>2. slots[n] = Unused \/ (slots[n].t \in DOMAIN observed /\ slots[n].states = observed[slots[n].t])
    BY <1>1, <1>3, <2>1 DEF RingRight
  <2>3. CASE slots[n].t = t /\ slots[n] # Unused
    BY <2>2, <2>3 DEF KeptOf
  <2>4. CASE slots[n].t # t \/ slots[n] = Unused
    <3>1. KeptOf(slots, t) = <<>>
      BY <2>4 DEF KeptOf, Unused
    <3>2. ASSUME t \in (now - Window + 1)..now, t \in DOMAIN observed, observed[t] # <<>> PROVE FALSE
      <4>1. slots[n].t = t
        BY <1>0, <1>1, <1>3, <3>2 DEF RingRight
      <4>2. t # NoTime
        BY <1>0, <3>2 DEF NoTime
      <4> QED BY <2>4, <4>1, <4>2 DEF Unused
    <3> QED BY <3>1, <3>2
  <2> QED BY <2>3, <2>4
<1>4. MaxTime \in Int
  BY ChartAssumption
<1>5. \A t \in (now - Window - 1)..MaxTime : t \in Int
  BY <1>0, <1>4
<1> QED BY <1>1, <1>3, <1>5, FleetBucket DEF ChartIsRight

-----------------------------------------------------------------------------
(* What is shown of a timeline.                                             *)

LEMMA AtLeastOne ==
  ASSUME NEW q \in Int PROVE Max({q, 1}) \in Nat /\ Max({q, 1}) > 0
<1>1. CASE q >= 1
  <2>1. Max({q, 1}) = q
    BY <1>1 DEF Max
  <2> QED BY <1>1, <2>1
<1>2. CASE q < 1
  <2>1. Max({q, 1}) = 1
    BY <1>2 DEF Max
  <2> QED BY <2>1
<1> QED BY <1>1, <1>2

LEMMA LesserOf ==
  ASSUME NEW p \in Int, NEW q \in Int PROVE Min({p, q}) = IF p <= q THEN p ELSE q
<1>1. CASE p <= q
  BY <1>1 DEF Min
<1>2. CASE q < p
  BY <1>2 DEF Min
<1> QED BY <1>1, <1>2

\* A display bucket begins where the one before it ends; the last one has no end.
LEMMA DisplayBucketIs ==
  ASSUME NEW x \in Int, NEW from \in Int, NEW step \in Nat, step > 0,
         NEW buckets \in Nat, NEW b \in 0..(buckets - 1)
  PROVE  DisplayBucket(x, from, step, buckets) = b
           <=> /\ from + b * step <= x
               /\ b = buckets - 1 \/ x < from + (b + 1) * step
<1> DEFINE q == (x - from) \div step
<1>0. x - from \in Int /\ b \in Int /\ step * b \in Int
  OBVIOUS
<1>1. /\ q \in Int
      /\ q >= b <=> step * b <= x - from
      /\ q <= b <=> x - from < step * b + step
  <2> PICK n \in Int : n = x - from
    BY <1>0
  <2>1. /\ n \div step \in Int
        /\ n \div step >= b <=> step * b <= n
        /\ n \div step <= b <=> n < step * b + step
    BY <1>0, QuotientBetween
  <2> QED BY <2>1
<1>2. b * step = step * b /\ (b + 1) * step = step * b + step
  OBVIOUS
<1> HIDE DEF q
<1>3. Min({q, buckets - 1}) = IF q <= buckets - 1 THEN q ELSE buckets - 1
  BY <1>1, LesserOf
<1>4. DisplayBucket(x, from, step, buckets) = Min({q, buckets - 1})
  BY DEF DisplayBucket, q
<1>5. Min({q, buckets - 1}) = b <=> q >= b /\ (b = buckets - 1 \/ q <= b)
  BY <1>1, <1>3
<1> QED BY <1>0, <1>1, <1>2, <1>4, <1>5

\* A bucket in finer times.
LEMMA FinerTimes ==
  ASSUME NEW t \in Int, NEW u \in Int
  PROVE  /\ t * Fineness \in Int /\ Fineness * u \in Int
         /\ t * Fineness < Fineness * u + 1 <=> t <= u
         /\ t * Fineness >= 1 <=> t >= 1
         /\ t < u => t * Fineness + Fineness <= Fineness * u
<1>0. Fineness \in Nat /\ Fineness > 0 /\ t * Fineness = Fineness * t
  BY ChartNumbers
<1>1. Fineness * t \in Int /\ Fineness * u \in Int /\ Fineness * 1 = Fineness /\ Fineness * 0 = 0
  BY <1>0
<1>2. t < u => Fineness * t + Fineness <= Fineness * u
  BY <1>0, MultiplesApart
<1>3. u < t => Fineness * u + Fineness <= Fineness * t
  BY <1>0, MultiplesApart
<1>4. t < 1 => Fineness * t + Fineness <= Fineness * 1
  BY <1>0, MultiplesApart
<1>5. 0 < t => Fineness * 0 + Fineness <= Fineness * t
  BY <1>0, MultiplesApart
<1>6. t = u => Fineness * t = Fineness * u
  OBVIOUS
<1> QED BY <1>0, <1>1, <1>2, <1>3, <1>4, <1>5, <1>6

\* The slots that a display bucket is about.
OfDisplay(from, to, step, buckets, b) ==
  {n \in {n \in DOMAIN slots :
            slots[n].t # NoTime /\ from <= slots[n].t * Fineness /\ slots[n].t * Fineness < to} :
     DisplayBucket(slots[n].t * Fineness, from, step, buckets) = b}

InDisplay(scope, of) == (UNION {DOMAIN slots[n].states : n \in of}) \cap InScope(scope)

StatesIn(of, i) == {slots[n].states[i] : n \in {n \in of : i \in DOMAIN slots[n].states}}

LEMMA TimelineShows ==
  ASSUME NEW scope, NEW from, NEW to, NEW buckets, NEW b \in 0..(buckets - 1),
         NEW step, step = Max({(to - from) \div buckets, 1})
  PROVE  LET shown == Timeline(slots, scope, from, to, buckets)[b]
             of == OfDisplay(from, to, step, buckets, b)
         IN  /\ DOMAIN shown = InDisplay(scope, of)
             /\ \A i \in InDisplay(scope, of) : shown[i] = Max(StatesIn(of, i))
  BY DEF Timeline, OfDisplay, InDisplay, StatesIn

\* The buckets of a display bucket.
During(from, to, step, buckets, b) ==
  {t \in 1..now : from + b * step <= t * Fineness
                    /\ t * Fineness < IF b = buckets - 1 THEN to ELSE from + (b + 1) * step}

HadIn(scope, during, i) ==
  {[u \in during |-> Bucket(slots, scope, u)][t][i] :
     t \in {t \in during : i \in DOMAIN [u \in during |-> Bucket(slots, scope, u)][t]}}

LEMMA HadIs ==
  ASSUME NEW scope, NEW during, NEW i
  PROVE  \A mark : mark \in HadIn(scope, during, i) <=>
           \E t \in during : /\ slots[Slot(t)].t = t
                             /\ i \in DOMAIN slots[Slot(t)].states /\ i \in InScope(scope)
                             /\ mark = slots[Slot(t)].states[i]
<1>1. ASSUME NEW t \in during
      PROVE  /\ i \in DOMAIN Bucket(slots, scope, t) <=>
                  /\ slots[Slot(t)].t = t
                  /\ i \in DOMAIN slots[Slot(t)].states /\ i \in InScope(scope)
             /\ i \in DOMAIN Bucket(slots, scope, t) => Bucket(slots, scope, t)[i] = slots[Slot(t)].states[i]
  <2>1. CASE slots[Slot(t)].t # t
    <3>1. Bucket(slots, scope, t) = <<>>
      BY <2>1 DEF Bucket
    <3> QED BY <2>1, <3>1, NothingTriggers
  <2>2. CASE slots[Slot(t)].t = t
    BY <2>2 DEF Bucket, Restrict
  <2> QED BY <2>1, <2>2
<1>2. \A t \in during : [u \in during |-> Bucket(slots, scope, u)][t] = Bucket(slots, scope, t)
  OBVIOUS
<1>3. HadIn(scope, during, i) =
        {Bucket(slots, scope, t)[i] : t \in {t \in during : i \in DOMAIN Bucket(slots, scope, t)}}
  BY <1>2 DEF HadIn
<1> QED BY <1>1, <1>3

\* The slots of a display bucket hold its buckets.
LEMMA DisplayHolds ==
  ASSUME ChartInv, NEW length \in 1..(Fineness * Window), NEW buckets \in {2, 3},
         NEW step \in Nat, step > 0, NEW b \in 0..(buckets - 1),
         NEW to, to = Fineness * now + 1, NEW from, from = to - length
  PROVE  LET of == OfDisplay(from, to, step, buckets, b)
             during == During(from, to, step, buckets, b)
         IN  /\ \A n \in of : slots[n].t \in during /\ Slot(slots[n].t) = n
             /\ \A t \in during : slots[Slot(t)].t = t => Slot(t) \in of
<1> DEFINE of == OfDisplay(from, to, step, buckets, b)
           during == During(from, to, step, buckets, b)
<1>0. /\ now \in Int /\ now > Window /\ Window \in Nat /\ Window \in Int
      /\ Fineness \in Nat /\ Fineness > 0 /\ NoTime = 0
      /\ buckets \in Nat /\ buckets >= 2 /\ b \in Int
  BY ChartTimes, ChartNumbers DEF NoTime
<1>1. Fineness * now \in Int /\ Fineness * Window \in Int /\ Fineness * Window + Fineness <= Fineness * now
  <2>1. Window * Fineness = Fineness * Window
    BY <1>0
  <2> QED BY <1>0, <2>1, FinerTimes
<1>2. from \in Int /\ to \in Int /\ from >= 1
  BY <1>0, <1>1
<1>3. b * step \in Nat /\ (b + 1) * step \in Int /\ from <= from + b * step
  <2>1. b * step \in Nat /\ (b + 1) * step \in Int
    BY <1>0
  <2> QED BY <1>2, <2>1
<1>4. RingTyped(slots)
  BY DEF ChartInv, ChartTypes
<1>5. ASSUME NEW n \in of PROVE slots[n].t \in during /\ Slot(slots[n].t) = n
  <2>1. /\ n \in DOMAIN slots /\ slots[n].t # NoTime
        /\ from <= slots[n].t * Fineness /\ slots[n].t * Fineness < to
        /\ DisplayBucket(slots[n].t * Fineness, from, step, buckets) = b
    BY DEF OfDisplay
  <2>2. slots[n].t \in Int /\ Slot(slots[n].t) = n
    BY <1>4, <2>1 DEF RingTyped, SlotTyped, Unused
  <2>3. PICK t \in Int : t = slots[n].t
    BY <2>2
  <2>4. /\ t * Fineness \in Int
        /\ t * Fineness < Fineness * now + 1 <=> t <= now
        /\ t * Fineness >= 1 <=> t >= 1
    BY <1>0, FinerTimes
  <2>5. t \in 1..now
    BY <1>0, <1>2, <2>1, <2>3, <2>4
  <2>6. /\ from + b * step <= t * Fineness
        /\ b = buckets - 1 \/ t * Fineness < from + (b + 1) * step
    <3>1. DisplayBucket(t * Fineness, from, step, buckets) = b
      BY <2>1, <2>3
    <3> QED BY <1>0, <1>2, <2>4, <3>1, DisplayBucketIs
  <2>7. t \in during
    BY <2>1, <2>3, <2>5, <2>6 DEF During
  <2> QED BY <2>2, <2>3, <2>7
<1>6. ASSUME NEW t \in during, slots[Slot(t)].t = t PROVE Slot(t) \in of
  <2>1. /\ t \in 1..now /\ from + b * step <= t * Fineness
        /\ t * Fineness < IF b = buckets - 1 THEN to ELSE from + (b + 1) * step
    BY DEF During
  <2>2. t \in Int /\ t <= now /\ t >= 1
    BY <1>0, <2>1
  <2>3. /\ t * Fineness \in Int
        /\ t * Fineness < Fineness * now + 1
    BY <1>0, <2>2, FinerTimes
  <2>4. from <= t * Fineness /\ t * Fineness < to
    BY <1>2, <1>3, <2>1, <2>3
  <2>5. DisplayBucket(t * Fineness, from, step, buckets) = b
    BY <1>0, <1>2, <2>1, <2>3, DisplayBucketIs
  <2>6. Slot(t) \in DOMAIN slots /\ t # NoTime
    BY <1>0, <1>4, <2>2, SlotTypes DEF RingTyped
  <2> QED BY <1>6, <2>4, <2>5, <2>6 DEF OfDisplay
<1> QED BY <1>5, <1>6

LEMMA TimelineRight == ChartInv => TimelineIsRight
<1> SUFFICES ASSUME ChartInv,
                    NEW length \in 1..(Fineness * Window), NEW buckets \in {2, 3},
                    NEW scope \in {"fleet"} \cup Range(Target), NEW b \in 0..(buckets - 1)
             PROVE  LET to == Fineness * now + 1
                        from == to - length
                        step == Max({length \div buckets, 1})
                        shown == Timeline(slots, scope, from, to, buckets)
                        during == During(from, to, step, buckets, b)
                    IN  /\ DOMAIN shown[b] = {i \in Identities : HadIn(scope, during, i) # {}}
                        /\ \A i \in DOMAIN shown[b] : shown[b][i] = Max(HadIn(scope, during, i))
  BY Zenon DEF TimelineIsRight, During, HadIn
<1> DEFINE to == Fineness * now + 1
           from == to - length
           step == Max({length \div buckets, 1})
           shown == Timeline(slots, scope, from, to, buckets)[b]
           of == OfDisplay(from, to, step, buckets, b)
           during == During(from, to, step, buckets, b)
<1>1. length \in Int /\ to \in Int /\ from \in Int /\ to - from = length
  <2>1. Fineness * now \in Int /\ Fineness * Window \in Int
    BY ChartTimes, ChartNumbers
  <2> QED BY <2>1
<1>2. step \in Nat /\ step > 0
  <2>1. length \div buckets \in Int
    BY <1>1
  <2> QED BY <2>1, AtLeastOne
<1>3. step = Max({(to - from) \div buckets, 1})
  BY <1>1
<1>4. /\ \A n \in of : slots[n].t \in during /\ Slot(slots[n].t) = n
      /\ \A t \in during : slots[Slot(t)].t = t => Slot(t) \in of
  <2> HIDE DEF step
  <2> QED BY <1>2, DisplayHolds
<1> HIDE DEF to, from, step
<1>5. DOMAIN shown = InDisplay(scope, of) /\ \A i \in InDisplay(scope, of) : shown[i] = Max(StatesIn(of, i))
  BY <1>3, TimelineShows
<1> HIDE DEF of, during, shown
<1>6. ASSUME NEW i \in InScope(scope) PROVE StatesIn(of, i) = HadIn(scope, during, i)
  <2>1. ASSUME NEW n \in of, i \in DOMAIN slots[n].states
        PROVE  slots[n].states[i] \in HadIn(scope, during, i)
    <3>1. PICK t : t = slots[n].t
      OBVIOUS
    <3>2. t \in during /\ Slot(t) = n /\ slots[Slot(t)].t = t
      BY <1>4, <3>1
    <3> QED BY <1>6, <2>1, <3>2, HadIs
  <2>2. ASSUME NEW mark \in HadIn(scope, during, i) PROVE mark \in StatesIn(of, i)
    <3>1. PICK t \in during : /\ slots[Slot(t)].t = t /\ i \in DOMAIN slots[Slot(t)].states
                              /\ mark = slots[Slot(t)].states[i]
      BY HadIs
    <3> QED BY <1>4, <3>1 DEF StatesIn
  <2> QED BY <2>1, <2>2 DEF StatesIn
<1>7. ASSUME NEW i PROVE i \in InDisplay(scope, of) <=> i \in Identities /\ HadIn(scope, during, i) # {}
  <2>1. i \in InDisplay(scope, of) <=> i \in InScope(scope) /\ \E n \in of : i \in DOMAIN slots[n].states
    BY DEF InDisplay
  <2>2. i \in InDisplay(scope, of) <=> i \in InScope(scope) /\ StatesIn(of, i) # {}
    BY <2>1 DEF StatesIn
  <2>3. HadIn(scope, during, i) # {} => i \in InScope(scope)
    BY HadIs
  <2>4. InScope(scope) \subseteq Identities
    BY DEF InScope
  <2> QED BY <1>6, <2>2, <2>3, <2>4
<1>8. DOMAIN shown = {i \in Identities : HadIn(scope, during, i) # {}}
  BY <1>5, <1>7
<1>9. ASSUME NEW i \in DOMAIN shown PROVE shown[i] = Max(HadIn(scope, during, i))
  <2>1. i \in InScope(scope)
    BY <1>5 DEF InDisplay
  <2> QED BY <1>5, <1>6, <2>1
<1> QED BY <1>8, <1>9 DEF shown, during, to, from, step

\* Of every bucket of the window the chart shows all that was triggering in it, of
\* older ones that or nothing, and a timeline counts each state once in each of its
\* display buckets, with the worst it was; a restart, which replays the files, brings
\* all of that back, except of the slots that something went wrong with.
THEOREM ChartsAlwaysRight == Spec => []ChartsAreRight
<1>1. ChartInv => ChartsAreRight
  BY ChartTypeOK, ChartRight, TimelineRight DEF ChartsAreRight
<1> QED BY <1>1, ChartInit, ChartStep, PTL DEF Spec

-----------------------------------------------------------------------------
(* What the chart files lose.                                               *)

\* The inductive invariant: while no write has failed, of the lines that an earlier
\* process left cut, each is still there or has cost one record.
LossesTold ==
  /\ IsFiniteSet(torn) /\ IsFiniteSet(unsaved) /\ IsFiniteSet(leftTorn)
  /\ chartErr \in BOOLEAN
  /\ ~ chartErr => Cardinality(unsaved) + Cardinality(torn) <= Cardinality(leftTorn)

\* What stays as it is, or has fewer cut lines, is as well told of.
LEMMA FewerTorn ==
  ASSUME LossesTold, torn' \subseteq torn, UNCHANGED <<unsaved, leftTorn, chartErr>>
  PROVE  LossesTold'
<1>1. IsFiniteSet(torn') /\ Cardinality(torn') <= Cardinality(torn)
  BY FS_Subset DEF LossesTold
<1>2. Cardinality(torn) \in Nat /\ Cardinality(torn') \in Nat /\ Cardinality(unsaved) \in Nat /\ Cardinality(leftTorn) \in Nat
  BY <1>1, FS_CardinalityType DEF LossesTold
<1> QED BY <1>1, <1>2 DEF LossesTold

\* After a write that failed nothing is promised, until there is a restart.
LEMMA LostRecordTold ==
  ASSUME NEW d \in Docs, LossesTold, RecordFails(d)
  PROVE  LossesTold'
<1>1. PICK call : FailedWrite(call) /\ chartErr' = TRUE /\ leftTorn' = leftTorn
  BY DEF RecordFails
<1>2. torn' \subseteq torn \cup {Day(call.t)} /\ unsaved' = unsaved \cup {Slot(call.t)}
  BY <1>1 DEF FailedWrite
<1>3. IsFiniteSet(torn \cup {Day(call.t)}) /\ IsFiniteSet(unsaved \cup {Slot(call.t)})
  BY FS_AddElement DEF LossesTold
<1>4. IsFiniteSet(torn') /\ IsFiniteSet(unsaved')
  BY <1>2, <1>3, FS_Subset
<1> QED BY <1>1, <1>4 DEF LossesTold

\* A record that runs into a cut line uses it up.
LEMMA TornLineCostsOne ==
  ASSUME NEW d \in Docs, LossesTold, RecordFile(d)
  PROVE  LossesTold'
<1>1. PICK call : IF lastWritten = {Digest(call)} THEN UNCHANGED <<torn, unsaved>>
                  ELSE /\ torn' = (torn \cap DOMAIN segments') \ {Day(call.t)}
                       /\ unsaved' = IF Day(call.t) \in torn THEN unsaved \cup {Slot(call.t)} ELSE unsaved
  BY DEF RecordFile
<1>2. UNCHANGED <<chartErr, leftTorn>>
  BY DEF RecordFile
<1>3. CASE unsaved' = unsaved
  <2>1. torn' \subseteq torn
    BY <1>1
  <2> QED BY <2>1, <1>2, <1>3, FewerTorn
<1>4. CASE unsaved' # unsaved
  <2> DEFINE day == Day(call.t)
             slot == Slot(call.t)
  <2>1. day \in torn /\ torn' \subseteq torn \ {day} /\ unsaved' = unsaved \cup {slot}
    BY <1>1, <1>4
  <2> HIDE DEF day, slot
  <2>2. IsFiniteSet(torn \ {day}) /\ Cardinality(torn \ {day}) = Cardinality(torn) - 1
    BY <2>1, FS_RemoveElement DEF LossesTold
  <2>3. IsFiniteSet(torn') /\ Cardinality(torn') <= Cardinality(torn \ {day})
    BY <2>1, <2>2, FS_Subset
  <2>4. slot \notin unsaved
    BY <2>1, <1>4
  <2>5. IsFiniteSet(unsaved') /\ Cardinality(unsaved') = Cardinality(unsaved) + 1
    BY <2>1, <2>4, FS_AddElement DEF LossesTold
  <2>6. /\ Cardinality(torn) \in Nat /\ Cardinality(torn') \in Nat
        /\ Cardinality(unsaved) \in Nat /\ Cardinality(leftTorn) \in Nat
    BY <2>3, FS_CardinalityType DEF LossesTold
  <2> QED BY <2>2, <2>3, <2>5, <2>6, <1>2 DEF LossesTold
<1> QED BY <1>3, <1>4

\* With a restart the count begins anew.
LEMMA RestartCountsAnew ==
  ASSUME LossesTold, Crash
  PROVE  LossesTold'
<1>1. PICK cut \in {{}} \cup {{Day(call.t)} : call \in {call \in UNION Range(recording) : call.inMemory}} :
        torn' = (torn \cup cut) \cap DOMAIN Swept(segments, now - Window)
  BY DEF Crash
<1>2. unsaved' = {} /\ leftTorn' = torn' /\ chartErr' = FALSE
  BY DEF Crash
<1>3. \/ cut = {}
      \/ \E day : cut = {day}
  OBVIOUS
<1>4. IsFiniteSet(torn \cup cut)
  BY <1>3, FS_AddElement DEF LossesTold
<1>5. IsFiniteSet(torn')
  BY <1>1, <1>4, FS_Subset
<1>6. Cardinality(torn') \in Nat /\ IsFiniteSet({}) /\ Cardinality({}) = 0
  BY <1>5, FS_CardinalityType, FS_EmptySet
<1>7. IsFiniteSet(unsaved') /\ IsFiniteSet(leftTorn') /\ Cardinality(unsaved') = 0
  BY <1>2, <1>5, <1>6
<1>8. Cardinality(unsaved') + Cardinality(torn') <= Cardinality(leftTorn')
  <2>1. Cardinality(leftTorn') = Cardinality(torn')
    BY <1>2
  <2> QED BY <2>1, <1>6, <1>7
<1>9. (chartErr \in BOOLEAN)'
  BY <1>2
<1> QED BY <1>5, <1>7, <1>8, <1>9 DEF LossesTold

LEMMA LossesTold_Next ==
  ASSUME LossesTold, [Next]_vars
  PROVE  LossesTold'
<1>1. CASE Tick \/ CloseFile \/ UNCHANGED vars
  BY <1>1, FewerTorn DEF Tick, CloseFile, vars
<1>2. CASE Crash
  BY <1>2, RestartCountsAnew
<1>3. ASSUME NEW d \in Docs, Ingested(d) \/ RecordMemory(d)
      PROVE  LossesTold'
  BY <1>3, FewerTorn DEF Ingested, RecordMemory
<1>4. ASSUME NEW d \in Docs, RecordFails(d)
      PROVE  LossesTold'
  BY <1>4, LostRecordTold
<1>5. ASSUME NEW d \in Docs, RecordFile(d)
      PROVE  LossesTold'
  BY <1>5, TornLineCostsOne
<1> QED BY <1>1, <1>2, <1>3, <1>4, <1>5 DEF Next

\* While no write has failed since the process started, no more records are missing
\* from the files than lines were cut when it did (FileChartStore.append writes behind
\* them), for any documents, window, days and number of crashes.
THEOREM UnsavedAlwaysTold == Spec => []UnsavedIsTold
<1>1. Init => LossesTold
  <2> SUFFICES ASSUME Init PROVE LossesTold
    OBVIOUS
  <2>1. torn = {} /\ unsaved = {} /\ leftTorn = {} /\ chartErr = FALSE
    BY DEF Init
  <2>2. IsFiniteSet(torn) /\ IsFiniteSet(unsaved) /\ IsFiniteSet(leftTorn)
    BY <2>1, FS_EmptySet
  <2>3. Cardinality(unsaved) = 0 /\ Cardinality(torn) = 0 /\ Cardinality(leftTorn) = 0
    BY <2>1, FS_EmptySet
  <2>4. chartErr \in BOOLEAN
    BY <2>1
  <2>5. Cardinality(unsaved) + Cardinality(torn) <= Cardinality(leftTorn)
    BY <2>3
  <2> QED BY <2>2, <2>4, <2>5 DEF LossesTold
<1>2. LossesTold /\ [Next]_vars => LossesTold'
  BY LossesTold_Next
<1>3. LossesTold => UnsavedIsTold
  BY FS_CardinalityType DEF LossesTold, UnsavedIsTold
<1> QED BY <1>1, <1>2, <1>3, PTL DEF Spec

=============================================================================
