---------------------------- MODULE ScrapingProofs ----------------------------
(****************************************************************************)
(* Proofs about what is scraped and what is made of it.  Exposition: no     *)
(* addition to a counter is lost and every page is right, for any number of *)
(* callers, labels, collectors and pages.  Scraping: the status settles by  *)
(* the failure policy, and what is shown is recent, for all thresholds and  *)
(* times.                                                                   *)
(****************************************************************************)
EXTENDS Exposition, Scraping, FiniteSetTheorems, WellFoundedInduction, TLAPS

-----------------------------------------------------------------------------
(* The counters of Exposition.                                              *)

\* Where a call may be: it holds the counter that its label has.
CallerOf(p) ==
  \/ caller[p] = Idle
  \/ \E l \in Labels : caller[p] = [at |-> "missing", label |-> l]
  \/ \E l \in DOMAIN vec : caller[p] = [at |-> "found", label |-> l, counter |-> vec[l]]

\* Every label has a counter of its own.
VecTypes ==
  /\ DOMAIN vec \subseteq Labels
  /\ counts \in Seq(Nat)
  /\ \A l \in DOMAIN vec : vec[l] \in 1..Len(counts)
  /\ \A l, m \in DOMAIN vec : vec[l] = vec[m] => l = m

CallTypes ==
  /\ caller = [p \in Callers |-> caller[p]]
  /\ added \in [Labels -> Nat]
  /\ \A p \in Callers : CallerOf(p)

\* The inductive invariant.
CountersInv == VecTypes /\ CallTypes /\ NoAdditionLost

LEMMA CountersInit == ExpositionInit => CountersInv
<1> SUFFICES ASSUME ExpositionInit PROVE CountersInv
  OBVIOUS
<1>1. DOMAIN vec = {} /\ counts = <<>> /\ Len(counts) = 0
  BY DEF ExpositionInit
<1>2. VecTypes
  BY <1>1 DEF VecTypes
<1>3. CallTypes
  BY DEF CallTypes, CallerOf, ExpositionInit
<1>4. NoAdditionLost
  BY <1>1 DEF NoAdditionLost, ExpositionInit
<1> QED BY <1>2, <1>3, <1>4 DEF CountersInv

\* A lookup finds the counter that the label has, or none.
LEMMA LookupKeeps ==
  ASSUME CountersInv, NEW p \in Callers, NEW l \in Labels, Lookup(p, l)
  PROVE  CountersInv'
<1> USE DEF Lookup
<1>1. VecTypes' /\ NoAdditionLost'
  BY DEF CountersInv, VecTypes, NoAdditionLost
<1>2. caller' = [q \in Callers |-> caller'[q]] /\ added' \in [Labels -> Nat]
  BY DEF CountersInv, CallTypes
<1>3. ASSUME NEW q \in Callers PROVE CallerOf(q)'
  <2>1. CASE q # p
    BY <2>1 DEF CountersInv, CallTypes, CallerOf
  <2>2. CASE q = p /\ l \in DOMAIN vec
    <3>1. caller'[p] = [at |-> "found", label |-> l, counter |-> vec[l]]
      BY <2>2 DEF CountersInv, CallTypes
    <3> QED BY <2>2, <3>1 DEF CallerOf
  <2>3. CASE q = p /\ l \notin DOMAIN vec
    <3>1. caller'[p] = [at |-> "missing", label |-> l]
      BY <2>3 DEF CountersInv, CallTypes
    <3> QED BY <2>3, <3>1 DEF CallerOf
  <2> QED BY <2>1, <2>2, <2>3
<1> QED BY <1>1, <1>2, <1>3 DEF CountersInv, CallTypes

\* Whoever comes with the write lock makes a counter only if there is none.
LEMMA MakeKeeps ==
  ASSUME CountersInv, NEW p \in Callers, MakeCounter(p)
  PROVE  CountersInv'
<1>1. PICK l \in Labels : caller[p] = [at |-> "missing", label |-> l]
  BY DEF MakeCounter, CountersInv, CallTypes, CallerOf, Idle
<1>2. /\ vec' = [k \in DOMAIN vec \cup {l} |-> IF k = l THEN Made(l) ELSE vec[k]]
      /\ counts' = IF Made(l) > Len(counts) THEN Append(counts, 0) ELSE counts
      /\ caller' = [caller EXCEPT ![p] = [at |-> "found", label |-> l, counter |-> Made(l)]]
      /\ added' = added
  BY <1>1 DEF MakeCounter
<1>3. counts \in Seq(Nat) /\ Len(counts) \in Nat
  BY DEF CountersInv, VecTypes
<1>4. CASE l \in DOMAIN vec
  <2>1. Made(l) = vec[l] /\ vec[l] \in 1..Len(counts)
    BY <1>4 DEF Made, CountersInv, VecTypes
  <2>2. counts' = counts
    BY <1>2, <1>3, <2>1
  <2>3. DOMAIN vec' = DOMAIN vec /\ \A k \in DOMAIN vec : vec'[k] = vec[k]
    BY <1>2, <1>4, <2>1
  <2>4. VecTypes' /\ NoAdditionLost'
    BY <1>2, <2>2, <2>3 DEF CountersInv, VecTypes, NoAdditionLost
  <2>5. ASSUME NEW q \in Callers PROVE CallerOf(q)'
    BY <1>2, <1>4, <2>1, <2>3 DEF CountersInv, CallTypes, CallerOf
  <2> QED BY <1>2, <2>4, <2>5 DEF CountersInv, CallTypes
<1>5. CASE l \notin DOMAIN vec
  <2>1. Made(l) = Len(counts) + 1
    BY <1>5 DEF Made
  <2>2. counts' = Append(counts, 0)
    BY <1>2, <1>3, <2>1
  <2>3. /\ counts' \in Seq(Nat) /\ Len(counts') = Len(counts) + 1
        /\ \A i \in 1..Len(counts) : counts'[i] = counts[i]
        /\ counts'[Len(counts) + 1] = 0
    BY <1>3, <2>2
  <2>4. /\ DOMAIN vec' = DOMAIN vec \cup {l}
        /\ vec'[l] = Len(counts) + 1
        /\ \A k \in DOMAIN vec : vec'[k] = vec[k]
    BY <1>2, <1>5, <2>1
  <2>5. VecTypes'
    <3>1. DOMAIN vec' \subseteq Labels
      BY <2>4 DEF CountersInv, VecTypes
    <3>2. ASSUME NEW k \in DOMAIN vec' PROVE vec'[k] \in 1..Len(counts')
      BY <1>3, <2>3, <2>4 DEF CountersInv, VecTypes
    <3>3. ASSUME NEW k \in DOMAIN vec', NEW m \in DOMAIN vec', vec'[k] = vec'[m] PROVE k = m
      BY <1>3, <2>4, <3>3 DEF CountersInv, VecTypes
    <3> QED BY <2>3, <3>1, <3>2, <3>3 DEF VecTypes
  <2>6. NoAdditionLost'
    <3> SUFFICES ASSUME NEW k \in Labels
                 PROVE  added[k] = IF k \in DOMAIN vec' THEN counts'[vec'[k]] ELSE 0
      BY <1>2 DEF NoAdditionLost
    <3>1. CASE k = l
      BY <1>5, <2>3, <2>4, <3>1 DEF CountersInv, NoAdditionLost
    <3>2. CASE k # l
      BY <2>3, <2>4, <3>2 DEF CountersInv, NoAdditionLost, VecTypes
    <3> QED BY <3>1, <3>2
  <2>7. ASSUME NEW q \in Callers PROVE CallerOf(q)'
    <3>1. CASE q = p
      <4>1. caller'[p] = [at |-> "found", label |-> l, counter |-> vec'[l]]
        BY <1>2, <2>1, <2>4 DEF CountersInv, CallTypes
      <4> QED BY <2>4, <3>1, <4>1 DEF CallerOf
    <3>2. CASE q # p
      BY <1>2, <2>4, <3>2 DEF CountersInv, CallTypes, CallerOf
    <3> QED BY <3>1, <3>2
  <2> QED BY <1>2, <2>5, <2>6, <2>7 DEF CountersInv, CallTypes
<1> QED BY <1>4, <1>5

\* An addition is to the counter that the label has, and to no other label's.
LEMMA AddKeeps ==
  ASSUME CountersInv, NEW p \in Callers, Add(p)
  PROVE  CountersInv'
<1>1. PICK l \in DOMAIN vec : caller[p] = [at |-> "found", label |-> l, counter |-> vec[l]]
  BY DEF Add, CountersInv, CallTypes, CallerOf, Idle
<1>2. /\ added' = [added EXCEPT ![l] = @ + 1]
      /\ counts' = [counts EXCEPT ![vec[l]] = @ + 1]
      /\ caller' = [caller EXCEPT ![p] = Idle]
      /\ vec' = vec
  BY <1>1 DEF Add
<1>3. l \in Labels /\ vec[l] \in 1..Len(counts) /\ counts \in Seq(Nat) /\ added \in [Labels -> Nat]
  BY DEF CountersInv, VecTypes, CallTypes
<1>4. /\ counts' \in Seq(Nat) /\ Len(counts') = Len(counts)
      /\ counts'[vec[l]] = counts[vec[l]] + 1
      /\ \A i \in 1..Len(counts) : i # vec[l] => counts'[i] = counts[i]
  BY <1>2, <1>3
<1>5. VecTypes'
  BY <1>2, <1>4 DEF CountersInv, VecTypes
<1>6. NoAdditionLost'
  <2> SUFFICES ASSUME NEW k \in Labels
               PROVE  added'[k] = IF k \in DOMAIN vec THEN counts'[vec[k]] ELSE 0
    BY <1>2 DEF NoAdditionLost
  <2>1. CASE k = l
    BY <1>2, <1>3, <1>4, <2>1 DEF CountersInv, NoAdditionLost
  <2>2. CASE k # l /\ k \in DOMAIN vec
    <3>1. vec[k] # vec[l] /\ vec[k] \in 1..Len(counts)
      BY <2>2 DEF CountersInv, VecTypes
    <3> QED BY <1>2, <1>3, <1>4, <2>2, <3>1 DEF CountersInv, NoAdditionLost
  <2>3. CASE k # l /\ k \notin DOMAIN vec
    BY <1>2, <1>3, <2>3 DEF CountersInv, NoAdditionLost
  <2> QED BY <2>1, <2>2, <2>3
<1>7. CallTypes'
  <2>1. caller' = [q \in Callers |-> caller'[q]] /\ added' \in [Labels -> Nat]
    BY <1>2, <1>3 DEF CountersInv, CallTypes
  <2>2. ASSUME NEW q \in Callers PROVE CallerOf(q)'
    BY <1>2 DEF CountersInv, CallTypes, CallerOf
  <2> QED BY <2>1, <2>2 DEF CallTypes
<1> QED BY <1>5, <1>6, <1>7 DEF CountersInv

\* Registrations and pages leave the counters alone.
LEMMA OthersKeep ==
  ASSUME CountersInv, UNCHANGED counterVars
  PROVE  CountersInv'
<1>1. UNCHANGED vec /\ UNCHANGED counts /\ UNCHANGED caller /\ UNCHANGED added
  BY DEF counterVars
<1> QED BY <1>1 DEF CountersInv, VecTypes, CallTypes, CallerOf, NoAdditionLost

LEMMA CountersStep == CountersInv /\ [ExpositionNext]_expositionVars => CountersInv'
<1> SUFFICES ASSUME CountersInv, [ExpositionNext]_expositionVars PROVE CountersInv'
  OBVIOUS
<1>1. CASE \E p \in Callers, l \in Labels : Lookup(p, l)
  BY <1>1, LookupKeeps
<1>2. CASE \E p \in Callers : MakeCounter(p)
  BY <1>2, MakeKeeps
<1>3. CASE \E p \in Callers : Add(p)
  BY <1>3, AddKeeps
<1>4. CASE UNCHANGED counterVars
  BY <1>4, OthersKeep
<1>5. \/ \E p \in Callers, l \in Labels : Lookup(p, l)
      \/ \E p \in Callers : MakeCounter(p) \/ Add(p)
      \/ UNCHANGED counterVars
  BY DEF ExpositionNext, expositionVars, RegisterCollectors, RegisterState, StartPage,
         CollectStates, CollectVec, ReadCounter, FinishPage, counterVars
<1> QED BY <1>1, <1>2, <1>3, <1>4, <1>5

\* For any callers and labels, every addition is in the one counter that its label
\* has, whoever made it (CounterVec.GetMetricWithLabelValues, Counter.Add).
THEOREM NoAdditionEverLost == ExpositionSpec => []NoAdditionLost
<1>1. CountersInv => NoAdditionLost
  BY DEF CountersInv
<1> QED BY CountersInit, CountersStep, <1>1, PTL DEF ExpositionSpec

-----------------------------------------------------------------------------
(* The page of Exposition.                                                  *)

\* Parts of names are strings; those the module writes are named, since no prover
\* knows a literal to be a string.
Part == STRING \cup {"state_level", "", "total", "created", "sum", "count", "bucket"}

\* What is known of a name is the description of one that is registered.
DescsOK(known, cs) ==
  /\ StateLevel.name \in DOMAIN known
  /\ \A n \in DOMAIN known :
       /\ n \in Seq(Part)
       /\ known[n].name = n
       /\ known[n] = StateLevel \/ \E c \in Range(cs) : known[n] = Describes[c]
  /\ \A c \in Range(cs) : Describes[c].name \in DOMAIN known

\* A collector that was answered by an error is still registered, and of another
\* form than what is known of its name.
ClashStays ==
  conflicted => \E c \in Range(collectors) : Clashes(descs, Describes[c])

RegistryInv ==
  /\ collectors \in Seq(Collectors) /\ DescsOK(descs, collectors) /\ ClashStays
  /\ states \in Seq(RegistryStates)
  /\ RefusedForConflict

\* The value a label's counter has.
CountOfLabel(l) == IF l \in DOMAIN vec THEN counts[vec[l]] ELSE 0

\* Counts of a finished page are behind the counters.
PublishedOK ==
  \A l \in Labels : published[l] \in Nat /\ published[l] <= CountOfLabel(l)

\* What a rendering has copied of the registry, of which it may have more by now.
CopyOK ==
  LET copied == rendering.copied
  IN  /\ copied.published = published
      /\ copied.collectors \subseteq Collectors /\ copied.states \subseteq Range(states)
      /\ DOMAIN copied.descs \subseteq Seq(Part)

\* The samples so far: a row of each that has none of its own counters, and counts
\* between those published and those of now.
SamplesOK ==
  /\ \A s \in rendering.samples :
       /\ s.name \in Seq(Part)
       /\ s.of \in Labels => s.value \in published[s.of]..CountOfLabel(s.of)
  /\ rendering.at \in {"collectors", "counters"} =>
       rendering.copied.states \cup (rendering.copied.collectors \ {CounterVec})
         \subseteq {s.of : s \in rendering.samples}

\* The counters that are still to be read, and those that have been.
UnreadOK ==
  /\ rendering.at # "counters" => DOMAIN rendering.unread = {}
  /\ rendering.at = "counters" =>
       /\ \A l \in DOMAIN rendering.unread : l \in DOMAIN vec /\ rendering.unread[l] = vec[l]
       /\ CounterVec \in rendering.copied.collectors =>
            \A l \in Labels : published[l] > 0 =>
              l \in DOMAIN rendering.unread \/ Shown(l) # {}

PageInv ==
  /\ rendering = [at |-> rendering.at, copied |-> rendering.copied,
                  samples |-> rendering.samples, unread |-> rendering.unread]
  /\ rendering.at \in {"idle", "states", "collectors", "counters"}
  /\ PublishedOK
  /\ rendering.at # "idle" => CopyOK
  /\ SamplesOK
  /\ UnreadOK

\* The inductive invariant.
ExpositionInv == CountersInv /\ RegistryInv /\ PageInv

-----------------------------------------------------------------------------
(* Sets of numbers.                                                         *)

LEMMA LeastOfNats ==
  ASSUME NEW S \in SUBSET Nat, S # {}
  PROVE  Min(S) \in S /\ \A k \in S : Min(S) <= k
<1> DEFINE T == {0..k : k \in S}
<1>1. T \subseteq FiniteSubsetsOf(Nat) /\ T # {}
  <2>1. ASSUME NEW k \in S PROVE 0..k \in FiniteSubsetsOf(Nat)
    <3>1. k \in Int /\ 0 \in Int /\ 0..k \in SUBSET Nat
      OBVIOUS
    <3> QED BY <3>1, FS_Interval DEF FiniteSubsetsOf
  <2> QED BY <2>1
<1>2. IsWellFoundedOn(StrictSubsetOrdering(Nat), FiniteSubsetsOf(Nat))
  BY FS_StrictSubsetOrderingWellFounded
<1> HIDE DEF T
<1>3. \E x \in T : \A y \in T : ~ (<<y, x>> \in StrictSubsetOrdering(Nat))
  BY <1>1, <1>2, WFMin
<1>4. PICK x \in S : \A y \in T : ~ (<<y, 0..x>> \in StrictSubsetOrdering(Nat))
  BY <1>3 DEF T
<1>5. ASSUME NEW y \in S, ~(x <= y) PROVE FALSE
  <2>1. x \in Nat /\ y \in Nat /\ y < x
    BY <1>5
  <2>2. 0..y \subseteq 0..x /\ 0..x \in SUBSET Nat /\ x \in 0..x /\ x \notin 0..y
    BY <2>1
  <2>3. <<0..y, 0..x>> \in StrictSubsetOrdering(Nat)
    BY <2>2 DEF StrictSubsetOrdering
  <2> QED BY <1>4, <2>3 DEF T
<1>6. \A y \in S : x <= y
  BY <1>5
<1>7. \A y \in S : (\A z \in S : y <= z) => y = x
  BY <1>6
<1> QED BY <1>6, <1>7 DEF Min

LEMMA GreatestOfRange ==
  ASSUME NEW n \in Nat, NEW S \in SUBSET (1..n), S # {}
  PROVE  Max(S) \in S /\ \A k \in S : k <= Max(S)
<1> DEFINE T == {n - k : k \in S}
<1>1. T \in SUBSET Nat /\ T # {}
  <2>1. \A k \in S : n - k \in Nat
    OBVIOUS
  <2> QED BY <2>1
<1>2. PICK t \in T : \A u \in T : t <= u
  BY <1>1, LeastOfNats
<1>3. PICK x \in S : t = n - x
  OBVIOUS
<1>4. \A y \in S : n - y \in T
  OBVIOUS
<1>5. \A y \in S : y <= x
  <2> HIDE DEF T
  <2>1. \A y \in S : y \in Int /\ n - x <= n - y
    BY <1>2, <1>3, <1>4
  <2> QED BY <2>1
<1>6. \A y \in S : (\A z \in S : y >= z) => y = x
  BY <1>5
<1> QED BY <1>5, <1>6 DEF Max

LEMMA LongerSeqs ==
  ASSUME NEW S, NEW T, S \subseteq T PROVE Seq(S) \subseteq Seq(T)
OBVIOUS

LEMMA StringsAreParts == Seq(STRING) \subseteq Seq(Part)
<1>1. STRING \subseteq Part
  BY DEF Part
<1> QED BY <1>1, LongerSeqs

-----------------------------------------------------------------------------
(* What a registration makes known.                                         *)

\* The names that the first n of cs describe, and a description that one of them has.
NamesOf(cs, n) == {Describes[cs[i]].name : i \in 1..n}

GivenBy(d, name, cs, n) == \E i \in 1..n : Describes[cs[i]].name = name /\ d = Describes[cs[i]]

NoneClashes(cs, n) == \A i \in 1..n : i \notin ClashesIn(cs)

LEMMA KnownNames ==
  ASSUME NEW cs, NEW n \in Nat
  PROVE  DOMAIN KnownAfter(cs, n) = DOMAIN descs \cup NamesOf(cs, n)
BY DEF KnownAfter, NamesOf

LEMMA KnownValue ==
  ASSUME NEW cs, NEW n \in Nat, NEW name \in DOMAIN KnownAfter(cs, n)
  PROVE  \/ name \in DOMAIN descs /\ KnownAfter(cs, n)[name] = descs[name]
         \/ GivenBy(KnownAfter(cs, n)[name], name, cs, n)
<1>1. name \in DOMAIN descs \cup NamesOf(cs, n)
  BY KnownNames
<1>2. CASE Describing(name, cs, n) = {}
  <2>1. KnownAfter(cs, n)[name] = descs[name]
    BY <1>1, <1>2 DEF KnownAfter, NamesOf
  <2> QED BY <1>1, <1>2, <2>1 DEF Describing, NamesOf
<1>3. CASE Describing(name, cs, n) # {}
  <2>1. Describing(name, cs, n) \in SUBSET (1..n)
    BY DEF Describing
  <2>2. Max(Describing(name, cs, n)) \in Describing(name, cs, n)
    BY <1>3, <2>1, GreatestOfRange
  <2>3. KnownAfter(cs, n)[name] = Describes[cs[Max(Describing(name, cs, n))]]
    BY <1>1, <1>3 DEF KnownAfter, NamesOf
  <2> QED BY <2>2, <2>3 DEF Describing, GivenBy
<1> QED BY <1>2, <1>3

\* As long as nothing clashes, a name keeps the form that is known of it.
LEMMA KnownForm ==
  ASSUME NEW cs, Len(cs) \in Nat, NEW n \in Nat, n <= Len(cs), NEW name \in DOMAIN descs,
         NoneClashes(cs, n)
  PROVE  name \in DOMAIN KnownAfter(cs, n) /\ KnownAfter(cs, n)[name].form = descs[name].form
<1> DEFINE Other == {i \in 1..n : /\ Describes[cs[i]].name = name
                                  /\ Describes[cs[i]].form # descs[name].form}
<1>1. Other = {}
  <2> SUFFICES ASSUME Other # {} PROVE FALSE
    OBVIOUS
  <2>1. Other \in SUBSET Nat
    OBVIOUS
  <2> HIDE DEF Other
  <2>2. PICK i \in Other : \A j \in Other : i <= j
    BY <2>1, LeastOfNats
  <2>3. /\ i \in 1..n /\ i \in 1..Len(cs) /\ i - 1 \in Nat
        /\ Describes[cs[i]].name = name /\ Describes[cs[i]].form # descs[name].form
    BY DEF Other
  <2>4. name \in DOMAIN KnownAfter(cs, i - 1)
    BY <2>3, KnownNames
  <2>5. KnownAfter(cs, i - 1)[name].form = descs[name].form
    <3>1. CASE KnownAfter(cs, i - 1)[name] = descs[name]
      BY <3>1
    <3>2. CASE GivenBy(KnownAfter(cs, i - 1)[name], name, cs, i - 1)
      <4>1. PICK j \in 1..(i - 1) : /\ Describes[cs[j]].name = name
                                    /\ KnownAfter(cs, i - 1)[name] = Describes[cs[j]]
        BY <3>2 DEF GivenBy
      <4>2. j \in 1..n /\ ~(i <= j)
        BY <2>3
      <4>3. j \notin Other
        BY <2>2, <4>2
      <4> QED BY <4>1, <4>2, <4>3 DEF Other
    <3> QED BY <2>3, <2>4, <3>1, <3>2, KnownValue
  <2>6. ~Clashes(KnownAfter(cs, i - 1), Describes[cs[i]])
    BY <2>3 DEF ClashesIn, NoneClashes
  <2> QED BY <2>3, <2>4, <2>5, <2>6 DEF Clashes
<1>2. name \in DOMAIN KnownAfter(cs, n)
  BY KnownNames
<1>3. CASE GivenBy(KnownAfter(cs, n)[name], name, cs, n)
  BY <1>1, <1>2, <1>3 DEF GivenBy
<1> QED BY <1>2, <1>3, KnownValue

LEMMA JoinedSeqs ==
  ASSUME NEW S, NEW p \in Seq(S), NEW q \in Seq(S)
  PROVE  /\ p \o q \in Seq(S)
         /\ Len(p \o q) = Len(p) + Len(q)
         /\ \A i \in 1..Len(p) : (p \o q)[i] = p[i]
         /\ \A i \in 1..Len(q) : (p \o q)[Len(p) + i] = q[i]
OBVIOUS

\* A registration that stops after m of cs, the last of them known or clashing.
LEMMA RegisteredDescs ==
  ASSUME RegistryInv, NEW cs \in Seq(Collectors), NEW n \in Nat, NEW m \in Nat, n <= m, m <= Len(cs),
         NamesOf(cs, m) \subseteq DOMAIN KnownAfter(cs, n),
         collectors' = collectors \o SubSeq(cs, 1, m), descs' = KnownAfter(cs, n)
  PROVE  /\ collectors' \in Seq(Collectors)
         /\ Range(collectors') = Range(collectors) \cup {cs[i] : i \in 1..m}
         /\ DescsOK(descs, collectors)'
<1> DEFINE ds == SubSeq(cs, 1, m)
<1>1. /\ collectors \in Seq(Collectors) /\ ds \in Seq(Collectors)
      /\ Len(ds) = m /\ \A i \in 1..m : ds[i] = cs[i]
  BY DEF RegistryInv
<1> HIDE DEF ds
<1>2. /\ collectors' \in Seq(Collectors)
      /\ Len(collectors') = Len(collectors) + m
      /\ \A i \in 1..Len(collectors) : collectors'[i] = collectors[i]
      /\ \A i \in 1..m : collectors'[Len(collectors) + i] = cs[i]
  <2>1. collectors' = collectors \o ds
    BY DEF ds
  <2>2. \A p \in Seq(Collectors), q \in Seq(Collectors) :
          /\ p \o q \in Seq(Collectors)
          /\ Len(p \o q) = Len(p) + Len(q)
          /\ \A i \in 1..Len(p) : (p \o q)[i] = p[i]
          /\ \A i \in 1..Len(q) : (p \o q)[Len(p) + i] = q[i]
    BY JoinedSeqs
  <2>3. /\ collectors \o ds \in Seq(Collectors)
        /\ Len(collectors \o ds) = Len(collectors) + Len(ds)
        /\ \A i \in 1..Len(collectors) : (collectors \o ds)[i] = collectors[i]
        /\ \A i \in 1..Len(ds) : (collectors \o ds)[Len(collectors) + i] = ds[i]
    BY <1>1, <2>2, Zenon
  <2> QED BY <1>1, <2>1, <2>3
<1>3. Range(collectors') = Range(collectors) \cup {cs[i] : i \in 1..m}
  <2>0. /\ Len(collectors) \in Nat /\ Len(collectors') \in Nat
        /\ Range(collectors) = {collectors[i] : i \in 1..Len(collectors)}
        /\ Range(collectors') = {collectors'[i] : i \in 1..Len(collectors')}
    <3>1. DOMAIN collectors = 1..Len(collectors) /\ DOMAIN collectors' = 1..Len(collectors')
      BY <1>1, <1>2
    <3>2. Len(collectors) \in Nat /\ Len(collectors') \in Nat
      BY <1>1, <1>2
    <3> QED BY <3>1, <3>2 DEF Range
  <2>1. ASSUME NEW c \in Range(collectors')
        PROVE  c \in Range(collectors) \cup {cs[i] : i \in 1..m}
    <3>1. PICK k \in 1..Len(collectors') : c = collectors'[k]
      BY <2>0
    <3>2. CASE k \in 1..Len(collectors)
      BY <2>0, <1>2, <3>1, <3>2
    <3>3. CASE k \notin 1..Len(collectors)
      <4>1. k - Len(collectors) \in 1..m /\ k = Len(collectors) + (k - Len(collectors))
        BY <2>0, <1>2, <3>3
      <4>2. collectors'[k] = cs[k - Len(collectors)]
        BY <1>2, <4>1
      <4> QED BY <3>1, <4>1, <4>2
    <3> QED BY <3>2, <3>3
  <2>2. Range(collectors) \subseteq Range(collectors')
    <3>1. \A i \in 1..Len(collectors) : i \in 1..Len(collectors')
      BY <2>0, <1>2
    <3> QED BY <2>0, <1>2, <3>1
  <2>3. ASSUME NEW i \in 1..m PROVE cs[i] \in Range(collectors')
    <3>1. Len(collectors) + i \in 1..Len(collectors')
      BY <2>0, <1>2
    <3> QED BY <1>2, <2>0, <3>1
  <2> QED BY <2>1, <2>2, <2>3
<1>4. /\ StateLevel.name \in DOMAIN descs
      /\ \A c \in Range(collectors) : Describes[c].name \in DOMAIN descs
  BY DEF RegistryInv, DescsOK
<1>5. \A i \in 1..m : cs[i] \in Collectors /\ Describes[cs[i]].name \in Seq(Part)
  BY ExpositionAssumption, StringsAreParts
<1>6. DOMAIN descs' = DOMAIN descs \cup NamesOf(cs, n)
  BY KnownNames
<1>7. ASSUME NEW name \in DOMAIN descs'
      PROVE  /\ name \in Seq(Part)
             /\ descs'[name].name = name
             /\ descs'[name] = StateLevel \/ \E c \in Range(collectors') : descs'[name] = Describes[c]
  <2>1. CASE name \in DOMAIN descs /\ descs'[name] = descs[name]
    <3>1. /\ name \in Seq(Part) /\ descs[name].name = name
          /\ descs[name] = StateLevel \/ \E c \in Range(collectors) : descs[name] = Describes[c]
      BY <2>1 DEF RegistryInv, DescsOK
    <3> QED BY <1>3, <2>1, <3>1
  <2>2. CASE GivenBy(descs'[name], name, cs, n)
    <3>1. PICK i \in 1..n : Describes[cs[i]].name = name /\ descs'[name] = Describes[cs[i]]
      BY <2>2 DEF GivenBy
    <3>2. i \in 1..m
      OBVIOUS
    <3> QED BY <1>3, <1>5, <3>1, <3>2
  <2> QED BY <1>7, <2>1, <2>2, KnownValue
<1>8. ASSUME NEW c \in Range(collectors') PROVE Describes[c].name \in DOMAIN descs'
  <2>1. CASE c \in Range(collectors)
    BY <1>4, <1>6, <2>1
  <2>2. CASE \E i \in 1..m : c = cs[i]
    BY <2>2 DEF NamesOf
  <2> QED BY <1>3, <2>1, <2>2
<1>9. StateLevel.name \in DOMAIN descs'
  BY <1>4, <1>6
<1> QED BY <1>2, <1>3, <1>7, <1>8, <1>9 DEF DescsOK

LEMMA RegisterAllKeeps ==
  ASSUME RegistryInv, NEW cs \in Seq(Collectors), RegisterAll(cs)
  PROVE  /\ collectors' \in Seq(Collectors) /\ Range(collectors) \subseteq Range(collectors')
         /\ DescsOK(descs, collectors)' /\ ClashStays'
<1>0. Len(cs) \in Nat /\ DescsOK(descs, collectors)
  BY DEF RegistryInv
<1>1. CASE ClashesIn(cs) = {}
  <2>1. /\ collectors' = collectors \o SubSeq(cs, 1, Len(cs)) /\ descs' = KnownAfter(cs, Len(cs))
        /\ conflicted' = conflicted
    BY <1>1 DEF RegisterAll
  <2>2. NamesOf(cs, Len(cs)) \subseteq DOMAIN KnownAfter(cs, Len(cs))
    BY <1>0, KnownNames
  <2>3. /\ collectors' \in Seq(Collectors)
        /\ Range(collectors) \subseteq Range(collectors')
        /\ DescsOK(descs, collectors)'
    BY <1>0, <2>1, <2>2, RegisteredDescs
  <2>4. NoneClashes(cs, Len(cs))
    BY <1>1 DEF NoneClashes
  <2>5. ASSUME NEW name \in DOMAIN descs
        PROVE  name \in DOMAIN descs' /\ descs'[name].form = descs[name].form
    BY <1>0, <2>1, <2>4, KnownForm
  <2>6. ClashStays'
    <3> SUFFICES ASSUME conflicted' PROVE \E c \in Range(collectors') : Clashes(descs', Describes[c])
      BY DEF ClashStays
    <3>1. PICK c \in Range(collectors) : Clashes(descs, Describes[c])
      BY <2>1 DEF RegistryInv, ClashStays
    <3>2. Clashes(descs', Describes[c])
      BY <2>5, <3>1 DEF Clashes
    <3> QED BY <2>3, <3>2
  <2> QED BY <2>3, <2>6
<1>2. CASE ClashesIn(cs) # {}
  <2> DEFINE first == Min(ClashesIn(cs))
  <2>1. ClashesIn(cs) \in SUBSET Nat
    BY <1>0 DEF ClashesIn
  <2>2. first \in ClashesIn(cs)
    BY <1>2, <2>1, LeastOfNats
  <2>3. /\ first \in 1..Len(cs)
        /\ Clashes(KnownAfter(cs, first - 1), Describes[cs[first]])
    BY <2>2 DEF ClashesIn
  <2>4. /\ collectors' = collectors \o SubSeq(cs, 1, first)
        /\ descs' = KnownAfter(cs, first - 1) /\ conflicted' = TRUE
    BY <1>2 DEF RegisterAll
  <2> HIDE DEF first
  <2>5. first \in Nat /\ first - 1 \in Nat /\ first - 1 <= first /\ first <= Len(cs)
    BY <1>0, <2>3
  <2>6. NamesOf(cs, first) \subseteq DOMAIN KnownAfter(cs, first - 1)
    <3>1. Describes[cs[first]].name \in DOMAIN KnownAfter(cs, first - 1)
      BY <2>3 DEF Clashes
    <3>2. \A i \in 1..first : i = first \/ i \in 1..(first - 1)
      BY <2>5
    <3>3. NamesOf(cs, first - 1) \subseteq DOMAIN KnownAfter(cs, first - 1)
      BY <2>5, KnownNames
    <3> QED BY <3>1, <3>2, <3>3 DEF NamesOf
  <2>7. /\ collectors' \in Seq(Collectors)
        /\ Range(collectors') = Range(collectors) \cup {cs[i] : i \in 1..first}
        /\ DescsOK(descs, collectors)'
    BY <2>4, <2>5, <2>6, RegisteredDescs
  <2>8. cs[first] \in Range(collectors')
    BY <2>5, <2>7
  <2> QED BY <2>3, <2>4, <2>7, <2>8 DEF ClashStays
<1> QED BY <1>1, <1>2

\* A registration changes nothing of what a rendering has copied.
LEMMA RefusalStays ==
  ASSUME RefusedForConflict, Range(collectors) \subseteq Range(collectors'),
         refused' = refused, rendering' = rendering
  PROVE  RefusedForConflict'
  BY DEF RefusedForConflict

LEMMA RegisterKeeps ==
  ASSUME RegistryInv,
         (\E cs \in Registrations : RegisterCollectors(cs))
           \/ (\E s \in RegistryStates : RegisterState(s))
  PROVE  RegistryInv' /\ Range(states) \subseteq Range(states') /\ UNCHANGED <<counterVars, pageVars>>
<1>1. ASSUME NEW cs \in Registrations, RegisterCollectors(cs)
      PROVE  RegistryInv' /\ Range(states) \subseteq Range(states')
  <2>1. cs \in Seq(Collectors) /\ RegisterAll(cs) /\ UNCHANGED <<states, pageVars>>
    BY <1>1, ExpositionAssumption DEF RegisterCollectors
  <2> QED BY <2>1, RegisterAllKeeps, RefusalStays DEF RegistryInv, pageVars
<1>2. ASSUME NEW s \in RegistryStates, RegisterState(s)
      PROVE  RegistryInv' /\ Range(states) \subseteq Range(states')
  <2>1. states' \in Seq(RegistryStates) /\ Range(states) \subseteq Range(states')
    BY <1>2 DEF RegisterState, RegistryInv, Range
  <2>2. UNCHANGED <<refused, rendering>>
    BY <1>2 DEF RegisterState, pageVars
  <2>3. CASE s \in Collectors
    <3>1. <<s>> \in Seq(Collectors) /\ RegisterAll(<<s>>)
      BY <1>2, <2>3 DEF RegisterState
    <3> QED BY <2>1, <2>2, <3>1, RegisterAllKeeps, RefusalStays DEF RegistryInv
  <2>4. CASE s \notin Collectors
    <3>1. UNCHANGED <<collectors, descs, conflicted>>
      BY <1>2, <2>4 DEF RegisterState
    <3> QED BY <2>1, <2>2, <3>1, RefusalStays DEF RegistryInv, ClashStays
  <2> QED BY <2>3, <2>4
<1>3. UNCHANGED <<counterVars, pageVars>>
  BY DEF RegisterCollectors, RegisterState
<1> QED BY <1>1, <1>2, <1>3

-----------------------------------------------------------------------------
(* Counters only grow, so a count is never behind one that was read.        *)

CountersGrow ==
  /\ DOMAIN vec \subseteq DOMAIN vec'
  /\ \A l \in DOMAIN vec : vec'[l] = vec[l] /\ counts[vec[l]] <= counts'[vec[l]]

LEMMA CallsGrow ==
  ASSUME CountersInv,
         \/ \E p \in Callers, l \in Labels : Lookup(p, l)
         \/ \E p \in Callers : MakeCounter(p)
         \/ \E p \in Callers : Add(p)
         \/ UNCHANGED counterVars
  PROVE  CountersGrow
<1>0. /\ counts \in Seq(Nat) /\ Len(counts) \in Nat
      /\ \A l \in DOMAIN vec : vec[l] \in 1..Len(counts) /\ counts[vec[l]] \in Nat
  BY DEF CountersInv, VecTypes
<1>1. CASE UNCHANGED <<vec, counts>>
  <2>1. \A l \in DOMAIN vec : counts[vec[l]] <= counts[vec[l]]
    BY <1>0
  <2> QED BY <1>1, <2>1 DEF CountersGrow
<1>2. ASSUME NEW p \in Callers, MakeCounter(p) PROVE CountersGrow
  <2> DEFINE l == caller[p].label
  <2>1. /\ vec' = [k \in DOMAIN vec \cup {l} |-> IF k = l THEN Made(l) ELSE vec[k]]
        /\ counts' = IF Made(l) > Len(counts) THEN Append(counts, 0) ELSE counts
    BY <1>2 DEF MakeCounter
  <2>2. l \in DOMAIN vec => Made(l) = vec[l]
    BY DEF Made
  <2> HIDE DEF l
  <2>3. \A k \in DOMAIN vec : k \in DOMAIN vec' /\ vec'[k] = vec[k]
    BY <2>1, <2>2
  <2>4. \A i \in 1..Len(counts) : counts'[i] = counts[i]
    BY <1>0, <2>1
  <2>5. \A k \in DOMAIN vec : counts[vec[k]] <= counts'[vec[k]]
    BY <1>0, <2>4
  <2> QED BY <2>3, <2>5 DEF CountersGrow
<1>3. ASSUME NEW p \in Callers, Add(p) PROVE CountersGrow
  <2>1. vec' = vec /\ counts' = [counts EXCEPT ![caller[p].counter] = @ + 1]
    BY <1>3 DEF Add
  <2>2. \A i \in 1..Len(counts) : counts[i] <= counts'[i]
    <3>1. ASSUME NEW i \in 1..Len(counts) PROVE counts[i] <= counts'[i]
      <4>1. counts[i] \in Nat
        BY <1>0
      <4>2. i \in DOMAIN counts
        BY <1>0
      <4>3. counts'[i] = counts[i] \/ counts'[i] = counts[i] + 1
        BY <2>1, <4>2
      <4> QED BY <4>1, <4>3
    <3> QED BY <3>1
  <2> QED BY <1>0, <2>1, <2>2 DEF CountersGrow
<1> QED BY <1>1, <1>2, <1>3 DEF Lookup, counterVars

LEMMA CountIsNat ==
  ASSUME CountersInv, NEW l PROVE CountOfLabel(l) \in Nat
BY DEF CountersInv, VecTypes, CountOfLabel

LEMMA CountGrows ==
  ASSUME CountersInv, CountersInv', CountersGrow, NEW l
  PROVE  CountOfLabel(l) \in Nat /\ CountOfLabel(l)' \in Nat /\ CountOfLabel(l) <= CountOfLabel(l)'
<1>1. CountOfLabel(l) \in Nat
  BY CountIsNat
<1>2. CountOfLabel(l)' \in Nat
  BY DEF CountersInv, VecTypes, CountOfLabel
<1>3. CASE l \in DOMAIN vec
  <2>1. l \in DOMAIN vec' /\ vec'[l] = vec[l] /\ counts[vec[l]] <= counts'[vec[l]]
    BY <1>3 DEF CountersGrow
  <2>2. CountOfLabel(l) = counts[vec[l]]
    BY <1>3 DEF CountOfLabel
  <2>3. CountOfLabel(l)' = counts'[vec'[l]]
    BY <2>1 DEF CountOfLabel
  <2> QED BY <1>1, <1>2, <2>1, <2>2, <2>3
<1>4. CASE l \notin DOMAIN vec
  BY <1>2, <1>4 DEF CountOfLabel
<1> QED BY <1>1, <1>2, <1>3, <1>4

\* Nothing a rendering has is wrong because the program went on.
LEMMA PageStays ==
  ASSUME CountersInv, CountersInv', PageInv, CountersGrow,
         UNCHANGED pageVars, Range(states) \subseteq Range(states')
  PROVE  PageInv'
<1>1. UNCHANGED <<rendering, published>>
  BY DEF pageVars
<1>2. PublishedOK'
  <2> SUFFICES ASSUME NEW l \in Labels
               PROVE  published[l] \in Nat /\ published[l] <= CountOfLabel(l)'
    BY <1>1 DEF PublishedOK
  <2>1. published[l] \in Nat /\ published[l] <= CountOfLabel(l)
    BY DEF PageInv, PublishedOK
  <2> QED BY <2>1, CountGrows
<1>3. rendering.at # "idle" => CopyOK'
  BY <1>1 DEF PageInv, CopyOK
<1>4. SamplesOK'
  <2>1. ASSUME NEW s \in rendering.samples
        PROVE  /\ s.name \in Seq(Part)
               /\ s.of \in Labels => s.value \in published[s.of]..CountOfLabel(s.of)'
    <3>1. /\ s.name \in Seq(Part)
          /\ s.of \in Labels => s.value \in published[s.of]..CountOfLabel(s.of)
      BY DEF PageInv, SamplesOK
    <3>2. CASE s.of \in Labels
      <4>1. published[s.of] \in Nat
        BY <3>2 DEF PageInv, PublishedOK
      <4>2. /\ CountOfLabel(s.of) \in Nat /\ CountOfLabel(s.of)' \in Nat
            /\ CountOfLabel(s.of) <= CountOfLabel(s.of)'
        BY CountGrows
      <4> QED BY <3>1, <3>2, <4>1, <4>2
    <3> QED BY <3>1, <3>2
  <2>2. rendering.at \in {"collectors", "counters"} =>
          rendering.copied.states \cup (rendering.copied.collectors \ {CounterVec})
            \subseteq {s.of : s \in rendering.samples}
    BY DEF PageInv, SamplesOK
  <2> QED BY <1>1, <2>1, <2>2 DEF SamplesOK
<1>5. UnreadOK'
  <2>1. ASSUME rendering.at = "counters", NEW l \in DOMAIN rendering.unread
        PROVE  l \in DOMAIN vec' /\ rendering.unread[l] = vec'[l]
    BY <2>1 DEF PageInv, UnreadOK, CountersGrow
  <2> QED BY <1>1, <2>1 DEF PageInv, UnreadOK, Shown
<1> QED BY <1>1, <1>2, <1>3, <1>4, <1>5 DEF PageInv

-----------------------------------------------------------------------------
(* A rendering.                                                             *)

\* What is known of the name that a registered collector describes.
LEMMA KnownOf ==
  ASSUME RegistryInv, NEW c \in Range(collectors)
  PROVE  /\ Describes[c].name \in DOMAIN descs
         /\ descs[Describes[c].name].name = Describes[c].name
         /\ \/ descs[Describes[c].name] = StateLevel
            \/ \E d \in Range(collectors) : descs[Describes[c].name] = Describes[d]
BY DEF RegistryInv, DescsOK

LEMMA ConflictOf ==
  ASSUME collectors \in Seq(Collectors), NEW c \in Range(collectors),
         Describes[c].name \in DOMAIN descs, descs[Describes[c].name] # Describes[c]
  PROVE  Conflicts(descs, collectors)
<1>1. PICK i \in 1..Len(collectors) : collectors[i] = c
  BY DEF Range
<1> QED BY <1>1 DEF Conflicts

\* A page is refused for a conflict, and for every conflict.
LEMMA StartRefuses ==
  ASSUME RegistryInv, StartPage PROVE RefusedForConflict'
<1>0. UNCHANGED <<collectors, descs, conflicted>> /\ collectors \in Seq(Collectors)
  BY DEF StartPage, registryVars, RegistryInv
<1>1. CASE Conflicts(descs, collectors)
  <2>1. rendering' = NoPage
    BY <1>1 DEF StartPage
  <2>2. PICK i \in 1..Len(collectors) :
          LET d == Describes[collectors[i]] IN d.name \in DOMAIN descs /\ descs[d.name] # d
    BY <1>1 DEF Conflicts
  <2>3. collectors[i] \in Range(collectors)
    BY <1>0 DEF Range
  <2>4. \/ \E d \in Range(collectors) : Differ(collectors[i], d)
        \/ Describes[collectors[i]].name = StateLevel.name /\ Describes[collectors[i]] # StateLevel
    BY <2>2, <2>3, KnownOf DEF Differ
  <2> QED BY <1>0, <2>1, <2>3, <2>4 DEF RefusedForConflict, NoPage
<1>2. CASE ~Conflicts(descs, collectors)
  <2>1. /\ ~refused'
        /\ rendering' = [NoPage EXCEPT !.at = "states",
               !.copied = [descs |-> descs, collectors |-> Range(collectors), states |-> Range(states),
                           conflicted |-> conflicted, published |-> published]]
    BY <1>2 DEF StartPage
  <2>2. rendering'.copied.conflicted = conflicted /\ rendering'.copied.collectors = Range(collectors)
    BY <2>1 DEF NoPage
  <2>3. ~conflicted
    <3> SUFFICES ASSUME conflicted PROVE FALSE
      OBVIOUS
    <3>1. PICK c \in Range(collectors) : Clashes(descs, Describes[c])
      BY DEF RegistryInv, ClashStays
    <3>2. Describes[c].name \in DOMAIN descs /\ descs[Describes[c].name] # Describes[c]
      BY <3>1 DEF Clashes
    <3> QED BY <1>0, <1>2, <3>2, ConflictOf
  <2>4. ASSUME NEW c \in Range(collectors), NEW d \in Range(collectors), Differ(c, d) PROVE FALSE
    <3>1. descs[Describes[c].name] = Describes[c] /\ descs[Describes[d].name] = Describes[d]
      BY <1>0, <1>2, KnownOf, ConflictOf
    <3> QED BY <2>4, <3>1 DEF Differ
  <2> QED BY <2>1, <2>2, <2>3, <2>4 DEF RefusedForConflict
<1> QED BY <1>1, <1>2

LEMMA NothingOf == DOMAIN <<>> = {}
OBVIOUS

LEMMA StartKeeps ==
  ASSUME CountersInv, RegistryInv, PageInv, StartPage PROVE PageInv'
<1>0. UNCHANGED <<registryVars, counterVars, published>>
  BY DEF StartPage
<1>1. PublishedOK'
  BY <1>0 DEF PageInv, PublishedOK, CountOfLabel, counterVars
<1>2. CASE rendering' = NoPage
  BY <1>1, <1>2, NothingOf DEF PageInv, NoPage, SamplesOK, UnreadOK
<1>3. CASE rendering' # NoPage
  <2>1. rendering' = [NoPage EXCEPT !.at = "states",
               !.copied = [descs |-> descs, collectors |-> Range(collectors), states |-> Range(states),
                           conflicted |-> conflicted, published |-> published]]
    BY <1>3 DEF StartPage
  <2>2. rendering' = [at |-> "states", copied |-> rendering'.copied, samples |-> {}, unread |-> <<>>]
    BY <2>1 DEF NoPage
  <2>3. rendering'.copied = [descs |-> descs, collectors |-> Range(collectors), states |-> Range(states),
                             conflicted |-> conflicted, published |-> published]
    BY <2>1 DEF NoPage
  <2>4. Range(collectors) \subseteq Collectors
    BY DEF RegistryInv, Range
  <2>5. DOMAIN descs \subseteq Seq(Part)
    BY DEF RegistryInv, DescsOK
  <2>6. CopyOK'
    BY <1>0, <2>3, <2>4, <2>5 DEF CopyOK, registryVars
  <2>7. SamplesOK' /\ UnreadOK'
    BY <2>2, NothingOf DEF SamplesOK, UnreadOK
  <2>8. /\ rendering' = [at |-> rendering'.at, copied |-> rendering'.copied,
                         samples |-> rendering'.samples, unread |-> rendering'.unread]
        /\ rendering'.at = "states"
    BY <2>2
  <2> QED BY <1>1, <2>6, <2>7, <2>8 DEF PageInv
<1> QED BY <1>2, <1>3

LEMMA NameOfLevel == StateLevel.name \in Seq(Part)
<1>1. StateLevel.name = <<"state_level">>
  BY DEF StateLevel
<1>2. \A s \in Part : <<s>> \in Seq(Part)
  OBVIOUS
<1>3. "state_level" \in Part
  BY DEF Part
<1> QED BY <1>1, <1>2, <1>3

LEMMA StatesKeep ==
  ASSUME CountersInv, RegistryInv, PageInv, CollectStates PROVE PageInv'
<1> DEFINE ofStates == {[name |-> StateLevel.name, of |-> s, value |-> 0] : s \in Range(states)}
           RowsOf(c) == {[name |-> n, of |-> c, value |-> 0] : n \in Emits[c]}
           given == rendering.copied.collectors \ {CounterVec}
<1>1. /\ rendering' = [rendering EXCEPT !.at = "collectors",
                         !.samples = ofStates \cup UNION {RowsOf(c) : c \in given}]
      /\ rendering.at = "states"
      /\ UNCHANGED <<registryVars, counterVars, refused, published>>
  BY DEF CollectStates
<1>2. rendering = [at |-> rendering.at, copied |-> rendering.copied,
                   samples |-> rendering.samples, unread |-> rendering.unread]
  BY DEF PageInv
<1>3. rendering' = [at |-> "collectors", copied |-> rendering.copied,
                    samples |-> ofStates \cup UNION {RowsOf(c) : c \in given}, unread |-> rendering.unread]
  BY <1>1, <1>2
<1>4. UNCHANGED <<states, vec, counts, published>>
  BY <1>1 DEF registryVars, counterVars
<1>5. /\ CopyOK /\ rendering.copied.collectors \subseteq Collectors
      /\ rendering.copied.states \subseteq Range(states) /\ Range(states) \subseteq RegistryStates
  BY <1>1 DEF PageInv, CopyOK, RegistryInv, Range
<1> HIDE DEF ofStates
<1>6. PublishedOK' /\ CopyOK' /\ UnreadOK'
  BY <1>1, <1>3, <1>4, <1>5 DEF PageInv, PublishedOK, CountOfLabel, CopyOK, UnreadOK
<1>7. ASSUME NEW s \in rendering'.samples PROVE s.name \in Seq(Part) /\ s.of \notin Labels
  <2>1. CASE s \in ofStates
    <3>1. PICK r \in Range(states) : s = [name |-> StateLevel.name, of |-> r, value |-> 0]
      BY <2>1 DEF ofStates
    <3>2. r \in RegistryStates
      BY <1>5
    <3> QED BY <3>1, <3>2, NameOfLevel, ExpositionAssumption
  <2>2. CASE \E c \in given : s \in RowsOf(c)
    <3>1. PICK c \in given : s \in RowsOf(c)
      BY <2>2
    <3>2. PICK n \in Emits[c] : s = [name |-> n, of |-> c, value |-> 0]
      BY <3>1
    <3>3. c \in Collectors /\ n \in Seq(Part)
      BY <1>5, ExpositionAssumption, StringsAreParts
    <3> QED BY <3>2, <3>3, ExpositionAssumption
  <2> QED BY <1>3, <1>7, <2>1, <2>2
<1>8. rendering'.copied.states \cup (rendering'.copied.collectors \ {CounterVec})
        \subseteq {s.of : s \in rendering'.samples}
  <2>1. ASSUME NEW r \in rendering.copied.states PROVE \E s \in rendering'.samples : s.of = r
    <3>1. [name |-> StateLevel.name, of |-> r, value |-> 0] \in ofStates
      BY <1>5 DEF ofStates
    <3> QED BY <1>3, <3>1
  <2>2. ASSUME NEW c \in given PROVE \E s \in rendering'.samples : s.of = c
    <3>1. PICK n \in Emits[c] : TRUE
      BY <1>5, ExpositionAssumption
    <3>2. [name |-> n, of |-> c, value |-> 0] \in RowsOf(c)
      OBVIOUS
    <3>3. [name |-> n, of |-> c, value |-> 0] \in rendering'.samples
      BY <1>3, <3>2
    <3> QED BY <3>3
  <2>3. rendering'.copied = rendering.copied
    BY <1>3
  <2> QED BY <2>1, <2>2, <2>3
<1>9. SamplesOK'
  BY <1>7, <1>8 DEF SamplesOK
<1> QED BY <1>3, <1>6, <1>9 DEF PageInv

LEMMA VecKeeps ==
  ASSUME CountersInv, PageInv, CollectVec PROVE PageInv'
<1> DEFINE found == IF CounterVec \in rendering.copied.collectors THEN vec ELSE <<>>
<1>1. /\ rendering' = [rendering EXCEPT !.at = "counters", !.unread = found]
      /\ rendering.at = "collectors"
      /\ UNCHANGED <<registryVars, counterVars, refused, published>>
  BY DEF CollectVec
<1>2. rendering = [at |-> rendering.at, copied |-> rendering.copied,
                   samples |-> rendering.samples, unread |-> rendering.unread]
  BY DEF PageInv
<1>3. rendering' = [at |-> "counters", copied |-> rendering.copied,
                    samples |-> rendering.samples, unread |-> found]
  BY <1>1, <1>2
<1>4. UNCHANGED <<states, vec, counts, published>>
  BY <1>1 DEF registryVars, counterVars
<1>5. PublishedOK' /\ CopyOK' /\ SamplesOK'
  BY <1>1, <1>3, <1>4 DEF PageInv, PublishedOK, CountOfLabel, CopyOK, SamplesOK
<1>6. ASSUME NEW l \in Labels, published[l] > 0 PROVE l \in DOMAIN vec
  BY <1>6 DEF PageInv, PublishedOK, CountOfLabel
<1>7. UnreadOK'
  <2>1. \A l \in DOMAIN found : l \in DOMAIN vec /\ found[l] = vec[l]
    BY NothingOf
  <2>2. CounterVec \in rendering.copied.collectors => \A l \in Labels : published[l] > 0 => l \in DOMAIN found
    BY <1>6
  <2> HIDE DEF found
  <2> QED BY <1>3, <1>4, <2>1, <2>2 DEF UnreadOK
<1> QED BY <1>3, <1>5, <1>7 DEF PageInv

LEMMA ReadKeeps ==
  ASSUME CountersInv, PageInv, NEW l \in Labels, ReadCounter(l) PROVE PageInv'
<1> DEFINE rest == [k \in DOMAIN rendering.unread \ {l} |-> rendering.unread[k]]
           new == {[name |-> n, of |-> l, value |-> counts[rendering.unread[l]]] : n \in Emits[CounterVec]}
<1>1. /\ rendering' = [rendering EXCEPT !.unread = rest, !.samples = rendering.samples \cup new]
      /\ l \in DOMAIN rendering.unread
      /\ UNCHANGED <<registryVars, counterVars, refused, published>>
  BY DEF ReadCounter
<1>2. rendering = [at |-> rendering.at, copied |-> rendering.copied,
                   samples |-> rendering.samples, unread |-> rendering.unread]
  BY DEF PageInv
<1>3. /\ rendering' = [at |-> rendering.at, copied |-> rendering.copied,
                       samples |-> rendering.samples \cup new, unread |-> rest]
      /\ rendering.at = "counters"
  BY <1>1, <1>2 DEF PageInv, UnreadOK
<1>4. UNCHANGED <<states, vec, counts, published>>
  BY <1>1 DEF registryVars, counterVars
<1>5. PublishedOK' /\ CopyOK'
  BY <1>3, <1>4 DEF PageInv, PublishedOK, CountOfLabel, CopyOK
<1>6. ASSUME NEW s \in new
      PROVE  s.name \in Seq(Part) /\ s.of = l /\ s.value \in published[l]..CountOfLabel(l)
  <2>1. PICK n \in Emits[CounterVec] : s = [name |-> n, of |-> l, value |-> counts[rendering.unread[l]]]
    OBVIOUS
  <2>2. n \in Seq(Part)
    BY ExpositionAssumption, StringsAreParts
  <2>3. counts[rendering.unread[l]] = CountOfLabel(l)
    BY <1>1, <1>3 DEF PageInv, UnreadOK, CountOfLabel
  <2>4. CountOfLabel(l) \in Nat /\ published[l] \in Nat /\ published[l] <= CountOfLabel(l)
    BY CountIsNat DEF PageInv, PublishedOK
  <2> QED BY <2>1, <2>2, <2>3, <2>4
<1>7. \E s \in new : TRUE
  <2>1. PICK n \in Emits[CounterVec] : TRUE
    BY ExpositionAssumption
  <2> QED BY <2>1
<1>8. DOMAIN rest = DOMAIN rendering.unread \ {l} /\ \A k \in DOMAIN rest : rest[k] = rendering.unread[k]
  OBVIOUS
<1> HIDE DEF new, rest
<1>9. SamplesOK'
  <2>1. ASSUME NEW s \in rendering'.samples
        PROVE  /\ s.name \in Seq(Part)
               /\ s.of \in Labels => s.value \in published[s.of]..CountOfLabel(s.of)
    <3>1. CASE s \in rendering.samples
      BY <3>1 DEF PageInv, SamplesOK
    <3>2. CASE s \in new
      BY <1>6, <3>2
    <3> QED BY <1>3, <3>1, <3>2
  <2>2. \A k : CountOfLabel(k)' = CountOfLabel(k)
    BY <1>4 DEF CountOfLabel
  <2>3. rendering'.copied.states \cup (rendering'.copied.collectors \ {CounterVec})
          \subseteq {s.of : s \in rendering'.samples}
    BY <1>3 DEF PageInv, SamplesOK
  <2> QED BY <1>4, <2>1, <2>2, <2>3 DEF SamplesOK
<1>10. UnreadOK'
  <2>1. \A k \in DOMAIN rest : k \in DOMAIN vec /\ rest[k] = vec[k]
    BY <1>3, <1>8 DEF PageInv, UnreadOK
  <2>2. ASSUME CounterVec \in rendering.copied.collectors, NEW k \in Labels, published[k] > 0,
               k \notin DOMAIN rest
        PROVE  Shown(k)' # {}
    <3>1. CASE k = l
      <4>1. PICK s \in new : s.of = l
        BY <1>6, <1>7
      <4>2. s \in rendering'.samples
        BY <1>3
      <4> QED BY <3>1, <4>1, <4>2 DEF Shown
    <3>2. CASE k # l
      <4>1. k \notin DOMAIN rendering.unread
        BY <1>8, <2>2, <3>2
      <4>2. Shown(k) # {}
        BY <1>3, <2>2, <4>1 DEF PageInv, UnreadOK
      <4>3. PICK s \in rendering.samples : s.of = k
        BY <4>2 DEF Shown
      <4>4. s \in rendering'.samples
        BY <1>3
      <4> QED BY <4>3, <4>4 DEF Shown
    <3> QED BY <3>1, <3>2
  <2> QED BY <1>3, <1>4, <2>1, <2>2 DEF UnreadOK
<1> QED BY <1>3, <1>5, <1>9, <1>10 DEF PageInv

LEMMA FinishKeeps ==
  ASSUME CountersInv, PageInv, FinishPage PROVE PageInv'
<1>1. /\ published' = [l \in Labels |->
           IF \E v \in Shown(l) : v > published[l] THEN CHOOSE v \in Shown(l) : TRUE ELSE published[l]]
      /\ rendering' = NoPage /\ UNCHANGED counterVars
  BY DEF FinishPage
<1>2. ASSUME NEW l \in Labels PROVE published'[l] \in Nat /\ published'[l] <= CountOfLabel(l)
  <2>1. published[l] \in Nat /\ published[l] <= CountOfLabel(l) /\ CountOfLabel(l) \in Nat
    BY CountIsNat DEF PageInv, PublishedOK
  <2>2. \A v \in Shown(l) : v \in published[l]..CountOfLabel(l)
    BY DEF PageInv, SamplesOK, Shown
  <2>3. published'[l] = published[l] \/ published'[l] \in Shown(l)
    BY <1>1
  <2> QED BY <2>1, <2>2, <2>3
<1>3. \A l : CountOfLabel(l)' = CountOfLabel(l)
  BY <1>1 DEF CountOfLabel, counterVars
<1>4. PublishedOK'
  BY <1>2, <1>3 DEF PublishedOK
<1> QED BY <1>1, <1>4, NothingOf DEF PageInv, NoPage, SamplesOK, UnreadOK

-----------------------------------------------------------------------------
(* The rows of a page.                                                      *)

Owners(name, known) ==
  {n \in DOMAIN known : \E s \in KindSuffixes(known[n].kind) : name = IF s = "" THEN n ELSE Append(n, s)}

\* The owner of a name is known, or it is the name itself.
LEMMA OwnerIs ==
  ASSUME NEW name, NEW known
  PROVE  \/ Owners(name, known) = {} /\ Owner(name, known) = name
         \/ Owner(name, known) \in Owners(name, known)
<1>1. Owner(name, known) = IF Owners(name, known) = {} THEN name
                           ELSE CHOOSE n \in Owners(name, known) : TRUE
  BY DEF Owner, Owners
<1> QED BY <1>1

LEMMA OwnerKnown ==
  ASSUME NEW name, NEW known
  PROVE  Owner(name, known) = name \/ Owner(name, known) \in DOMAIN known
BY OwnerIs DEF Owners

LEMMA OwnerStarts ==
  ASSUME NEW known, DOMAIN known \subseteq Seq(Part), NEW name \in Seq(Part),
         Owner(name, known) \in DOMAIN known
  PROVE  SubSeq(name, 1, Len(Owner(name, known))) = Owner(name, known)
<1>1. PICK n \in Seq(Part) : n = Owner(name, known)
  OBVIOUS
<1>2. CASE name = n
  BY <1>1, <1>2
<1>3. CASE name # n
  <2>1. n \in Owners(name, known)
    BY <1>1, <1>3, OwnerIs
  <2>2. PICK s \in KindSuffixes(known[n].kind) : name = Append(n, s)
    BY <1>3, <2>1 DEF Owners
  <2>3. s \in Part
    <3> DEFINE kind == known[n].kind
    <3>1. \/ KindSuffixes(kind) = {"total", "created"}
          \/ KindSuffixes(kind) = {"", "sum", "count", "bucket"}
          \/ KindSuffixes(kind) = {}
      BY DEF KindSuffixes
    <3>2. KindSuffixes(kind) \subseteq Part
      BY <3>1 DEF Part
    <3> QED BY <2>2, <3>2
  <2>4. SubSeq(Append(n, s), 1, Len(n)) = n
    BY <2>3
  <2> QED BY <1>1, <2>2, <2>4
<1> QED BY <1>2, <1>3

\* Every sample has one row.
LEMMA OneRow ==
  ASSUME NEW sampled, NEW known, NEW r \in Rows(sampled, known)
  PROVE  /\ r.sample \in sampled /\ r.times = 1
         /\ r.under = {Owner(r.sample.name, known)} \cap DOMAIN known
<1> DEFINE left == {Owner(s.name, known) : s \in sampled} \ DOMAIN known
<1>1. PICK s \in sampled :
        r = [sample |-> s, under |-> {Owner(s.name, known)} \cap DOMAIN known,
             times |-> (IF Owner(s.name, known) \in DOMAIN known THEN 1 ELSE 0)
                       + (IF s.name \in left THEN 1 ELSE 0)]
  BY DEF Rows
<1>2. Owner(s.name, known) \in DOMAIN known <=> s.name \notin left
  <2>1. ASSUME Owner(s.name, known) \in DOMAIN known, s.name \in left PROVE FALSE
    <3>1. PICK x \in sampled : s.name = Owner(x.name, known)
      BY <2>1
    <3>2. s.name \notin DOMAIN known
      BY <2>1
    <3>3. Owner(x.name, known) = x.name
      BY <3>1, <3>2, OwnerKnown
    <3> QED BY <2>1, <3>1, <3>2, <3>3
  <2>2. ASSUME Owner(s.name, known) \notin DOMAIN known PROVE s.name \in left
    <3>1. Owner(s.name, known) = s.name
      BY <2>2, OwnerKnown
    <3> QED BY <2>2, <3>1
  <2> QED BY <2>1, <2>2
<1> HIDE DEF left
<1> QED BY <1>1, <1>2

LEMMA RowOf ==
  ASSUME NEW sampled, NEW known, NEW s \in sampled
  PROVE  \E r \in Rows(sampled, known) : r.sample = s
<1> DEFINE left == {Owner(x.name, known) : x \in sampled} \ DOMAIN known
           row == [sample |-> s, under |-> {Owner(s.name, known)} \cap DOMAIN known,
                   times |-> (IF Owner(s.name, known) \in DOMAIN known THEN 1 ELSE 0)
                             + (IF s.name \in left THEN 1 ELSE 0)]
<1>1. row \in Rows(sampled, known)
  BY DEF Rows
<1> QED BY <1>1

\* The invariant is enough.
LEMMA PageAnswers == ASSUME PageInv PROVE PageIsRight
<1> SUFFICES ASSUME Complete PROVE PageIsRight
  BY DEF PageIsRight
<1> DEFINE known == rendering.copied.descs
           rows == Rows(rendering.samples, known)
           of == {r.sample.of : r \in rows}
<1>1. rendering.at = "counters" /\ DOMAIN rendering.unread = {}
  BY NothingOf DEF Complete
<1>2. rendering.copied.states \cup (rendering.copied.collectors \ {CounterVec}) \subseteq of
  <2>1. ASSUME NEW x \in rendering.copied.states \cup (rendering.copied.collectors \ {CounterVec})
        PROVE  x \in of
    <3>1. PICK s \in rendering.samples : x = s.of
      BY <1>1 DEF PageInv, SamplesOK
    <3>2. PICK r \in rows : r.sample = s
      BY RowOf
    <3> QED BY <3>1, <3>2
  <2> QED BY <2>1
<1>3. ASSUME NEW r \in rows
      PROVE  /\ r.times = 1
             /\ r.sample.name \in DOMAIN known => r.under # {}
             /\ \A n \in r.under : SubSeq(r.sample.name, 1, Len(n)) = n
  <2>1. /\ r.sample \in rendering.samples /\ r.times = 1
        /\ r.under = {Owner(r.sample.name, known)} \cap DOMAIN known
    BY OneRow
  <2>2. r.sample.name \in Seq(Part)
    BY <2>1 DEF PageInv, SamplesOK
  <2>3. DOMAIN known \subseteq Seq(Part)
    BY <1>1 DEF PageInv, CopyOK
  <2> HIDE DEF known, rows
  <2>4. r.sample.name \in DOMAIN known => r.under # {}
    BY <2>1, OwnerKnown
  <2>5. \A n \in r.under : SubSeq(r.sample.name, 1, Len(n)) = n
    BY <2>1, <2>2, <2>3, OwnerStarts
  <2> QED BY <2>1, <2>4, <2>5
<1>4. CounterVec \in rendering.copied.collectors =>
        \A l \in Labels : rendering.copied.published[l] > 0 =>
          Shown(l) # {} /\ \A v \in Shown(l) : v >= rendering.copied.published[l]
  <2>1. rendering.copied.published = published
    BY <1>1 DEF PageInv, CopyOK
  <2>2. ASSUME NEW l \in Labels, NEW v \in Shown(l) PROVE v >= published[l]
    <3>1. v \in published[l]..CountOfLabel(l)
      BY DEF PageInv, SamplesOK, Shown
    <3>2. published[l] \in Nat
      BY DEF PageInv, PublishedOK
    <3> QED BY <3>1, <3>2
  <2> QED BY <1>1, <2>1, <2>2 DEF PageInv, UnreadOK
<1> HIDE DEF known, rows, of
<1> QED BY <1>2, <1>3, <1>4 DEF PageIsRight, known, rows, of

LEMMA ExpositionStart == ExpositionInit => RegistryInv /\ PageInv
<1> SUFFICES ASSUME ExpositionInit PROVE RegistryInv /\ PageInv
  OBVIOUS
<1>1. /\ states = <<>> /\ collectors = <<>> /\ ~conflicted /\ rendering = NoPage /\ ~refused
      /\ published = [l \in Labels |-> 0] /\ descs = [n \in {StateLevel.name} |-> StateLevel]
      /\ vec = <<>>
  BY DEF ExpositionInit
<1>2. /\ DOMAIN descs = {StateLevel.name} /\ descs[StateLevel.name] = StateLevel
      /\ \A c : c \notin Range(collectors)
  BY <1>1, NothingOf DEF Range
<1>3. DescsOK(descs, collectors)
  BY <1>2, NameOfLevel DEF DescsOK
<1>4. RegistryInv
  BY <1>1, <1>3 DEF RegistryInv, ClashStays, RefusedForConflict, NoPage
<1>5. PublishedOK
  BY <1>1, NothingOf DEF PublishedOK, CountOfLabel
<1>6. PageInv
  BY <1>1, <1>5, NothingOf DEF PageInv, NoPage, SamplesOK, UnreadOK
<1> QED BY <1>4, <1>6

LEMMA ExpositionStep ==
  ExpositionInv /\ [ExpositionNext]_expositionVars => ExpositionInv'
<1> SUFFICES ASSUME CountersInv, RegistryInv, PageInv, [ExpositionNext]_expositionVars
             PROVE  ExpositionInv'
  BY DEF ExpositionInv
<1>1. CountersInv'
  BY CountersStep
<1>2. ASSUME \/ \E cs \in Registrations : RegisterCollectors(cs)
             \/ \E s \in RegistryStates : RegisterState(s)
      PROVE  RegistryInv' /\ PageInv'
  <2>1. RegistryInv' /\ Range(states) \subseteq Range(states') /\ UNCHANGED <<counterVars, pageVars>>
    BY <1>2, RegisterKeeps
  <2> QED BY <1>1, <2>1, CallsGrow, PageStays
<1>3. ASSUME \/ \E p \in Callers, l \in Labels : Lookup(p, l)
             \/ \E p \in Callers : MakeCounter(p)
             \/ \E p \in Callers : Add(p)
             \/ UNCHANGED expositionVars
      PROVE  RegistryInv' /\ PageInv'
  <2>1. UNCHANGED <<registryVars, pageVars>>
    BY <1>3 DEF Lookup, MakeCounter, Add, expositionVars
  <2>2. CountersGrow
    BY <1>3, CallsGrow DEF expositionVars
  <2>3. RegistryInv'
    BY <2>1 DEF RegistryInv, ClashStays, RefusedForConflict, registryVars, pageVars
  <2> QED BY <1>1, <2>1, <2>2, <2>3, PageStays DEF registryVars
<1>4. ASSUME StartPage PROVE RegistryInv' /\ PageInv'
  <2>1. RegistryInv'
    BY <1>4, StartRefuses DEF StartPage, RegistryInv, ClashStays, registryVars
  <2> QED BY <1>4, <2>1, StartKeeps
<1>5. ASSUME CollectStates \/ CollectVec \/ (\E l \in Labels : ReadCounter(l)) \/ FinishPage
      PROVE  RegistryInv' /\ PageInv'
  <2>1. UNCHANGED <<registryVars, refused>>
    BY <1>5 DEF CollectStates, CollectVec, ReadCounter, FinishPage
  <2>2. PageInv'
    BY <1>5, StatesKeep, VecKeeps, ReadKeeps, FinishKeeps
  <2>3. rendering'.at # "idle" => rendering'.copied = rendering.copied /\ rendering.at # "idle"
    <3> SUFFICES ASSUME rendering'.at # "idle"
                 PROVE  rendering'.copied = rendering.copied /\ rendering.at # "idle"
      OBVIOUS
    <3>0. rendering = [at |-> rendering.at, copied |-> rendering.copied,
                       samples |-> rendering.samples, unread |-> rendering.unread]
      BY DEF PageInv
    <3>1. CASE CollectStates
      BY <3>0, <3>1 DEF CollectStates
    <3>2. CASE CollectVec
      BY <3>0, <3>2 DEF CollectVec
    <3>3. CASE \E l \in Labels : ReadCounter(l)
      BY <3>0, <3>3 DEF ReadCounter
    <3>4. CASE FinishPage
      BY <3>4 DEF FinishPage, NoPage
    <3> QED BY <1>5, <3>1, <3>2, <3>3, <3>4
  <2>4. RefusedForConflict'
    BY <2>1, <2>3 DEF RefusedForConflict, RegistryInv, registryVars
  <2> QED BY <2>1, <2>2, <2>4 DEF RegistryInv, ClashStays, registryVars
<1> QED BY <1>1, <1>2, <1>3, <1>4, <1>5 DEF ExpositionNext, ExpositionInv

\* Exposition.ExpositionIsRight: whatever is registered, made and counted while a
\* page is rendered, it has all that was registered when it was asked for, each row once and
\* below its own description, no count is behind that of an earlier page, and a page
\* is refused only for a conflict (registry_prometheus.go:19, registry.go:79).
THEOREM PagesAlwaysRight == ExpositionSpec => []ExpositionIsRight
<1>1. ExpositionInit => ExpositionInv
  BY CountersInit, ExpositionStart DEF ExpositionInv
<1>2. ExpositionInv /\ [ExpositionNext]_expositionVars => ExpositionInv'
  BY ExpositionStep
<1>3. ExpositionInv => ExpositionIsRight
  <2>1. ExpositionInv => ExpositionTypeOK
    <3> SUFFICES ASSUME ExpositionInv PROVE ExpositionTypeOK
      OBVIOUS
    <3>1. Range(states) \subseteq RegistryStates /\ Range(collectors) \subseteq Collectors
      BY DEF ExpositionInv, RegistryInv, Range
    <3>2. DOMAIN counts = 1..Len(counts)
      BY DEF ExpositionInv, CountersInv, VecTypes
    <3> QED BY <3>1, <3>2 DEF ExpositionInv, CountersInv, VecTypes, PageInv, ExpositionTypeOK
  <2> QED BY <2>1, PageAnswers DEF ExpositionInv, RegistryInv, ExpositionIsRight
<1> QED BY <1>1, <1>2, <1>3, PTL DEF ExpositionSpec

-----------------------------------------------------------------------------
(* Ages and the outcomes recorded.                                          *)

\* Ages keep their order as time passes.
LEMMA OlderKeepsOrder ==
  ASSUME NEW age \in 0..MaxAge, NEW other \in 0..MaxAge, NEW lag \in Nat,
         age <= other + lag
  PROVE  Older(age) \in 0..MaxAge /\ Older(other) \in 0..MaxAge /\ Older(age) <= Older(other) + lag
  BY ScrapingAssumption DEF Older

\* Counts stay within their bound and never skip a number.
LEMMA BumpByOne ==
  ASSUME NEW count \in 0..MaxCount
  PROVE  Bump(count) \in 1..MaxCount /\ Bump(count) <= count + 1
  BY ScrapingAssumption DEF Bump

\* What Record does to recent.
Pushed(outcome, seq) ==
  SubSeq(<<outcome>> \o seq, 1, IF Len(seq) < MaxCount THEN Len(seq) + 1 ELSE MaxCount)

PushedRight(outcome, seq, new) ==
  /\ new \in Seq(Outcome)
  /\ Len(new) = IF Len(seq) < MaxCount THEN Len(seq) + 1 ELSE MaxCount
  /\ new[1] = outcome
  /\ \A i \in 2..Len(new) : new[i] = seq[i-1]

LEMMA PushedIsRight ==
  ASSUME NEW seq \in Seq(Outcome), Len(seq) <= MaxCount, NEW outcome \in Outcome
  PROVE  PushedRight(outcome, seq, Pushed(outcome, seq))
<1> DEFINE all == <<outcome>> \o seq
           n == IF Len(seq) < MaxCount THEN Len(seq) + 1 ELSE MaxCount
<1>1. all \in Seq(Outcome) /\ Len(all) = Len(seq) + 1
  OBVIOUS
<1>2. all[1] = outcome /\ \A i \in 2..Len(all) : all[i] = seq[i-1]
  OBVIOUS
<1>3. n \in 1..Len(all) /\ n <= MaxCount
  BY <1>1, ScrapingAssumption
<1>4. /\ SubSeq(all, 1, n) \in Seq(Outcome) /\ Len(SubSeq(all, 1, n)) = n
      /\ \A i \in 1..n : SubSeq(all, 1, n)[i] = all[i]
  <2> HIDE DEF all, n
  <2> QED BY <1>1, <1>3
<1>5. QED BY <1>1, <1>2, <1>3, <1>4 DEF Pushed, PushedRight

-----------------------------------------------------------------------------
(* The invariant.                                                           *)

\* The counts count the newest outcomes.
CountsOK ==
  /\ failCount <= Len(recent) /\ passCount <= Len(recent)
  /\ \A i \in 1..failCount : recent[i] \in {Fail, Down}
  /\ \A i \in 1..passCount : recent[i] = Pass

\* Pass is shown of what counts as pass, and its last outcome was one.
ShownOK ==
  shown = Pass => cur = Pass /\ (recent # <<>> => recent[1] = Pass)

\* An answer, and what is shown by it, is no younger than what it is about.
AgesOK ==
  /\ endpoint = Pass => okAge = 0
  /\ \A p \in probe : p.outcome = Pass => okAge <= p.age
  /\ shown = Pass => okAge <= updateAge + Timeout
  /\ \A s \in scraped : s.age <= fetchAge + Timeout

ScrapingInv == TypeOK /\ CountsOK /\ ShownOK /\ AgesOK

LEMMA InitInv == Init => ScrapingInv
  BY ScrapingAssumption
     DEF Init, ScrapingInv, TypeOK, CountsOK, ShownOK, AgesOK, Outcome, Pass, Warn, Fail, Down

\* The parts of a step that record an outcome leave what the next one needs.
Recorded(outcome) ==
  /\ failCount' \in 0..MaxCount /\ passCount' \in 0..MaxCount
  /\ cur' \in Outcome /\ shown' \in Pass..WorstShown
  /\ outcome = Pass => failCount' = 0 /\ passCount' <= passCount + 1
  /\ outcome # Pass => passCount' = 0 /\ failCount' <= failCount + 1
  /\ shown' = Pass => cur' = Pass /\ outcome = Pass
  /\ cur' # cur => \/ cur' = Pass /\ outcome = Pass /\ passCount' >= RecoverAfter
                   \/ cur' = outcome /\ outcome # Pass /\ failCount' >= FailAfter

LEMMA SuccessRecorded ==
  ASSUME TypeOK, RecordSuccess PROVE Recorded(Pass)
<1>1. passCount' \in 1..MaxCount /\ passCount' <= passCount + 1 /\ failCount' = 0
  BY BumpByOne DEF TypeOK, RecordSuccess
<1>2. Warn <= WorstShown /\ WorstShown \in Nat
  BY ScrapingAssumption DEF Warn, Down
<1>3. cur' \in Outcome /\ shown' \in Pass..WorstShown
  BY <1>2 DEF TypeOK, RecordSuccess, Outcome, Pass, Warn, Fail, Down
<1>4. /\ shown' = Pass => cur' = Pass
      /\ cur' # cur => cur' = Pass /\ passCount' >= RecoverAfter
  BY DEF RecordSuccess, Pass, Warn
<1>5. QED BY <1>1, <1>3, <1>4, ScrapingAssumption DEF Recorded

LEMMA FailureRecorded ==
  ASSUME TypeOK, NEW status \in {Fail, Down}, RecordFailure(status) PROVE Recorded(status)
<1>1. failCount' \in 1..MaxCount /\ failCount' <= failCount + 1 /\ passCount' = 0
  BY BumpByOne DEF TypeOK, RecordFailure
<1>2. Warn <= WorstShown /\ WorstShown \in Nat /\ WorstShown <= Down
  BY ScrapingAssumption DEF Warn, Down
<1>3. AsShown(status) \in Warn..WorstShown
  BY <1>2 DEF AsShown, Warn, Fail, Down
<1>4. cur' \in Outcome /\ shown' \in Warn..WorstShown
  BY <1>2, <1>3 DEF TypeOK, RecordFailure, Outcome, Pass, Warn, Fail, Down
<1>5. /\ status # Pass /\ shown' # Pass /\ shown' \in Pass..WorstShown
      /\ cur' # cur => cur' = status /\ failCount' >= FailAfter
  BY <1>2, <1>4 DEF RecordFailure, Pass, Warn, Fail, Down
<1>6. QED BY <1>1, <1>4, <1>5, ScrapingAssumption DEF Recorded

LEMMA RecordRecords ==
  ASSUME TypeOK, Record
  PROVE  \E p \in probe : /\ Outcomes(p) \in Outcome
                          /\ Outcomes(p) = Pass => p.outcome = Pass /\ p.age <= Timeout
                          /\ Recorded(Outcomes(p))
                          /\ PushedRight(Outcomes(p), recent, recent')
<1>1. PICK p \in probe :
        /\ IF Outcomes(p) = Pass THEN RecordSuccess ELSE RecordFailure(Outcomes(p))
        /\ recent' = Pushed(Outcomes(p), recent)
  BY DEF Record, Pushed
<1>2. p.outcome \in Outcome /\ p.age \in Nat
  BY ScrapingAssumption DEF TypeOK
<1>3. Outcomes(p) \in Outcome /\ (Outcomes(p) = Pass => p.outcome = Pass /\ p.age <= Timeout)
  BY <1>2, ScrapingAssumption DEF Outcomes, Outcome, Pass, Fail, Down
<1>4. Recorded(Outcomes(p))
  BY <1>1, <1>3, SuccessRecorded, FailureRecorded DEF Outcome
<1>5. PushedRight(Outcomes(p), recent, recent')
  BY <1>1, <1>3, PushedIsRight DEF TypeOK
<1>6. QED BY <1>3, <1>4, <1>5

-----------------------------------------------------------------------------
(* Every step keeps the invariant.                                          *)

LEMMA RestartInv == ASSUME ScrapingInv, Restart PROVE ScrapingInv'
  BY ScrapingAssumption
     DEF ScrapingInv, TypeOK, CountsOK, ShownOK, AgesOK, Restart, FreshScraper,
         Outcome, Pass, Warn, Fail, Down

LEMMA TickInv == ASSUME ScrapingInv, Tick PROVE ScrapingInv'
<1> USE DEF ScrapingInv
<1>1. okAge' \in 0..MaxAge /\ okAge' <= Older(okAge)
  BY OlderKeepsOrder, ScrapingAssumption DEF TypeOK, Tick, Older
<1>2. \A p \in probe' : \E q \in probe : p = [outcome |-> q.outcome, age |-> Older(q.age)]
  BY DEF Tick, TypeOK
<1>3. \A s \in scraped' : \E q \in scraped : s = [states |-> q.states, age |-> Older(q.age)]
  BY DEF Tick, TypeOK
<1>4. \A f \in fetch' : \E q \in fetch : f = [states |-> q.states, age |-> Older(q.age)]
  BY DEF Tick, TypeOK
<1>5. \A age \in 0..MaxAge : Older(age) \in 0..MaxAge
  BY ScrapingAssumption DEF Older
<1>6. TypeOK'
  <2>1. probe' \subseteq [outcome : Outcome, age : 0..MaxAge]
    BY <1>2, <1>5 DEF TypeOK
  <2>2. fetch' \subseteq [states : Reports \cup {NoStates}, age : 0..MaxAge]
    BY <1>4, <1>5 DEF TypeOK
  <2>3. scraped' \subseteq [states : Reports, age : 0..MaxAge]
    BY <1>3, <1>5 DEF TypeOK
  <2>4. QED BY <1>1, <1>5, <2>1, <2>2, <2>3 DEF TypeOK, Tick
<1>7. CountsOK' /\ ShownOK'
  BY DEF CountsOK, ShownOK, Tick
<1>8. AgesOK'
  <2>1. \A p \in probe' : p.outcome = Pass => okAge' <= p.age
    <3>1. SUFFICES ASSUME NEW p \in probe', p.outcome = Pass PROVE okAge' <= p.age
      OBVIOUS
    <3>2. PICK q \in probe : p = [outcome |-> q.outcome, age |-> Older(q.age)]
      BY <1>2
    <3>3. okAge <= q.age /\ q.age \in 0..MaxAge /\ okAge \in 0..MaxAge
      BY <3>1, <3>2 DEF AgesOK, TypeOK
    <3>4. Older(okAge) <= Older(q.age) /\ Older(okAge) \in Nat /\ Older(q.age) \in Nat
      BY <3>3, ScrapingAssumption DEF Older
    <3>5. QED BY <1>1, <3>2, <3>4
  <2>2. shown' = Pass => okAge' <= updateAge' + Timeout
    <3>1. SUFFICES ASSUME shown = Pass PROVE okAge' <= Older(updateAge) + Timeout
      BY DEF Tick
    <3>2. Older(okAge) <= Older(updateAge) + Timeout /\ Older(okAge) \in Nat /\ Older(updateAge) \in Nat
      BY <3>1, ScrapingAssumption DEF AgesOK, TypeOK, Older
    <3>3. QED BY <1>1, <3>2, ScrapingAssumption
  <2>3. \A s \in scraped' : s.age <= fetchAge' + Timeout
    <3>1. SUFFICES ASSUME NEW s \in scraped' PROVE s.age <= Older(fetchAge) + Timeout
      BY DEF Tick
    <3>2. PICK q \in scraped : s = [states |-> q.states, age |-> Older(q.age)]
      BY <1>3
    <3>3. q.age <= fetchAge + Timeout /\ q.age \in 0..MaxAge /\ fetchAge \in 0..MaxAge
      BY DEF AgesOK, TypeOK
    <3>4. QED BY <3>2, <3>3, ScrapingAssumption DEF Older
  <2>4. endpoint' = Pass => okAge' = 0
    BY DEF Tick, AgesOK
  <2>5. QED BY <2>1, <2>2, <2>3, <2>4 DEF AgesOK
<1>9. QED BY <1>6, <1>7, <1>8

LEMMA TargetChangesInv == ASSUME ScrapingInv, TargetChanges PROVE ScrapingInv'
  BY ScrapingAssumption
     DEF ScrapingInv, TypeOK, CountsOK, ShownOK, AgesOK, TargetChanges, livenessVars, mirrorVars

LEMMA ProbeInv == ASSUME ScrapingInv, Probe PROVE ScrapingInv'
  BY ScrapingAssumption
     DEF ScrapingInv, TypeOK, CountsOK, ShownOK, AgesOK, Probe, livenessVars, mirrorVars

LEMMA RecordInv == ASSUME ScrapingInv, Record PROVE ScrapingInv'
<1> USE DEF ScrapingInv
<1>1. PICK p \in probe :
        /\ Outcomes(p) \in Outcome
        /\ Outcomes(p) = Pass => p.outcome = Pass /\ p.age <= Timeout
        /\ Recorded(Outcomes(p))
        /\ PushedRight(Outcomes(p), recent, recent')
  BY RecordRecords
<1>2. /\ updateAge' = 0 /\ probe' = {}
      /\ UNCHANGED <<endpoint, okAge, fetch, mirrorVars>>
  BY DEF Record
<1>3. recent \in Seq(Outcome) /\ Len(recent) \in 0..MaxCount
  BY ScrapingAssumption DEF TypeOK
<1>4. /\ recent' \in Seq(Outcome) /\ Len(recent') \in 1..MaxCount
      /\ Len(recent') = IF Len(recent) < MaxCount THEN Len(recent) + 1 ELSE MaxCount
      /\ recent'[1] = Outcomes(p)
      /\ \A i \in 2..Len(recent') : recent'[i] = recent[i-1]
  BY <1>1, <1>3, ScrapingAssumption DEF PushedRight
<1>5. TypeOK'
  BY <1>1, <1>2, <1>4, ScrapingAssumption DEF TypeOK, Recorded, mirrorVars
<1>6. CountsOK'
  <2>1. /\ failCount' \in Nat /\ passCount' \in Nat
        /\ failCount' <= Len(recent') /\ passCount' <= Len(recent')
    BY <1>1, <1>3, <1>4, ScrapingAssumption DEF Recorded, CountsOK, TypeOK
  <2>2. ASSUME NEW i \in 1..failCount' PROVE recent'[i] \in {Fail, Down}
    <3>1. Outcomes(p) \in {Fail, Down} /\ failCount' <= failCount + 1
      BY <1>1, <2>1, <2>2 DEF Recorded, Outcome
    <3>2. CASE i = 1
      BY <1>4, <3>1, <3>2
    <3>3. CASE i # 1
      <4>1. i \in 2..Len(recent') /\ i - 1 \in 1..failCount
        BY <2>1, <2>2, <3>1, <3>3, <1>4 DEF TypeOK
      <4>2. QED BY <1>4, <4>1 DEF CountsOK
    <3>4. QED BY <3>2, <3>3
  <2>3. ASSUME NEW i \in 1..passCount' PROVE recent'[i] = Pass
    <3>1. Outcomes(p) = Pass /\ passCount' <= passCount + 1
      BY <1>1, <2>1, <2>3 DEF Recorded, Outcome
    <3>2. CASE i = 1
      BY <1>4, <3>1, <3>2
    <3>3. CASE i # 1
      <4>1. i \in 2..Len(recent') /\ i - 1 \in 1..passCount
        BY <2>1, <2>3, <3>1, <3>3, <1>4 DEF TypeOK
      <4>2. QED BY <1>4, <4>1 DEF CountsOK
    <3>4. QED BY <3>2, <3>3
  <2>4. QED BY <2>1, <2>2, <2>3 DEF CountsOK
<1>7. ShownOK'
  BY <1>1, <1>4 DEF ShownOK, Recorded
<1>8. AgesOK'
  <2>1. shown' = Pass => okAge' <= updateAge' + Timeout
    <3>1. SUFFICES ASSUME shown' = Pass PROVE okAge <= Timeout
      BY <1>2, ScrapingAssumption
    <3>2. p.outcome = Pass /\ p.age <= Timeout
      BY <1>1, <3>1 DEF Recorded
    <3>3. okAge <= p.age /\ okAge \in Nat /\ p.age \in Nat
      BY <3>2, ScrapingAssumption DEF AgesOK, TypeOK
    <3>4. QED BY <3>2, <3>3, ScrapingAssumption
  <2>2. QED BY <1>2, <2>1 DEF AgesOK, mirrorVars
<1>9. QED BY <1>5, <1>6, <1>7, <1>8

LEMMA SnapshotInv == ASSUME ScrapingInv, Snapshot PROVE ScrapingInv'
<1>1. AsShown(Down) \in Warn..WorstShown
  BY ScrapingAssumption DEF AsShown, Warn, Down
<1>2. cur' = Down /\ shown' \in Pass..WorstShown /\ shown' # Pass
  BY <1>1, ScrapingAssumption DEF Snapshot, Pass, Warn, Down
<1>3. UNCHANGED <<endpoint, okAge, probe, failCount, passCount, updateAge, recent, fetch, scraped, fetchAge>>
  BY DEF Snapshot, mirrorVars
<1>4. QED BY <1>2, <1>3 DEF ScrapingInv, TypeOK, CountsOK, ShownOK, AgesOK, Outcome

LEMMA FetchInv == ASSUME ScrapingInv, Fetch \/ Fetched \/ FetchFailed PROVE ScrapingInv'
<1>1. UNCHANGED <<endpoint, okAge, probe, cur, shown, failCount, passCount, updateAge, recent>>
  BY DEF Fetch, Fetched, FetchFailed, livenessVars
<1>2. /\ fetch' \subseteq [states : Reports \cup {NoStates}, age : 0..MaxAge]
      /\ scraped' \subseteq [states : Reports, age : 0..MaxAge] /\ fetchAge' \in 0..MaxAge
  BY ScrapingAssumption DEF ScrapingInv, TypeOK, Fetch, Fetched, FetchFailed, mirrorVars
<1>3. \A s \in scraped' : s.age <= fetchAge' + Timeout
  BY ScrapingAssumption DEF ScrapingInv, AgesOK, TypeOK, Fetch, Fetched, FetchFailed, mirrorVars
<1>4. QED BY <1>1, <1>2, <1>3 DEF ScrapingInv, TypeOK, CountsOK, ShownOK, AgesOK

\* The invariant holds in every state.
THEOREM ScrapingInvariant == Spec => []ScrapingInv
<1>1. Init => ScrapingInv
  BY InitInv
<1>2. ScrapingInv /\ [Next]_vars => ScrapingInv'
  <2>1. SUFFICES ASSUME ScrapingInv, [Next]_vars PROVE ScrapingInv'
    OBVIOUS
  <2>2. CASE Restart BY <2>1, <2>2, RestartInv
  <2>3. CASE Tick BY <2>1, <2>3, TickInv
  <2>4. CASE TargetChanges BY <2>1, <2>4, TargetChangesInv
  <2>5. CASE Probe BY <2>1, <2>5, ProbeInv
  <2>6. CASE Record BY <2>1, <2>6, RecordInv
  <2>7. CASE Snapshot BY <2>1, <2>7, SnapshotInv
  <2>8. CASE Fetch \/ Fetched \/ FetchFailed BY <2>1, <2>8, FetchInv
  <2>9. CASE UNCHANGED vars
    BY <2>1, <2>9 DEF vars, livenessVars, mirrorVars, ScrapingInv, TypeOK, CountsOK, ShownOK, AgesOK
  <2>10. QED BY <2>1, <2>2, <2>3, <2>4, <2>5, <2>6, <2>7, <2>8, <2>9 DEF Next
<1>3. QED BY <1>1, <1>2, PTL DEF Spec

-----------------------------------------------------------------------------
(* The theorems.                                                            *)

\* Types of what the scraper holds, for all thresholds and times.
THEOREM ScrapingTypes == Spec => []TypeOK
  BY ScrapingInvariant, PTL DEF ScrapingInv

\* Who is told that a target passes is told so of a target whose last probe
\* did, and that was well within expiration and timeout.
THEOREM PassAlwaysRecent == Spec => []PassIsRecent
<1>1. ScrapingInv => PassIsRecent
  <2>1. SUFFICES ASSUME ScrapingInv, Answer = Pass
        PROVE  /\ recent # <<>> => recent[1] = Pass
               /\ Expiration > 0 => okAge <= Expiration + Timeout
    BY DEF PassIsRecent
  <2>2. AsShown(Down) # Pass
    BY ScrapingAssumption DEF AsShown, Pass, Warn, Down
  <2>3. shown = Pass /\ ~ (Stale(updateAge) /\ cur # Down)
    BY <2>1, <2>2 DEF Answer
  <2>4. cur = Pass /\ (recent # <<>> => recent[1] = Pass)
    BY <2>1, <2>3 DEF ScrapingInv, ShownOK
  <2>5. ~ Stale(updateAge)
    BY <2>3, <2>4 DEF Pass, Down
  <2>6. okAge <= updateAge + Timeout /\ okAge \in Nat /\ updateAge \in Nat
    BY <2>1, <2>3, ScrapingAssumption DEF ScrapingInv, AgesOK, TypeOK
  <2>7. Expiration > 0 => okAge <= Expiration + Timeout
    BY <2>5, <2>6, ScrapingAssumption DEF Stale
  <2>8. QED BY <2>4, <2>7
<1>2. QED BY <1>1, ScrapingInvariant, PTL

\* The states shown as the target's own are recent too.
THEOREM MirrorAlwaysRecent == Spec => []MirrorIsRecent
<1>1. ScrapingInv => MirrorIsRecent
  BY ScrapingAssumption DEF ScrapingInv, AgesOK, TypeOK, MirrorIsRecent, Mirrored, Stale
<1>2. QED BY <1>1, ScrapingInvariant, PTL

\* The status changes by the failure policy and by expiration only.
THEOREM PolicyAlwaysSettles == Spec => SettlesByPolicy
<1> DEFINE Settled ==
      cur' # cur =>
        \/ recent' = <<>>
        \/ cur' = Pass /\ InARow(RecoverAfter, {Pass})
        \/ cur' = recent'[1] /\ InARow(FailAfter, {Fail, Down})
        \/ cur' = Down /\ Stale(updateAge)
<1>1. ScrapingInv /\ ScrapingInv' /\ [Next]_vars => [Settled]_vars
  <2>1. SUFFICES ASSUME ScrapingInv, ScrapingInv', Next, cur' # cur PROVE Settled
    OBVIOUS
  <2>2. CASE Restart
    BY <2>2 DEF Restart, FreshScraper
  <2>3. CASE Record
    <3>1. PICK p \in probe : /\ Recorded(Outcomes(p))
                             /\ PushedRight(Outcomes(p), recent, recent')
      BY <2>1, <2>3, RecordRecords DEF ScrapingInv
    <3>2. recent'[1] = Outcomes(p)
      BY <3>1 DEF PushedRight
    <3>3. /\ passCount' \in Nat /\ failCount' \in Nat /\ Len(recent') \in Nat
          /\ passCount' <= Len(recent') /\ failCount' <= Len(recent')
      BY <2>1 DEF ScrapingInv, TypeOK, CountsOK
    <3>4. passCount' >= RecoverAfter => InARow(RecoverAfter, {Pass})
      BY <2>1, <3>3, ScrapingAssumption DEF ScrapingInv, CountsOK, InARow
    <3>5. failCount' >= FailAfter => InARow(FailAfter, {Fail, Down})
      BY <2>1, <3>3, ScrapingAssumption DEF ScrapingInv, CountsOK, InARow
    <3>6. QED BY <2>1, <3>1, <3>2, <3>4, <3>5 DEF Recorded
  <2>4. CASE Snapshot
    BY <2>4 DEF Snapshot
  <2>5. QED
    BY <2>1, <2>2, <2>3, <2>4
       DEF Next, Tick, TargetChanges, Probe, Fetch, Fetched, FetchFailed, livenessVars
<1>2. QED BY <1>1, ScrapingInvariant, PTL DEF Spec, SettlesByPolicy
=============================================================================
