------------------------ MODULE TransitionRingsProofs ------------------------
(****************************************************************************)
(* What TransitionRings promises, for any number of states and documents    *)
(* and any caps: its types, that the count beside the rings is right and    *)
(* the bounds hold, that the journal has all that the rings hold, and that  *)
(* no transition is missed.                                                 *)
(*                                                                          *)
(* The count is an invariant only together with the finiteness of rings and *)
(* journal and of what documents report, and the cap of a ring only since   *)
(* a document reports, under a state, transitions of that state.  What is   *)
(* missed is a question of all that is under way: see ArrivalInv.           *)
(****************************************************************************)
EXTENDS TransitionRings, TLAPS, FiniteSetTheorems, SequenceTheorems

ReportOK(s, report) ==
  /\ IsFiniteSet(report.transitions)
  /\ \A t \in report.transitions : t.state = s

ReportType == [transitions : SUBSET Transition, unseen : SUBSET Transition]

DocumentOK(doc) ==
  \A s \in DOMAIN doc : s \in States /\ doc[s] \in ReportType /\ ReportOK(s, doc[s])

\* The trackers' types and the agreement of each with its history.
TrackersInv == now \in Nat /\ TrackersTypeOK /\ HistoryAgrees

\* The store on its own: every way it changes its rings keeps this.
StoreInv ==
  /\ rings \subseteq Transition /\ IsFiniteSet(rings)
  /\ journal \subseteq Transition /\ IsFiniteSet(journal)
  /\ Bounded /\ RingsAreJournaled
  /\ due \in [States -> SUBSET Transition]

DocumentsInv ==
  /\ \A doc \in documents \cup {ingest.left} : DocumentOK(doc)
  /\ ingest.reported \subseteq States /\ ingest.active \in BOOLEAN
  /\ unseen \in [States -> SUBSET Transition]

RingsInv == TrackersInv /\ StoreInv /\ DocumentsInv

-----------------------------------------------------------------------------
(* Sets and their sizes.                                                    *)

\* Two sets without a common element count together what they count apart.
LEMMA DisjointCount ==
  ASSUME NEW A, NEW B, IsFiniteSet(A), IsFiniteSet(B), A \cap B = {}
  PROVE  /\ IsFiniteSet(A \cup B)
         /\ Cardinality(A \cup B) = Cardinality(A) + Cardinality(B)
<1>1. Cardinality(A) \in Nat /\ Cardinality(B) \in Nat
  BY FS_CardinalityType
<1>2. /\ IsFiniteSet(A \cup B)
      /\ Cardinality(A \cup B) = Cardinality(A) + Cardinality(B) - Cardinality(A \cap B)
  BY FS_Union
<1>3. Cardinality(A \cap B) = 0
  BY FS_EmptySet
<1> QED BY <1>1, <1>2, <1>3

\* What WithoutOldest leaves: a part, of the size that is left.
LEMMA WithoutOldestLeaves ==
  ASSUME NEW ts, IsFiniteSet(ts), NEW n \in Nat, NEW kept \in WithoutOldest(ts, n)
  PROVE  /\ kept \subseteq ts /\ IsFiniteSet(kept)
         /\ Cardinality(ts) \in Nat /\ Cardinality(kept) \in Nat
         /\ Cardinality(kept) = IF n < Cardinality(ts) THEN Cardinality(ts) - n ELSE 0
<1>1. kept \in SUBSET ts
  BY DEF WithoutOldest
<1>2. IsFiniteSet(kept)
  BY <1>1, FS_Subset
<1>3. Cardinality(ts) \in Nat /\ Cardinality(kept) \in Nat
  BY <1>2, FS_CardinalityType
<1> QED BY <1>1, <1>2, <1>3 DEF WithoutOldest

\* A trimmed ring is a part of the ring and holds no more than RingCap.
LEMMA TrimmedFits ==
  ASSUME NEW ring, IsFiniteSet(ring), NEW trimmed \in Trimmed(ring)
  PROVE  /\ trimmed \subseteq ring /\ IsFiniteSet(trimmed)
         /\ Cardinality(ring) \in Nat /\ Cardinality(trimmed) \in Nat
         /\ Cardinality(trimmed) <= Cardinality(ring) /\ Cardinality(trimmed) <= RingCap
<1>1. Cardinality(ring) \in Nat
  BY FS_CardinalityType
<1>2. RingCap \in Nat \ {0}
  BY RingsAssumption
<1> DEFINE n == Excess(Cardinality(ring), RingCap)
<1>3. n \in Nat /\ n = IF Cardinality(ring) > RingCap THEN Cardinality(ring) - RingCap ELSE 0
  BY <1>1, <1>2 DEF Excess
<1>4. trimmed \in WithoutOldest(ring, n)
  BY DEF Trimmed
<1> HIDE DEF n
<1>5. /\ trimmed \subseteq ring /\ IsFiniteSet(trimmed) /\ Cardinality(trimmed) \in Nat
      /\ Cardinality(trimmed) = IF n < Cardinality(ring) THEN Cardinality(ring) - n ELSE 0
  BY <1>3, <1>4, WithoutOldestLeaves
<1> QED BY <1>1, <1>2, <1>3, <1>5

\* The backstop takes away exactly what is too much.
LEMMA EvictedCount ==
  ASSUME NEW ts, IsFiniteSet(ts),
         NEW kept \in WithoutOldest(ts, Excess(Cardinality(ts), Backstop))
  PROVE  /\ kept \subseteq ts /\ IsFiniteSet(kept)
         /\ Cardinality(kept) = Cardinality(ts) - Excess(Cardinality(ts), Backstop)
         /\ Cardinality(kept) <= Backstop
<1>1. Cardinality(ts) \in Nat
  BY FS_CardinalityType
<1>2. Backstop \in Nat \ {0}
  BY RingsAssumption
<1> DEFINE n == Excess(Cardinality(ts), Backstop)
<1>3. n \in Nat /\ n = IF Cardinality(ts) > Backstop THEN Cardinality(ts) - Backstop ELSE 0
  BY <1>1, <1>2 DEF Excess
<1> HIDE DEF n
<1>4. /\ kept \subseteq ts /\ IsFiniteSet(kept)
      /\ Cardinality(kept) = IF n < Cardinality(ts) THEN Cardinality(ts) - n ELSE 0
  BY <1>3, WithoutOldestLeaves DEF n
<1>5. Cardinality(kept) = Cardinality(ts) - n /\ Cardinality(kept) <= Backstop
  BY <1>1, <1>2, <1>3, <1>4
<1> QED BY <1>4, <1>5 DEF n

-----------------------------------------------------------------------------
(* The trackers.                                                            *)

HistoryOK(s, h) ==
  /\ \A i \in 1..(Len(h) - 1) : h[i].at < h[i+1].at /\ h[i].status # h[i+1].status
  /\ s \in Informational => \A i \in 1..Len(h) : h[i].status <= Warn

\* What a history keeps after one more entry: no more than MaxHistory, the new
\* entry last, in order if the new entry is later than and unlike the last one.
LEMMA LatestOfAppend ==
  ASSUME NEW s \in States, NEW h \in Seq(Entry), Len(h) <= MaxHistory, NEW e \in Entry,
         HistoryOK(s, h),
         h # <<>> => h[Len(h)].at < e.at /\ h[Len(h)].status # e.status,
         s \in Informational => e.status <= Warn
  PROVE  LET kept == Latest(Append(h, e))
         IN  /\ kept \in Seq(Entry) /\ Len(kept) <= MaxHistory /\ kept # <<>>
             /\ kept[Len(kept)] = e
             /\ HistoryOK(s, kept)
<1> DEFINE all == Append(h, e)
           kept == Latest(all)
<1>1. /\ Len(h) \in Nat
      /\ all \in Seq(Entry) /\ Len(all) = Len(h) + 1
      /\ \A i \in 1..Len(h) : all[i] = h[i]
      /\ all[Len(h) + 1] = e
  BY AppendProperties, LenProperties
<1>2. MaxHistory \in Nat \ {0}
  BY TrackersAssumption
<1>3. HistoryOK(s, all)
  <2>1. ASSUME NEW i \in 1..(Len(all) - 1)
        PROVE  all[i].at < all[i+1].at /\ all[i].status # all[i+1].status
    <3>1. CASE i = Len(h)
      <4>1. h # <<>> /\ all[i] = h[Len(h)] /\ all[i+1] = e
        BY <1>1, <3>1, EmptySeq
      <4> QED BY <4>1
    <3>2. CASE i # Len(h)
      <4>1. i \in 1..(Len(h) - 1) /\ all[i] = h[i] /\ all[i+1] = h[i+1]
        BY <1>1, <3>2
      <4> QED BY <4>1 DEF HistoryOK
    <3> QED BY <3>1, <3>2
  <2>2. ASSUME s \in Informational, NEW i \in 1..Len(all)
        PROVE  all[i].status <= Warn
    <3>1. CASE i = Len(h) + 1
      BY <1>1, <2>2, <3>1
    <3>2. CASE i # Len(h) + 1
      <4>1. i \in 1..Len(h) /\ all[i] = h[i]
        BY <1>1, <3>2
      <4> QED BY <4>1, <2>2 DEF HistoryOK
    <3> QED BY <3>1, <3>2
  <2> QED BY <2>1, <2>2 DEF HistoryOK
<1> HIDE DEF all
<1>4. CASE Len(all) <= MaxHistory
  <2>1. kept = all
    BY <1>1, <1>2, <1>4 DEF Latest
  <2>2. all # <<>>
    BY <1>1, EmptySeq
  <2> HIDE DEF kept
  <2>3. kept \in Seq(Entry) /\ kept[Len(kept)] = e
    BY <1>1, <2>1
  <2> QED BY <1>3, <1>4, <2>1, <2>2, <2>3 DEF kept, all
<1>5. CASE ~ (Len(all) <= MaxHistory)
  <2>1. Len(all) = MaxHistory + 1 /\ kept = SubSeq(all, 2, Len(all))
    BY <1>1, <1>2, <1>5 DEF Latest
  <2>2. \A i \in 2..Len(all) : all[i] \in Entry
    BY <1>1, ElementOfSeq
  <2> HIDE DEF kept
  <2>3. /\ kept \in Seq(Entry) /\ Len(kept) = MaxHistory
        /\ \A i \in 1..MaxHistory : kept[i] = all[i+1]
    <3>1. /\ SubSeq(all, 2, Len(all)) \in Seq(Entry)
          /\ Len(SubSeq(all, 2, Len(all))) = IF 2 <= Len(all) THEN Len(all) - 2 + 1 ELSE 0
          /\ \A i \in 1..(Len(all) - 2 + 1) : SubSeq(all, 2, Len(all))[i] = all[2 + i - 1]
      BY <1>1, <2>2, SubSeqProperties
    <3> QED BY <1>1, <1>2, <2>1, <3>1
  <2>4. kept[Len(kept)] = e /\ kept # <<>>
    BY <1>1, <1>2, <2>1, <2>3, EmptySeq
  <2>5. HistoryOK(s, kept)
    <3>1. ASSUME NEW i \in 1..(Len(kept) - 1)
          PROVE  kept[i].at < kept[i+1].at /\ kept[i].status # kept[i+1].status
      <4>1. i + 1 \in 1..(Len(all) - 1) /\ i \in 1..MaxHistory /\ i + 1 \in 1..MaxHistory
        BY <1>2, <2>1, <2>3
      <4>2. kept[i] = all[i+1] /\ kept[i+1] = all[i+1+1]
        BY <2>3, <4>1
      <4> QED BY <4>1, <4>2, <1>3 DEF HistoryOK
    <3>2. ASSUME s \in Informational, NEW i \in 1..Len(kept)
          PROVE  kept[i].status <= Warn
      <4>1. i + 1 \in 1..Len(all) /\ kept[i] = all[i+1]
        BY <1>2, <2>1, <2>3
      <4> QED BY <4>1, <3>2, <1>3 DEF HistoryOK
    <3> QED BY <3>1, <3>2 DEF HistoryOK
  <2> QED BY <2>3, <2>4, <2>5, <1>2 DEF kept, all
<1> QED BY <1>4, <1>5

TrackerType == [status : 1..Worst, changedAt : Nat, history : Seq(Entry)]

TrackerOK(s, tracker) ==
  /\ tracker \in TrackerType /\ Len(tracker.history) <= MaxHistory
  /\ HistoryOK(s, tracker.history)
  /\ tracker.history # <<>> =>
       tracker.history[Len(tracker.history)] = [at |-> tracker.changedAt, status |-> tracker.status]

LEMMA TrackersInvIs ==
  TrackersInv <=>
    /\ now \in Nat /\ trackers \in [States -> TrackerType]
    /\ \A s \in States : TrackerOK(s, trackers[s]) /\ trackers[s].changedAt <= now
BY DEF TrackersInv, TrackersTypeOK, HistoryAgrees, TrackerOK, TrackerType, HistoryOK

\* A new tracker and a changed one agree with their histories.
LEMMA NewTrackerOK ==
  ASSUME NEW s \in States, NEW at \in Nat
  PROVE  TrackerOK(s, NewTracker(at)) /\ NewTracker(at).changedAt = at
<1>1. <<>> \in Seq(Entry) /\ Len(<<>>) = 0
  BY EmptySeq
<1>2. 1 \in 1..Worst /\ 0 <= MaxHistory
  BY TrackersAssumption
<1> QED BY <1>1, <1>2 DEF TrackerOK, TrackerType, NewTracker, HistoryOK

LEMMA CappedOK ==
  ASSUME NEW s \in States, NEW status \in 1..Worst
  PROVE  Capped(s, status) \in 1..Worst /\ (s \in Informational => Capped(s, status) <= Warn)
BY TrackersAssumption DEF Capped

LEMMA ChangeOK ==
  ASSUME TrackersInv, NEW s \in States, NEW status \in 1..Worst, Change(s, status), now' = now
  PROVE  TrackersInv'
<1>1. /\ now \in Nat /\ trackers \in [States -> TrackerType]
      /\ \A r \in States : TrackerOK(r, trackers[r]) /\ trackers[r].changedAt <= now
  BY TrackersInvIs
<1> DEFINE h == trackers[s].history
           e == [at |-> now, status |-> Capped(s, status)]
           new == [status |-> e.status, changedAt |-> now, history |-> Latest(Append(h, e))]
<1>2. /\ TrackerOK(s, trackers[s]) /\ trackers[s].changedAt < now
      /\ IsChange(s, status) /\ trackers' = [trackers EXCEPT ![s] = new]
  BY <1>1 DEF Change
<1>3. e \in Entry /\ (s \in Informational => e.status <= Warn)
  BY <1>1, CappedOK DEF Entry
<1>4. h \in Seq(Entry) /\ Len(h) <= MaxHistory /\ HistoryOK(s, h)
  BY <1>2 DEF TrackerOK, TrackerType
<1>5. h # <<>> => h[Len(h)].at < e.at /\ h[Len(h)].status # e.status
  BY <1>2 DEF TrackerOK, IsChange
<1> HIDE DEF h, e
<1>6. LET kept == Latest(Append(h, e))
      IN  /\ kept \in Seq(Entry) /\ Len(kept) <= MaxHistory /\ kept # <<>>
          /\ kept[Len(kept)] = e
          /\ HistoryOK(s, kept)
  BY <1>3, <1>4, <1>5, LatestOfAppend
<1>7. e.status \in 1..Worst /\ e = [at |-> now, status |-> e.status]
  BY <1>3 DEF e, Entry
<1>8. TrackerOK(s, new) /\ new.changedAt = now
  BY <1>1, <1>6, <1>7 DEF TrackerOK, TrackerType
<1> HIDE DEF new
<1>9. /\ trackers' \in [States -> TrackerType]
      /\ \A r \in States : TrackerOK(r, trackers'[r]) /\ trackers'[r].changedAt <= now
  BY <1>1, <1>2, <1>8 DEF TrackerOK
<1> QED BY <1>1, <1>9 DEF TrackersInv, TrackersTypeOK, HistoryAgrees, TrackerOK, TrackerType, HistoryOK

LEMMA ProgramRestartOK ==
  ASSUME TrackersInv, NEW s \in States, ProgramRestart(s), now' = now
  PROVE  TrackersInv'
<1>1. /\ now \in Nat /\ trackers \in [States -> TrackerType]
      /\ \A r \in States : TrackerOK(r, trackers[r]) /\ trackers[r].changedAt <= now
  BY TrackersInvIs
<1>2. TrackerOK(s, NewTracker(now)) /\ NewTracker(now).changedAt = now
  BY <1>1, NewTrackerOK
<1>3. /\ trackers' \in [States -> TrackerType]
      /\ \A r \in States : TrackerOK(r, trackers'[r]) /\ trackers'[r].changedAt <= now
  BY <1>1, <1>2 DEF TrackerOK, ProgramRestart
<1> QED BY <1>1, <1>3 DEF TrackersInv, TrackersTypeOK, HistoryAgrees, TrackerOK, TrackerType, HistoryOK

LEMMA TrackersInitially == Init => TrackersInv
<1> SUFFICES ASSUME Init PROVE TrackersInv
  OBVIOUS
<1>1. now \in Nat
  BY DEF Init, ClockInit
<1>2. \A s \in States : trackers[s] = NewTracker(now)
  BY DEF Init, TrackersInit
<1>3. \A s \in States : TrackerOK(s, trackers[s]) /\ trackers[s].changedAt <= now
  BY <1>1, <1>2, NewTrackerOK
<1>4. trackers \in [States -> TrackerType]
  BY <1>2, <1>3 DEF Init, TrackersInit, TrackerOK
<1> QED BY <1>1, <1>3, <1>4, TrackersInvIs

LEMMA TrackersStep == TrackersInv /\ [Next]_vars => TrackersInv'
<1> SUFFICES ASSUME TrackersInv, [Next]_vars PROVE TrackersInv'
  OBVIOUS
<1>1. CASE Happen
  BY <1>1, ChangeOK, ProgramRestartOK DEF Happen
<1>2. CASE Tick
  <2>1. now' = now + 1 /\ trackers' = trackers
    BY <1>2 DEF Tick, Advance
  <2> QED BY <2>1 DEF TrackersInv, TrackersTypeOK, HistoryAgrees
<1>3. CASE now' = now /\ trackers' = trackers
  BY <1>3 DEF TrackersInv, TrackersTypeOK, HistoryAgrees
<1>4. [Next]_vars => Happen \/ Tick \/ (now' = now /\ trackers' = trackers)
  BY DEF Next, vars, Collect, BeginIngest, AppendTransitions, EndIngest, Compact, Crash
<1> QED BY <1>1, <1>2, <1>3, <1>4

\* A state's history is in order, ends with what the state is, and respects its
\* cap, at all times and in every program (state_tracker.go:39-65).
THEOREM HistoryAlwaysAgrees == Spec => []HistoryAgrees
<1>1. TrackersInv => HistoryAgrees
  BY DEF TrackersInv
<1> QED BY <1>1, TrackersInitially, TrackersStep, PTL DEF Spec

-----------------------------------------------------------------------------
(* Documents.                                                               *)

\* What a program reports of a state are finitely many transitions of it.
LEMMA ReportIsOK ==
  ASSUME TrackersInv, unseen \in [States -> SUBSET Transition], NEW s \in States
  PROVE  Report(s) \in ReportType /\ ReportOK(s, Report(s))
<1> DEFINE tracker == trackers[s]
           h == tracker.history
           current == [at |-> tracker.changedAt, status |-> tracker.status]
           told == Transitions(s)
           OfState(e) == [state |-> s, at |-> e.at, status |-> e.status]
           reported == {OfState(e) : e \in told}
<1>1. tracker \in TrackerType
  BY TrackersInvIs
<1>2. h \in Seq(Entry) /\ current \in Entry
  BY <1>1 DEF TrackerType, Entry
<1>3. /\ Len(h) \in Nat /\ DOMAIN h = 1..Len(h) /\ h \in [1..Len(h) -> Entry]
  BY <1>2, LenProperties
<1>4. Range(h) \subseteq Entry /\ h \in Surjection(1..Len(h), Range(h))
  BY <1>3 DEF Range, Surjection
<1>5. IsFiniteSet(1..Len(h))
  BY <1>3, FS_Interval
<1>6. IsFiniteSet(Range(h))
  BY <1>4, <1>5, FS_Surjection
<1>7. told \subseteq Entry /\ IsFiniteSet(told)
  <2>1. told = Range(h) \cup {current}
    BY DEF Transitions
  <2>2. IsFiniteSet(Range(h) \cup {current})
    BY <1>6, FS_AddElement, Zenon
  <2> QED BY <1>2, <1>4, <2>1, <2>2
<1> HIDE DEF told
<1>8. IsFiniteSet(reported)
  <2> DEFINE f == [e \in told |-> OfState(e)]
  <2>1. f \in Surjection(told, reported)
    BY DEF Surjection
  <2> QED BY <1>7, <2>1, FS_Surjection
<1>9. reported \subseteq Transition
  BY <1>7 DEF Transition, Entry
<1>10. Report(s) = [transitions |-> reported, unseen |-> unseen[s]]
  BY DEF Report, told
<1>11. unseen[s] \in SUBSET Transition
  OBVIOUS
<1>12. \A t \in reported : t.state = s
  OBVIOUS
<1> HIDE DEF reported
<1> QED BY <1>8, <1>9, <1>10, <1>11, <1>12 DEF ReportType, ReportOK

-----------------------------------------------------------------------------
(* The store.                                                               *)

\* Rings of which only a part is left, and a count of what is left.
LEMMA FewerRings ==
  ASSUME StoreInv, rings' \subseteq rings, total' = Cardinality(rings')
  PROVE  /\ rings' \subseteq Transition /\ IsFiniteSet(rings')
         /\ Bounded'
<1>1. IsFiniteSet(rings) /\ total = Cardinality(rings) /\ total <= Backstop
  BY DEF StoreInv, Bounded
<1>2. IsFiniteSet(rings') /\ Cardinality(rings') <= Cardinality(rings)
  BY <1>1, FS_Subset
<1>3. Cardinality(rings') \in Nat /\ Cardinality(rings) \in Nat /\ Backstop \in Nat /\ RingCap \in Nat
  BY <1>1, <1>2, FS_CardinalityType, RingsAssumption
<1>4. ASSUME NEW s \in States PROVE Cardinality(Ring(s, rings')) <= RingCap
  <2>1. Ring(s, rings') \in SUBSET Ring(s, rings) /\ Ring(s, rings) \in SUBSET rings
    BY DEF Ring
  <2>2. IsFiniteSet(Ring(s, rings))
    BY <1>1, <2>1, FS_Subset
  <2>3. IsFiniteSet(Ring(s, rings')) /\ Cardinality(Ring(s, rings')) <= Cardinality(Ring(s, rings))
    BY <2>1, <2>2, FS_Subset
  <2>4. Cardinality(Ring(s, rings')) \in Nat /\ Cardinality(Ring(s, rings)) \in Nat
    BY <2>2, <2>3, FS_CardinalityType
  <2>5. Cardinality(Ring(s, rings)) <= RingCap
    BY DEF StoreInv, Bounded
  <2> QED BY <1>3, <2>3, <2>4, <2>5
<1>5. total' <= Backstop
  BY <1>1, <1>2, <1>3
<1>6. rings' \subseteq Transition
  BY DEF StoreInv
<1> QED BY <1>2, <1>4, <1>5, <1>6 DEF Bounded

\* A drop takes off the count what it takes off the rings.
LEMMA DroppedOK ==
  ASSUME StoreInv, NEW gone, Dropped(gone)
  PROVE  /\ rings' \subseteq rings /\ IsFiniteSet(rings')
         /\ Bounded'
         /\ due' \in [States -> SUBSET Transition]
<1> DEFINE dropped == {t \in rings : t.state \in gone}
<1>1. /\ rings' = {t \in rings : t.state \notin gone}
      /\ total' = total - Cardinality(dropped)
  BY DEF Dropped
<1>2. rings' \in SUBSET rings /\ dropped \in SUBSET rings /\ rings' \cap dropped = {} /\ rings = rings' \cup dropped
  BY <1>1
<1> HIDE DEF dropped
<1>3. IsFiniteSet(rings) /\ total = Cardinality(rings)
  BY DEF StoreInv, Bounded
<1>4. IsFiniteSet(rings') /\ IsFiniteSet(dropped)
  BY <1>2, <1>3, FS_Subset
<1>5. Cardinality(rings) = Cardinality(rings') + Cardinality(dropped)
  BY <1>2, <1>4, DisjointCount
<1>6. Cardinality(rings') \in Nat /\ Cardinality(dropped) \in Nat
  BY <1>4, FS_CardinalityType
<1>7. total' = Cardinality(rings')
  BY <1>1, <1>3, <1>5, <1>6
<1>8. due' \in [States -> SUBSET Transition]
  BY DEF Dropped, StoreInv
<1> QED BY <1>2, <1>4, <1>7, <1>8, FewerRings

\* Rings cut to the backstop count what the store says, and keep every cap.
LEMMA CutToBackstop ==
  ASSUME NEW ts, IsFiniteSet(ts), ts \subseteq Transition,
         \A s \in States : Cardinality(Ring(s, ts)) <= RingCap,
         rings' \in WithoutOldest(ts, Excess(Cardinality(ts), Backstop)),
         total' = Cardinality(ts) - Excess(Cardinality(ts), Backstop)
  PROVE  /\ rings' \subseteq ts /\ IsFiniteSet(rings')
         /\ Bounded'
<1>1. /\ rings' \subseteq ts /\ IsFiniteSet(rings')
      /\ total' = Cardinality(rings') /\ total' <= Backstop
  BY EvictedCount
<1>2. ASSUME NEW s \in States PROVE Cardinality(Ring(s, rings')) <= RingCap
  <2>1. Ring(s, rings') \in SUBSET Ring(s, ts) /\ Ring(s, ts) \in SUBSET ts
    BY <1>1 DEF Ring
  <2>2. IsFiniteSet(Ring(s, ts))
    BY <2>1, FS_Subset
  <2>3. IsFiniteSet(Ring(s, rings')) /\ Cardinality(Ring(s, rings')) <= Cardinality(Ring(s, ts))
    BY <2>1, <2>2, FS_Subset
  <2>4. Cardinality(Ring(s, rings')) \in Nat /\ Cardinality(Ring(s, ts)) \in Nat /\ RingCap \in Nat
    BY <2>2, <2>3, FS_CardinalityType, RingsAssumption
  <2> QED BY <2>3, <2>4
<1> QED BY <1>1, <1>2 DEF Bounded

LEMMA AppendOK ==
  ASSUME RingsInv, NEW s \in DOMAIN ingest.left, AppendTransitions(s)
  PROVE  StoreInv'
<1> DEFINE report == ingest.left[s]
           added  == report.transitions \ rings
           old    == Ring(s, rings)
           ring   == old \cup added
           others == rings \ old
<1>1. s \in States /\ report \in ReportType /\ ReportOK(s, report)
  BY DEF RingsInv, DocumentsInv, DocumentOK
<1>2. /\ IsFiniteSet(rings) /\ rings \subseteq Transition /\ total = Cardinality(rings)
      /\ IsFiniteSet(journal) /\ journal \subseteq Transition /\ rings \subseteq journal
      /\ due \in [States -> SUBSET Transition]
      /\ \A r \in States : Cardinality(Ring(r, rings)) <= RingCap
  BY DEF RingsInv, StoreInv, Bounded, RingsAreJournaled
<1>3. /\ added \subseteq Transition /\ added \in SUBSET report.transitions
      /\ IsFiniteSet(report.transitions) /\ \A t \in added : t.state = s
      /\ added \cap rings = {}
  BY <1>1 DEF ReportOK, ReportType
<1>4. /\ old \in SUBSET rings /\ others \in SUBSET rings /\ old \cap others = {}
      /\ rings = old \cup others /\ \A t \in others : t.state # s
  BY DEF Ring
<1>5. PICK trimmed \in Trimmed(ring) :
        LET count  == total + Cardinality(added) - (Cardinality(ring) - Cardinality(trimmed))
            excess == Excess(count, Backstop)
        IN  /\ rings' \in WithoutOldest(others \cup trimmed, excess)
            /\ total' = count - excess
            /\ due' = IF excess > 0 THEN [r \in States |-> {}]
                      ELSE [due EXCEPT ![s] = NewestOf(
                              @ \cup report.transitions \cup Promised(report.unseen), ring)]
  BY DEF AppendTransitions
<1>6. journal' = journal \cup added
  BY DEF AppendTransitions
<1>7. due' \in [States -> SUBSET Transition]
  <2>1. due[s] \cup report.transitions \cup Promised(report.unseen) \subseteq Transition
    BY <1>1, <1>2 DEF ReportType, Promised
  <2>2. NewestOf(due[s] \cup report.transitions \cup Promised(report.unseen), ring) \subseteq Transition
    BY <2>1 DEF NewestOf
  <2> QED BY <1>1, <1>2, <1>5, <2>2
<1> HIDE DEF added, old, others, report
<1>8. IsFiniteSet(added) /\ IsFiniteSet(old) /\ IsFiniteSet(others)
  BY <1>2, <1>3, <1>4, FS_Subset
<1>9. old \cap added = {}
  BY <1>3, <1>4
<1>10. IsFiniteSet(ring) /\ Cardinality(ring) = Cardinality(old) + Cardinality(added)
  BY <1>8, <1>9, DisjointCount
<1>11. Cardinality(rings) = Cardinality(old) + Cardinality(others)
  BY <1>4, <1>8, DisjointCount
<1> HIDE DEF ring
<1>12. /\ trimmed \subseteq ring /\ IsFiniteSet(trimmed)
       /\ Cardinality(trimmed) \in Nat /\ Cardinality(trimmed) <= RingCap
  BY <1>5, <1>10, TrimmedFits
<1>13. others \cap trimmed = {} /\ others \cup trimmed \subseteq Transition /\ others \cup trimmed \subseteq journal'
  BY <1>2, <1>3, <1>4, <1>6, <1>12 DEF ring
<1>14. /\ IsFiniteSet(others \cup trimmed)
       /\ Cardinality(others \cup trimmed) = Cardinality(others) + Cardinality(trimmed)
  BY <1>8, <1>12, <1>13, DisjointCount
<1>15. /\ Cardinality(old) \in Nat /\ Cardinality(added) \in Nat
       /\ Cardinality(others) \in Nat /\ Cardinality(ring) \in Nat
  BY <1>8, <1>10, FS_CardinalityType
<1>16. total + Cardinality(added) - (Cardinality(ring) - Cardinality(trimmed)) = Cardinality(others \cup trimmed)
  BY <1>2, <1>10, <1>11, <1>12, <1>14, <1>15
<1>17. /\ rings' \in WithoutOldest(others \cup trimmed, Excess(Cardinality(others \cup trimmed), Backstop))
       /\ total' = Cardinality(others \cup trimmed) - Excess(Cardinality(others \cup trimmed), Backstop)
  BY <1>5, <1>16
<1>18. ASSUME NEW r \in States PROVE Cardinality(Ring(r, others \cup trimmed)) <= RingCap
  <2>1. CASE r = s
    <3>1. Ring(r, others \cup trimmed) = trimmed
      BY <1>3, <1>4, <1>12, <2>1 DEF Ring, ring, old
    <3> QED BY <3>1, <1>12
  <2>2. CASE r # s
    <3>1. Ring(r, others \cup trimmed) = Ring(r, rings)
      BY <1>3, <1>4, <1>12, <2>2 DEF Ring, ring, old
    <3> QED BY <3>1, <1>2
  <2> QED BY <2>1, <2>2
<1>19. /\ rings' \subseteq others \cup trimmed /\ IsFiniteSet(rings')
       /\ Bounded'
  BY <1>13, <1>14, <1>17, <1>18, CutToBackstop
<1>20. IsFiniteSet(journal') /\ journal' \subseteq Transition
  BY <1>2, <1>3, <1>6, <1>8, FS_Union
<1> QED BY <1>7, <1>13, <1>19, <1>20 DEF StoreInv, RingsAreJournaled

LEMMA BeginIngestOK ==
  ASSUME RingsInv, NEW doc \in documents, NEW gone, BeginIngest(doc, gone)
  PROVE  StoreInv'
<1>1. /\ rings' \subseteq rings /\ IsFiniteSet(rings') /\ Bounded'
      /\ due' \in [States -> SUBSET Transition]
  BY DroppedOK DEF RingsInv, BeginIngest
<1>2. journal' = journal
  BY DEF BeginIngest
<1> QED BY <1>1, <1>2 DEF RingsInv, StoreInv, RingsAreJournaled

LEMMA EndIngestOK ==
  ASSUME RingsInv, NEW evicted, EndIngest(evicted)
  PROVE  StoreInv'
<1>1. /\ rings' \subseteq rings /\ IsFiniteSet(rings') /\ Bounded'
      /\ due' \in [States -> SUBSET Transition]
  BY DroppedOK DEF RingsInv, EndIngest
<1>2. journal' = journal \/ journal' = rings'
  BY DEF EndIngest
<1> QED BY <1>1, <1>2 DEF RingsInv, StoreInv, RingsAreJournaled

LEMMA CompactOK ==
  ASSUME RingsInv, Compact
  PROVE  StoreInv'
BY DEF RingsInv, StoreInv, RingsAreJournaled, Bounded, Compact

\* A replay holds the caps of the rings and of all, whatever the journal has.
LEMMA CrashOK ==
  ASSUME RingsInv, Crash
  PROVE  StoreInv'
<1>1. PICK replayed \in SUBSET journal :
        /\ \A s \in States :
             IF Expired(s) THEN Ring(s, replayed) = {}
             ELSE Ring(s, replayed) \in Trimmed(Ring(s, journal))
        /\ rings' \in WithoutOldest(replayed, Excess(Cardinality(replayed), Backstop))
        /\ total' = Cardinality(replayed) - Excess(Cardinality(replayed), Backstop)
        /\ due' = [s \in States |->
                    IF Excess(Cardinality(replayed), Backstop) > 0
                       \/ \A t \in due[s] : t.at + Retention < now
                    THEN {} ELSE NewestOf(due[s], Ring(s, journal))]
  BY DEF Crash
<1>2. journal \subseteq Transition /\ IsFiniteSet(journal) /\ due \in [States -> SUBSET Transition]
  BY DEF RingsInv, StoreInv
<1>3. IsFiniteSet(replayed) /\ replayed \subseteq Transition
  BY <1>2, FS_Subset
<1>4. ASSUME NEW s \in States PROVE Cardinality(Ring(s, replayed)) <= RingCap
  <2>1. CASE Expired(s)
    <3>1. Ring(s, replayed) = {}
      BY <1>1, <2>1
    <3>2. Cardinality(Ring(s, replayed)) = 0
      BY <3>1, FS_EmptySet
    <3> QED BY <3>2, RingsAssumption
  <2>2. CASE ~ Expired(s)
    <3>1. Ring(s, journal) \in SUBSET journal
      BY DEF Ring
    <3>2. IsFiniteSet(Ring(s, journal))
      BY <1>2, <3>1, FS_Subset
    <3>3. Ring(s, replayed) \in Trimmed(Ring(s, journal))
      BY <1>1, <2>2
    <3> QED BY <3>2, <3>3, TrimmedFits
  <2> QED BY <2>1, <2>2
<1>5. /\ rings' \subseteq replayed /\ IsFiniteSet(rings') /\ Bounded'
  BY <1>1, <1>3, <1>4, CutToBackstop
<1>6. due' \in [States -> SUBSET Transition]
  BY <1>1, <1>2 DEF NewestOf
<1>7. journal' = rings'
  BY DEF Crash
<1> QED BY <1>3, <1>5, <1>6, <1>7 DEF StoreInv, RingsAreJournaled

-----------------------------------------------------------------------------
(* The invariant.                                                           *)

LEMMA RingsInitially == Init => RingsInv
<1> SUFFICES ASSUME Init PROVE RingsInv
  OBVIOUS
<1>1. TrackersInv
  BY TrackersInitially
<1>2. StoreInv
  <2>1. IsFiniteSet({}) /\ Cardinality({}) = 0
    BY FS_EmptySet
  <2>2. rings = {} /\ total = 0 /\ journal = {} /\ due = [s \in States |-> {}]
    BY DEF Init
  <2>3. \A s \in States : Ring(s, rings) = {}
    BY <2>2 DEF Ring
  <2>4. Bounded
    BY <2>1, <2>2, <2>3, RingsAssumption DEF Bounded
  <2> QED BY <2>1, <2>2, <2>4 DEF StoreInv, RingsAreJournaled
<1>3. DocumentsInv
  BY DEF Init, DocumentsInv, DocumentOK, NoIngest, NoDocument
<1> QED BY <1>1, <1>2, <1>3 DEF RingsInv

LEMMA StoreStep == RingsInv /\ [Next]_vars => StoreInv'
<1> SUFFICES ASSUME RingsInv, [Next]_vars PROVE StoreInv'
  OBVIOUS
<1>1. CASE UNCHANGED <<storeVars, due>>
  BY <1>1 DEF RingsInv, StoreInv, Bounded, RingsAreJournaled, storeVars
<1>2. ASSUME NEW doc \in documents, NEW gone \in SUBSET States, BeginIngest(doc, gone)
      PROVE  StoreInv'
  BY <1>2, BeginIngestOK
<1>3. ASSUME NEW s \in DOMAIN ingest.left, AppendTransitions(s)
      PROVE  StoreInv'
  BY <1>3, AppendOK
<1>4. ASSUME NEW evicted \in SUBSET States, EndIngest(evicted)
      PROVE  StoreInv'
  BY <1>4, EndIngestOK
<1>5. CASE Compact
  BY <1>5, CompactOK
<1>6. CASE Crash
  BY <1>6, CrashOK
<1>7. Tick \/ Happen \/ (\E reported \in SUBSET States : Collect(reported)) \/ UNCHANGED vars
        => UNCHANGED <<storeVars, due>>
  BY DEF Tick, Happen, Collect, vars, storeVars
<1> QED BY <1>1, <1>2, <1>3, <1>4, <1>5, <1>6, <1>7 DEF Next

LEMMA DocumentsStep == RingsInv /\ [Next]_vars => DocumentsInv'
<1> SUFFICES ASSUME RingsInv, [Next]_vars PROVE DocumentsInv'
  OBVIOUS
<1> USE DEF DocumentsInv
<1>1. DocumentsInv
  BY DEF RingsInv
<1>2. CASE UNCHANGED <<documents, ingest, unseen>>
  BY <1>1, <1>2
<1>3. CASE Happen
  <2>1. documents' = documents /\ ingest' = ingest
    BY <1>3 DEF Happen
  <2>2. unseen' \in [States -> SUBSET Transition]
    <3>1. ASSUME NEW s \in States, NEW status \in 1..Worst,
                 unseen' = [unseen EXCEPT ![s] = @ \cup
                   {[state |-> s, at |-> now, status |-> Capped(s, status)]}]
          PROVE  unseen' \in [States -> SUBSET Transition]
      <4>1. [state |-> s, at |-> now, status |-> Capped(s, status)] \in Transition
        BY CappedOK DEF RingsInv, TrackersInv, Transition
      <4> QED BY <1>1, <3>1, <4>1
    <3>2. ASSUME NEW s \in States, unseen' = [unseen EXCEPT ![s] = {}]
          PROVE  unseen' \in [States -> SUBSET Transition]
      BY <1>1, <3>2
    <3> QED BY <1>3, <3>1, <3>2 DEF Happen
  <2> QED BY <1>1, <2>1, <2>2
<1>4. ASSUME NEW reported \in SUBSET States, Collect(reported)
      PROVE  DocumentsInv'
  <2> DEFINE doc == [s \in reported |-> Report(s)]
  <2>1. DocumentOK(doc)
    BY <1>1, ReportIsOK DEF RingsInv, DocumentOK
  <2> HIDE DEF doc
  <2>2. documents' = documents \cup {doc} /\ ingest' = ingest /\ unseen' = unseen
    BY <1>4 DEF Collect, doc
  <2> QED BY <1>1, <2>1, <2>2
<1>5. ASSUME NEW doc \in documents, NEW gone \in SUBSET States, BeginIngest(doc, gone)
      PROVE  DocumentsInv'
  <2>1. DocumentOK(doc) /\ DOMAIN doc \subseteq States
    BY <1>1 DEF DocumentOK
  <2>2. /\ documents' \subseteq documents /\ unseen' = unseen
        /\ ingest' = [left |-> doc, reported |-> DOMAIN doc, active |-> TRUE]
    BY <1>5 DEF BeginIngest
  <2> QED BY <1>1, <2>1, <2>2
<1>6. ASSUME NEW s \in DOMAIN ingest.left, AppendTransitions(s)
      PROVE  DocumentsInv'
  <2> DEFINE rest == [r \in DOMAIN ingest.left \ {s} |-> ingest.left[r]]
  <2>1. DocumentOK(rest)
    BY <1>1 DEF DocumentOK
  <2>2. s \in States
    BY <1>1 DEF DocumentOK
  <2> HIDE DEF rest
  <2>3. /\ documents' = documents /\ ingest' = [ingest EXCEPT !.left = rest]
        /\ unseen' = [unseen EXCEPT ![s] = @ \ ingest.left[s].unseen]
    BY <1>6 DEF AppendTransitions, rest
  <2>4. unseen' \in [States -> SUBSET Transition]
    BY <1>1, <2>2, <2>3
  <2>5. ingest'.reported = ingest.reported /\ ingest'.active = ingest.active /\ ingest'.left \in {rest, ingest.left}
    BY <2>3
  <2> QED BY <1>1, <2>1, <2>3, <2>4, <2>5
<1>7. CASE ingest' = NoIngest /\ UNCHANGED <<documents, unseen>>
  <2>1. DocumentOK(NoIngest.left) /\ NoIngest.reported \subseteq States /\ NoIngest.active \in BOOLEAN
    BY DEF NoIngest, NoDocument, DocumentOK
  <2> QED BY <1>1, <1>7, <2>1
<1>8. Tick \/ Compact \/ UNCHANGED vars => UNCHANGED <<documents, ingest, unseen>>
  BY DEF Tick, Compact, vars
<1>9. (\E evicted \in SUBSET States : EndIngest(evicted)) \/ Crash
        => ingest' = NoIngest /\ UNCHANGED <<documents, unseen>>
  BY DEF EndIngest, Crash
<1> QED BY <1>2, <1>3, <1>4, <1>5, <1>6, <1>7, <1>8, <1>9 DEF Next

\* The strengthening that is inductive.
THEOREM RingsInvariant == Spec => []RingsInv
<1>1. Init => RingsInv
  BY RingsInitially
<1>2. RingsInv /\ [Next]_vars => RingsInv'
  BY TrackersStep, StoreStep, DocumentsStep DEF RingsInv
<1> QED BY <1>1, <1>2, PTL DEF Spec

\* Every variable keeps a value of its kind; total is a natural number because
\* it is the number of transitions.
THEOREM RingsTypes == Spec => []TypeOK
<1>1. RingsInv => TypeOK
  <2> SUFFICES ASSUME RingsInv PROVE TypeOK
    OBVIOUS
  <2>1. total \in Nat
    BY FS_CardinalityType DEF RingsInv, StoreInv, Bounded
  <2>2. \A doc \in documents \cup {ingest.left} : \A s \in DOMAIN doc :
          s \in States /\ doc[s] \in [transitions : SUBSET Transition, unseen : SUBSET Transition]
    BY DEF RingsInv, DocumentsInv, DocumentOK, ReportType
  <2> QED BY <2>1, <2>2 DEF RingsInv, TrackersInv, StoreInv, DocumentsInv, TypeOK
<1> QED BY <1>1, RingsInvariant, PTL

\* The count is right and the bounds hold through every drop, trim, eviction,
\* compaction and replay (storage.go:663-723).
THEOREM RingsAlwaysBounded == Spec => []Bounded
<1>1. RingsInv => Bounded
  BY DEF RingsInv, StoreInv
<1> QED BY <1>1, RingsInvariant, PTL

\* Whenever the process dies, all that the rings hold is in the journal
\* (storage.go:680-691, 428-448).
THEOREM RingsAlwaysJournaled == Spec => []RingsAreJournaled
<1>1. RingsInv => RingsAreJournaled
  BY DEF RingsInv, StoreInv
<1> QED BY <1>1, RingsInvariant, PTL


\* For any states, caps and documents, the rings are bounded, counted right and
\* journaled (storage.go:663-723).
THEOREM RingsAlwaysKept == Spec => []RingsAreKept
BY RingsTypes, RingsAlwaysBounded, RingsAlwaysJournaled, PTL DEF RingsAreKept

-----------------------------------------------------------------------------
(* What arrives.  Nothing is missed because all that is known of a state,   *)
(* wherever it is, is told apart by its time and is no newer than the       *)
(* state's tracker; because what no stored document was collected after is  *)
(* still in the history, or the history is full of newer changes; and       *)
(* because a document on its way tells of all that its program would have   *)
(* to tell again were that document not to arrive.                          *)

\* The changes that the history of a state has, and its last one, as transitions.
Told(s) ==
  LET h == trackers[s].history
  IN  {[state |-> s, at |-> h[i].at, status |-> h[i].status] : i \in 1..Len(h)}

Current(s) == [state |-> s, at |-> trackers[s].changedAt, status |-> trackers[s].status]

\* The reports of a state that are on the way, or being stored.
Reports(s) ==
  {doc[s] : doc \in {d \in documents \cup {ingest.left} : s \in DOMAIN d}}

\* All the transitions of a state that are anywhere.
Known(s) ==
  Told(s) \cup {Current(s)} \cup unseen[s] \cup Ring(s, journal)
    \cup UNION {report.transitions \cup report.unseen : report \in Reports(s)}

KnownOK(s) ==
  \A t \in Known(s) :
    /\ t \in Transition /\ t.state = s /\ t.at <= trackers[s].changedAt
    /\ \A u \in Known(s) : t.at = u.at => t = u

Ascending(h) == \A i, j \in 1..Len(h) : i < j => h[i].at < h[j].at

UnseenOK(s) ==
  /\ IsFiniteSet(unseen[s])
  /\ \A u \in unseen[s] :
       /\ \A t \in Told(s) : t.at > u.at => t \in unseen[s]
       /\ u \notin Told(s) =>
            Len(trackers[s].history) = MaxHistory /\ \A t \in Told(s) : t.at > u.at

PromiseOK(s, report) ==
  /\ Promised(report.unseen) \subseteq report.transitions
  /\ \A r \in report.unseen, u \in unseen[s] : u.at < r.at => u \in report.unseen

StateArrives(s) ==
  /\ KnownOK(s) /\ Ascending(trackers[s].history) /\ UnseenOK(s)
  /\ \A report \in Reports(s) : PromiseOK(s, report)

DueOK == \A s \in States : \A t \in due[s] : t \in rings /\ t.state = s

ArrivalInv == RingsInv /\ DueOK /\ \A s \in States : StateArrives(s)

\* A ring that is trimmed keeps what fewer than RingCap of its transitions are
\* newer than.
LEMMA TrimKeepsNewest ==
  ASSUME NEW ring, IsFiniteSet(ring), \A t \in ring : t.at \in Nat,
         \A t, u \in ring : t.at = u.at => t = u,
         NEW t \in ring, Cardinality({u \in ring : u.at > t.at}) < RingCap,
         NEW trimmed \in Trimmed(ring)
  PROVE  t \in trimmed
<1> DEFINE n == Excess(Cardinality(ring), RingCap)
           newer == {u \in ring : u.at > t.at}
<1>1. Cardinality(ring) \in Nat /\ RingCap \in Nat \ {0}
  BY FS_CardinalityType, RingsAssumption
<1>2. n \in Nat /\ n = IF Cardinality(ring) > RingCap THEN Cardinality(ring) - RingCap ELSE 0
  BY <1>1 DEF Excess
<1>3. trimmed \in WithoutOldest(ring, n)
  BY DEF Trimmed
<1>4. \A u \in ring \ trimmed, k \in trimmed : u.at <= k.at
  BY <1>3 DEF WithoutOldest
<1>5. Cardinality(newer) < RingCap
  OBVIOUS
<1>6. newer \in SUBSET ring
  OBVIOUS
<1>7. IsFiniteSet(newer)
  BY <1>6, FS_Subset
<1> HIDE DEF n
<1>8. /\ trimmed \subseteq ring /\ IsFiniteSet(trimmed) /\ Cardinality(trimmed) \in Nat
      /\ Cardinality(trimmed) = IF n < Cardinality(ring) THEN Cardinality(ring) - n ELSE 0
  BY <1>2, <1>3, WithoutOldestLeaves
<1> SUFFICES ASSUME t \notin trimmed PROVE FALSE
  OBVIOUS
<1>9. trimmed \in SUBSET newer
  <2>1. ASSUME NEW k \in trimmed PROVE k.at > t.at
    <3>1. k \in ring /\ k # t /\ t.at <= k.at
      BY <1>4, <1>8
    <3>2. k.at # t.at /\ k.at \in Nat /\ t.at \in Nat
      BY <3>1
    <3> QED BY <3>1, <3>2
  <2> QED BY <1>8, <2>1
<1> HIDE DEF newer
<1>10. Cardinality(trimmed) <= Cardinality(newer) /\ Cardinality(newer) \in Nat
  BY <1>7, <1>9, FS_Subset, FS_CardinalityType
<1>11. CASE Cardinality(ring) > RingCap
  BY <1>1, <1>2, <1>5, <1>8, <1>10, <1>11
<1>12. CASE ~ (Cardinality(ring) > RingCap)
  <2>1. trimmed \in SUBSET ring /\ Cardinality(trimmed) = Cardinality(ring)
    BY <1>1, <1>2, <1>8, <1>12
  <2>2. trimmed = ring
    BY <2>1, FS_Subset
  <2> QED BY <2>2
<1> QED BY <1>11, <1>12

\* Where nothing is in excess, nothing is taken away.
LEMMA NoneIsOldest ==
  ASSUME NEW ts, IsFiniteSet(ts), NEW kept \in WithoutOldest(ts, 0)
  PROVE  kept = ts
<1>1. /\ kept \in SUBSET ts /\ Cardinality(ts) \in Nat /\ Cardinality(kept) \in Nat
      /\ Cardinality(kept) = IF 0 < Cardinality(ts) THEN Cardinality(ts) - 0 ELSE 0
  BY WithoutOldestLeaves
<1>2. Cardinality(kept) = Cardinality(ts)
  BY <1>1
<1> QED BY <1>1, <1>2, FS_Subset

LEMMA ReportIs ==
  ASSUME NEW s \in States, trackers \in [States -> TrackerType]
  PROVE  Report(s) = [transitions |-> Told(s) \cup {Current(s)}, unseen |-> unseen[s]]
<1> DEFINE h == trackers[s].history
           T(e) == [state |-> s, at |-> e.at, status |-> e.status]
           current == [at |-> trackers[s].changedAt, status |-> trackers[s].status]
<1>1. DOMAIN h = 1..Len(h)
  BY LenProperties DEF TrackerType
<1>2. Transitions(s) = {h[i] : i \in 1..Len(h)} \cup {current}
  BY <1>1, Zenon DEF Transitions, Range
<1>3. Told(s) = {T(h[i]) : i \in 1..Len(h)}
  BY Zenon DEF Told
<1>4. Current(s) = T(current)
  BY DEF Current
<1>5. {T(e) : e \in Transitions(s)} = {T(h[i]) : i \in 1..Len(h)} \cup {T(current)}
  <2> HIDE DEF T, h, current
  <2> QED BY <1>2
<1> QED BY <1>3, <1>4, <1>5 DEF Report

\* All of what a history tells of, and the number of it.
LEMMA ToldCount ==
  ASSUME NEW s \in States, trackers \in [States -> TrackerType], Ascending(trackers[s].history)
  PROVE  /\ IsFiniteSet(Told(s))
         /\ Cardinality(Told(s)) = Len(trackers[s].history)
<1> DEFINE h == trackers[s].history
           T(i) == [state |-> s, at |-> h[i].at, status |-> h[i].status]
           f == [i \in 1..Len(h) |-> T(i)]
<1>1. h \in Seq(Entry) /\ Len(h) \in Nat /\ \A i \in 1..Len(h) : h[i] \in Entry
  BY LenProperties, ElementOfSeq DEF TrackerType
<1>2. ASSUME NEW i \in 1..Len(h), NEW j \in 1..Len(h), h[i].at = h[j].at
      PROVE  i = j
  <2>1. i \in Nat /\ j \in Nat /\ h[i].at \in Nat /\ h[j].at \in Nat
    BY <1>1 DEF Entry
  <2>2. /\ i < j => h[i].at < h[j].at
        /\ j < i => h[j].at < h[i].at
    BY DEF Ascending
  <2> QED BY <1>2, <2>1, <2>2
<1>3. f \in [1..Len(h) -> Told(s)]
  BY DEF Told
<1>4. f \in Injection(1..Len(h), Told(s))
  BY <1>2, <1>3 DEF Injection, IsInjective
<1>5. f \in Surjection(1..Len(h), Told(s))
  BY <1>3 DEF Surjection, Told
<1>6. f \in Bijection(1..Len(h), Told(s))
  BY <1>4, <1>5 DEF Bijection
<1>7. IsFiniteSet(1..Len(h)) /\ Cardinality(1..Len(h)) = Len(h)
  <2> HIDE DEF h
  <2>1. 1 \in Int /\ Len(h) \in Int /\ (IF 1 > Len(h) THEN 0 ELSE Len(h) - 1 + 1) = Len(h)
    BY <1>1
  <2> QED BY <2>1, FS_Interval
<1> HIDE DEF h, f
<1>8. IsFiniteSet(Told(s)) /\ Cardinality(Told(s)) = Len(h)
  BY <1>6, <1>7, FS_Bijection DEF ExistsBijection
<1> QED BY <1>8 DEF h

\* While no more than MaxHistory changes are unseen, the history tells of them all.
LEMMA UnseenIsTold ==
  ASSUME NEW s \in States, trackers \in [States -> TrackerType], KnownOK(s),
         Ascending(trackers[s].history), UnseenOK(s), Cardinality(unseen[s]) <= MaxHistory
  PROVE  unseen[s] \subseteq Told(s)
<1> SUFFICES ASSUME NEW u \in unseen[s], u \notin Told(s) PROVE FALSE
  OBVIOUS
<1>1. Len(trackers[s].history) = MaxHistory /\ \A t \in Told(s) : t.at > u.at
  BY DEF UnseenOK
<1>2. Told(s) \cup {u} \in SUBSET unseen[s]
  BY <1>1 DEF UnseenOK
<1>3. IsFiniteSet(Told(s)) /\ Cardinality(Told(s)) = MaxHistory
  BY <1>1, ToldCount
<1>4. Cardinality(Told(s) \cup {u}) = MaxHistory + 1
  BY <1>3, FS_AddElement
<1>5. Cardinality(Told(s) \cup {u}) <= Cardinality(unseen[s]) /\ Cardinality(unseen[s]) \in Nat
  BY <1>2, FS_Subset, FS_CardinalityType DEF UnseenOK
<1> QED BY <1>4, <1>5, TrackersAssumption

LEMMA ReportPromises ==
  ASSUME NEW s \in States, trackers \in [States -> TrackerType], StateArrives(s)
  PROVE  PromiseOK(s, Report(s))
<1>1. Report(s) = [transitions |-> Told(s) \cup {Current(s)}, unseen |-> unseen[s]]
  BY ReportIs
<1>2. Promised(unseen[s]) \subseteq Told(s)
  BY UnseenIsTold DEF StateArrives, Promised
<1> QED BY <1>1, <1>2 DEF PromiseOK

\* Of a state, what a step may do beside its tracker: a report on the way was
\* there or has just been made, and the journal's new lines come from reports.
LEMMA ReportsMove ==
  ASSUME RingsInv, [Next]_vars, NEW s \in States
  PROVE  /\ Reports(s)' \subseteq Reports(s) \cup {Report(s)}
         /\ Ring(s, journal)' \subseteq
              Ring(s, journal) \cup UNION {report.transitions : report \in Reports(s)}
<1> DEFINE Goal ==
      /\ Reports(s)' \subseteq Reports(s) \cup {Report(s)}
      /\ Ring(s, journal)' \subseteq
           Ring(s, journal) \cup UNION {report.transitions : report \in Reports(s)}
<1>0. rings \subseteq journal
  BY DEF RingsInv, StoreInv, RingsAreJournaled
<1>1. CASE UNCHANGED <<documents, ingest, journal>>
  BY <1>1 DEF Reports, Ring
<1>2. ASSUME NEW reported \in SUBSET States, Collect(reported)
      PROVE  Goal
  <2> DEFINE doc == [r \in reported |-> Report(r)]
  <2>1. documents' = documents \cup {doc} /\ ingest' = ingest /\ journal' = journal
    BY <1>2 DEF Collect, storeVars
  <2>2. s \in DOMAIN doc => doc[s] = Report(s)
    OBVIOUS
  <2> HIDE DEF doc
  <2> QED BY <2>1, <2>2 DEF Reports, Ring
<1>3. ASSUME NEW doc \in documents, NEW gone \in SUBSET States, BeginIngest(doc, gone)
      PROVE  Goal
  <2>1. documents' \subseteq documents /\ ingest'.left = doc /\ journal' = journal
    BY <1>3 DEF BeginIngest
  <2> QED BY <2>1 DEF Reports, Ring
<1>4. ASSUME NEW r \in DOMAIN ingest.left, AppendTransitions(r)
      PROVE  Goal
  <2> DEFINE rest == [q \in DOMAIN ingest.left \ {r} |-> ingest.left[q]]
             added == ingest.left[r].transitions \ rings
  <2>1. ingest' = [ingest EXCEPT !.left = rest] /\ documents' = documents /\ journal' = journal \cup added
    BY <1>4 DEF AppendTransitions
  <2>2. ingest'.left \in {rest, ingest.left}
    BY <2>1
  <2>3. s \in DOMAIN rest => s \in DOMAIN ingest.left /\ rest[s] = ingest.left[s]
    OBVIOUS
  <2> HIDE DEF rest
  <2>4. Reports(s)' \subseteq Reports(s)
    BY <2>1, <2>2, <2>3 DEF Reports
  <2>5. \A t \in added : t.state = r
    BY DEF RingsInv, DocumentsInv, DocumentOK, ReportOK
  <2>6. r = s => ingest.left[r] \in Reports(s)
    BY DEF Reports
  <2>7. r = s => added \subseteq UNION {report.transitions : report \in Reports(s)}
    BY <2>6
  <2> HIDE DEF added
  <2>8. Ring(s, journal)' \subseteq
           Ring(s, journal) \cup UNION {report.transitions : report \in Reports(s)}
    BY <2>1, <2>5, <2>7 DEF Ring
  <2> QED BY <2>4, <2>8
<1>5. CASE ingest' = NoIngest /\ documents' = documents /\ journal' \subseteq journal
  <2>1. s \notin DOMAIN NoIngest.left
    BY DEF NoIngest, NoDocument
  <2> QED BY <1>5, <2>1 DEF Reports, Ring
<1>6. CASE Compact
  <2>1. ingest' = ingest /\ documents' = documents /\ journal' \subseteq journal
    BY <1>0, <1>6 DEF Compact
  <2> QED BY <2>1 DEF Reports, Ring
<1>7. CASE Crash
  <2>1. rings' \subseteq journal
    BY <1>7 DEF Crash, WithoutOldest
  <2>2. ingest' = NoIngest /\ documents' = documents /\ journal' \subseteq journal
    BY <1>7, <2>1 DEF Crash
  <2> QED BY <1>5, <2>2
<1>8. ASSUME NEW evicted \in SUBSET States, EndIngest(evicted)
      PROVE  Goal
  <2>1. rings' \subseteq rings
    BY <1>8 DEF EndIngest, Dropped
  <2>2. ingest' = NoIngest /\ documents' = documents /\ journal' \subseteq journal
    BY <1>0, <1>8, <2>1 DEF EndIngest
  <2> QED BY <1>5, <2>2
<1>9. Tick \/ Happen \/ UNCHANGED vars => UNCHANGED <<documents, ingest, journal>>
  BY DEF Tick, Happen, vars, storeVars
<1> QED BY <1>1, <1>2, <1>3, <1>4, <1>6, <1>7, <1>8, <1>9 DEF Next

\* How the tracker of a state and what is unseen of it move together.
NewChange(s, e) ==
  LET h == trackers[s].history
  IN  /\ e \in Transition /\ e.state = s /\ e.at = now
      /\ trackers[s].changedAt < now
      /\ trackers'[s] = [status |-> e.status, changedAt |-> now,
                         history |-> Latest(Append(h, [at |-> now, status |-> e.status]))]
      /\ unseen'[s] = unseen[s] \cup {e}

NewProgram(s) ==
  /\ trackers[s].changedAt < now
  /\ trackers'[s] = NewTracker(now)
  /\ unseen'[s] = {}

LEMMA TrackerMoves ==
  ASSUME RingsInv, [Next]_vars, NEW s \in States
  PROVE  \/ /\ trackers'[s] = trackers[s]
            /\ \/ unseen'[s] = unseen[s]
               \/ \E report \in Reports(s) : unseen'[s] = unseen[s] \ report.unseen
         \/ \E e : NewChange(s, e)
         \/ NewProgram(s)
<1>0. /\ now \in Nat /\ trackers \in [States -> TrackerType]
      /\ unseen \in [States -> SUBSET Transition]
  BY TrackersInvIs DEF RingsInv, DocumentsInv
<1>1. ASSUME NEW r \in States, NEW status \in 1..Worst, Change(r, status),
             unseen' = [unseen EXCEPT ![r] = @ \cup
                 {[state |-> r, at |-> now, status |-> Capped(r, status)]}]
      PROVE  (trackers'[s] = trackers[s] /\ unseen'[s] = unseen[s]) \/ \E e : NewChange(s, e)
  <2> DEFINE e == [state |-> s, at |-> now, status |-> Capped(s, status)]
  <2>1. CASE r = s
    <3>1. e \in Transition
      BY <1>0, CappedOK DEF Transition
    <3>2. NewChange(s, e)
      BY <1>0, <1>1, <2>1, <3>1 DEF NewChange, Change
    <3> QED BY <3>2
  <2>2. CASE r # s
    BY <1>0, <1>1, <2>2 DEF Change
  <2> QED BY <2>1, <2>2
<1>2. ASSUME NEW r \in States, ProgramRestart(r), unseen' = [unseen EXCEPT ![r] = {}]
      PROVE  (trackers'[s] = trackers[s] /\ unseen'[s] = unseen[s]) \/ NewProgram(s)
  BY <1>0, <1>2 DEF ProgramRestart, NewProgram
<1>3. ASSUME NEW r \in DOMAIN ingest.left, AppendTransitions(r)
      PROVE  /\ trackers'[s] = trackers[s]
             /\ \/ unseen'[s] = unseen[s]
                \/ \E report \in Reports(s) : unseen'[s] = unseen[s] \ report.unseen
  <2>1. trackers' = trackers /\ unseen' = [unseen EXCEPT ![r] = @ \ ingest.left[r].unseen]
    BY <1>3 DEF AppendTransitions
  <2>2. r = s => ingest.left[r] \in Reports(s)
    BY DEF Reports
  <2> QED BY <1>0, <2>1, <2>2
<1>4. [Next]_vars =>
        \/ UNCHANGED <<trackers, unseen>>
        \/ Happen
        \/ \E r \in DOMAIN ingest.left : AppendTransitions(r)
  BY DEF Next, vars, Tick, Collect, BeginIngest, EndIngest, Compact, Crash
<1> QED BY <1>1, <1>2, <1>3, <1>4 DEF Happen

\* What of a history is kept when it gets a newer entry: all, or all but the oldest.
LEMMA LatestIs ==
  ASSUME NEW h \in Seq(Entry), Len(h) <= MaxHistory, NEW e \in Entry
  PROVE  LET kept == Latest(Append(h, e))
         IN  /\ Len(h) < MaxHistory =>
                  /\ Len(kept) = Len(h) + 1 /\ kept[Len(h) + 1] = e
                  /\ \A i \in 1..Len(h) : kept[i] = h[i]
             /\ Len(h) = MaxHistory =>
                  /\ Len(kept) = MaxHistory /\ kept[MaxHistory] = e
                  /\ \A i \in 1..(MaxHistory - 1) : kept[i] = h[i + 1]
<1> DEFINE all == Append(h, e)
           kept == Latest(all)
<1>1. /\ Len(h) \in Nat
      /\ all \in Seq(Entry) /\ Len(all) = Len(h) + 1
      /\ \A i \in 1..Len(h) : all[i] = h[i]
      /\ all[Len(h) + 1] = e
  BY AppendProperties, LenProperties
<1>2. MaxHistory \in Nat \ {0}
  BY TrackersAssumption
<1> HIDE DEF all
<1>3. CASE Len(h) < MaxHistory
  <2>1. kept = all
    BY <1>1, <1>2, <1>3 DEF Latest
  <2> HIDE DEF kept
  <2> QED BY <1>1, <1>3, <2>1 DEF kept, all
<1>4. CASE Len(h) = MaxHistory
  <2>1. kept = SubSeq(all, 2, Len(all)) /\ Len(all) = MaxHistory + 1
    BY <1>1, <1>2, <1>4 DEF Latest
  <2>2. \A i \in 2..Len(all) : all[i] \in Entry
    BY <1>1, ElementOfSeq
  <2>3. /\ Len(SubSeq(all, 2, Len(all))) = IF 2 <= Len(all) THEN Len(all) - 2 + 1 ELSE 0
        /\ \A i \in 1..(Len(all) - 2 + 1) : SubSeq(all, 2, Len(all))[i] = all[2 + i - 1]
    BY <1>1, <2>2, SubSeqProperties
  <2> HIDE DEF kept
  <2>4. Len(kept) = MaxHistory /\ \A i \in 1..MaxHistory : kept[i] = all[i + 1]
    BY <1>2, <2>1, <2>3
  <2>5. kept[MaxHistory] = e /\ \A i \in 1..(MaxHistory - 1) : kept[i] = h[i + 1]
    BY <1>1, <1>2, <1>4, <2>4
  <2> QED BY <1>4, <2>4, <2>5 DEF kept, all
<1> QED BY <1>1, <1>2, <1>3, <1>4 DEF kept, all

\* A change of a state makes its history tell of it, and perhaps no longer of
\* the oldest, which a full history gives up.
LEMMA ChangeIsTold ==
  ASSUME RingsInv, NEW s \in States, KnownOK(s), Ascending(trackers[s].history),
         NEW e, NewChange(s, e)
  PROVE  /\ e \in Told(s)' /\ Current(s)' = e
         /\ Told(s)' \subseteq Told(s) \cup {e}
         /\ \A t \in Told(s) \ Told(s)' :
              Len(trackers'[s].history) = MaxHistory /\ \A u \in Told(s)' : t.at < u.at
         /\ Len(trackers[s].history) = MaxHistory => Len(trackers'[s].history) = MaxHistory
         /\ Ascending(trackers[s].history)'
<1> DEFINE h == trackers[s].history
           entry == [at |-> now, status |-> e.status]
           kept == Latest(Append(h, entry))
           T(x) == [state |-> s, at |-> x.at, status |-> x.status]
<1>1. /\ trackers \in [States -> TrackerType] /\ TrackerOK(s, trackers[s])
      /\ trackers[s].changedAt <= now /\ now \in Nat
  BY TrackersInvIs DEF RingsInv
<1>2. h \in Seq(Entry) /\ Len(h) \in Nat /\ Len(h) <= MaxHistory
  BY <1>1, LenProperties DEF TrackerOK, TrackerType
<1>3. e = [state |-> s, at |-> now, status |-> e.status] /\ e.status \in 1..Worst
  BY DEF NewChange, Transition
<1>4. entry \in Entry /\ T(entry) = e
  BY <1>1, <1>3 DEF Entry
<1>5. /\ trackers'[s].history = kept /\ Current(s)' = e
  BY <1>3 DEF NewChange, Current
<1>6. \A i \in 1..Len(h) : h[i] \in Entry /\ h[i].at \in Nat /\ h[i].at < now
  <2>1. ASSUME NEW i \in 1..Len(h) PROVE h[i] \in Entry /\ h[i].at \in Nat /\ h[i].at < now
    <3>0. h[i] \in Entry
      BY <1>2, ElementOfSeq
    <3>1. h[i] \in Entry /\ h[i].at \in Nat
      BY <3>0 DEF Entry
    <3>2. T(h[i]) \in Known(s)
      BY DEF Known, Told
    <3>3. h[i].at <= trackers[s].changedAt /\ trackers[s].changedAt < now /\ trackers[s].changedAt \in Nat
      BY <1>1, <3>2 DEF KnownOK, NewChange, TrackerType
    <3> QED BY <1>1, <3>1, <3>3
  <2> QED BY <2>1
<1>7. Told(s) = {T(h[i]) : i \in 1..Len(h)} /\ Told(s)' = {T(kept[i]) : i \in 1..Len(kept)}
  BY <1>5, Zenon DEF Told
<1>8. \A i, j \in 1..Len(h) : i < j => h[i].at < h[j].at
  BY DEF Ascending
<1>9. MaxHistory \in Nat \ {0}
  BY TrackersAssumption
<1> HIDE DEF h
<1>10. /\ Len(h) < MaxHistory =>
                  /\ Len(kept) = Len(h) + 1 /\ kept[Len(h) + 1] = entry
                  /\ \A i \in 1..Len(h) : kept[i] = h[i]
       /\ Len(h) = MaxHistory =>
                  /\ Len(kept) = MaxHistory /\ kept[MaxHistory] = entry
                  /\ \A i \in 1..(MaxHistory - 1) : kept[i] = h[i + 1]
  BY <1>2, <1>4, LatestIs
<1>11. now = entry.at
  OBVIOUS
<1> HIDE DEF kept, entry
<1>12. CASE Len(h) < MaxHistory
  <2>1. 1..Len(kept) = 1..Len(h) \cup {Len(h) + 1}
    BY <1>2, <1>10, <1>12
  <2>2. Told(s)' = Told(s) \cup {e}
    BY <1>4, <1>7, <1>10, <1>12, <2>1
  <2>3. \A i, j \in 1..Len(kept) : i < j => kept[i].at < kept[j].at
    BY <1>2, <1>6, <1>8, <1>10, <1>11, <1>12, <2>1
  <2> QED BY <1>5, <1>12, <1>2, <1>9, <2>2, <2>3 DEF Ascending, h
<1>13. CASE Len(h) = MaxHistory
  <2>1. /\ \A i \in 1..Len(kept) : kept[i] = IF i = MaxHistory THEN entry ELSE h[i + 1]
        /\ \A i \in 1..Len(kept) : i # MaxHistory => i + 1 \in 1..Len(h)
        /\ Len(kept) = MaxHistory /\ MaxHistory \in 1..Len(kept)
    BY <1>9, <1>10, <1>13
  <2>2. e \in Told(s)'
    BY <1>4, <1>7, <2>1
  <2>3. Told(s)' \subseteq Told(s) \cup {e}
    <3>1. ASSUME NEW i \in 1..Len(kept) PROVE T(kept[i]) \in Told(s) \cup {e}
      BY <1>4, <1>7, <2>1
    <3> QED BY <1>7, <3>1
  <2>4. \A i, j \in 1..Len(kept) : i < j => kept[i].at < kept[j].at
    <3>1. ASSUME NEW i \in 1..Len(kept), NEW j \in 1..Len(kept), i < j PROVE kept[i].at < kept[j].at
      <4>1. i # MaxHistory /\ kept[i] = h[i + 1] /\ i + 1 \in 1..Len(h)
        BY <1>9, <2>1, <3>1
      <4>2. CASE j = MaxHistory
        BY <1>6, <1>11, <2>1, <4>1, <4>2
      <4>3. CASE j # MaxHistory
        <5>1. kept[j] = h[j + 1] /\ j + 1 \in 1..Len(h) /\ i + 1 < j + 1
          BY <2>1, <3>1, <4>3, <1>9
        <5> QED BY <1>8, <4>1, <5>1
      <4> QED BY <4>2, <4>3
    <3> QED BY <3>1
  <2>5. ASSUME NEW t \in Told(s) \ Told(s)', NEW u \in Told(s)' PROVE t.at < u.at
    <3>1. PICK i \in 1..Len(h) : t = T(h[i])
      BY <1>7, <2>5
    <3>2. i = 1
      <4>1. SUFFICES ASSUME i # 1 PROVE FALSE
        OBVIOUS
      <4>2. i - 1 \in 1..Len(kept) /\ i - 1 # MaxHistory /\ kept[i - 1] = h[(i - 1) + 1]
        BY <1>9, <1>13, <2>1, <4>1
      <4>3. kept[i - 1] = h[i]
        BY <4>2
      <4>4. T(kept[i - 1]) \in Told(s)'
        BY <1>7, <4>2
      <4>5. t = T(kept[i - 1])
        BY <3>1, <4>3
      <4> QED BY <2>5, <4>4, <4>5
    <3>3. PICK j \in 1..Len(kept) : u = T(kept[j])
      BY <1>7, <2>5
    <3>4. t.at = h[1].at /\ u.at = kept[j].at
      BY <3>1, <3>2, <3>3
    <3>5. CASE j = MaxHistory
      <4>1. u.at = now
        BY <1>11, <2>1, <3>4, <3>5
      <4> QED BY <1>6, <3>1, <3>2, <3>4, <4>1
    <3>6. CASE j # MaxHistory
      <4>1. kept[j] = h[j + 1] /\ j + 1 \in 1..Len(h) /\ 1 < j + 1 /\ 1 \in 1..Len(h)
        BY <1>9, <1>13, <2>1, <3>6
      <4> QED BY <1>8, <3>4, <4>1
    <3> QED BY <3>5, <3>6
  <2> QED BY <1>5, <2>1, <2>2, <2>3, <2>4, <2>5 DEF Ascending
<1> QED BY <1>2, <1>9, <1>12, <1>13

\* Nothing becomes known of a state but what its tracker now tells of.
LEMMA KnownMoves ==
  ASSUME RingsInv, [Next]_vars, NEW s \in States
  PROVE  Known(s)' \subseteq Known(s) \cup Told(s)' \cup {Current(s)'} \cup unseen'[s]
<1>1. /\ Reports(s)' \subseteq Reports(s) \cup {Report(s)}
      /\ Ring(s, journal)' \subseteq
           Ring(s, journal) \cup UNION {report.transitions : report \in Reports(s)}
  BY ReportsMove
<1>2. Report(s) = [transitions |-> Told(s) \cup {Current(s)}, unseen |-> unseen[s]]
  BY ReportIs, TrackersInvIs DEF RingsInv
<1>3. Report(s).transitions \cup Report(s).unseen \subseteq Known(s)
  BY <1>2 DEF Known
<1>4. \A report \in Reports(s) : report.transitions \cup report.unseen \subseteq Known(s)
  BY DEF Known
<1>5. Ring(s, journal)' \subseteq Known(s)
  BY <1>1, <1>4 DEF Known
<1>6. UNION {report.transitions \cup report.unseen : report \in Reports(s)'} \subseteq Known(s)
  BY <1>1, <1>3, <1>4
<1>7. Known(s)' = Told(s)' \cup {Current(s)'} \cup unseen'[s] \cup Ring(s, journal)'
                    \cup UNION {report.transitions \cup report.unseen : report \in Reports(s)'}
  BY DEF Known
<1> QED BY <1>5, <1>6, <1>7

\* What is known stays told apart by its time when one thing newer becomes known.
LEMMA OneNewer ==
  ASSUME NEW s \in States, KnownOK(s), trackers[s].changedAt \in Nat,
         trackers'[s].changedAt \in Nat, trackers[s].changedAt < trackers'[s].changedAt,
         NEW e \in Transition, e.state = s, e.at = trackers'[s].changedAt,
         Known(s)' \subseteq Known(s) \cup {e}
  PROVE  KnownOK(s)'
<1>1. \A t \in Known(s)' : t \in Known(s) \/ t = e
  OBVIOUS
<1>2. \A t \in Known(s) : /\ t \in Transition /\ t.state = s
                          /\ t.at \in Nat /\ t.at <= trackers[s].changedAt
  BY DEF KnownOK, Transition
<1>3. \A t \in Known(s)' : t \in Transition /\ t.state = s /\ t.at <= trackers'[s].changedAt
  BY <1>1, <1>2
<1>4. ASSUME NEW t \in Known(s)', NEW u \in Known(s)', t.at = u.at PROVE t = u
  <2>1. CASE t \in Known(s) /\ u \in Known(s)
    BY <1>4, <2>1 DEF KnownOK
  <2>2. CASE t = e /\ u \in Known(s)
    BY <1>2, <1>4, <2>2
  <2>3. CASE u = e /\ t \in Known(s)
    BY <1>2, <1>4, <2>3
  <2> QED BY <1>1, <2>1, <2>2, <2>3
<1> QED BY <1>3, <1>4 DEF KnownOK

\* A document's promise is kept while nothing older becomes unseen.
LEMMA PromiseKept ==
  ASSUME NEW s \in States, NEW report, PromiseOK(s, report),
         \A u \in unseen'[s] : u \in unseen[s] \/ \A r \in report.unseen : ~ (u.at < r.at)
  PROVE  PromiseOK(s, report)'
BY DEF PromiseOK

LEMMA StateArrivesStep ==
  ASSUME RingsInv, [Next]_vars, NEW s \in States, StateArrives(s)
  PROVE  StateArrives(s)'
<1> USE DEF StateArrives
<1>1. /\ trackers \in [States -> TrackerType] /\ trackers[s].changedAt \in Nat /\ now \in Nat
      /\ unseen[s] \subseteq Transition
  BY TrackersInvIs DEF RingsInv, DocumentsInv, TrackerType
<1>2. Known(s)' \subseteq Known(s) \cup Told(s)' \cup {Current(s)'} \cup unseen'[s]
  BY KnownMoves
<1>3. \A report \in Reports(s)' : PromiseOK(s, report) /\ report.unseen \subseteq Known(s)
  <2>1. Reports(s)' \subseteq Reports(s) \cup {Report(s)}
    BY ReportsMove
  <2>2. PromiseOK(s, Report(s))
    BY <1>1, ReportPromises
  <2>3. \A report \in Reports(s) : report.unseen \subseteq Known(s)
    BY DEF Known
  <2>4. Report(s).unseen \subseteq Known(s)
    BY DEF Report, Known
  <2> QED BY <2>1, <2>2, <2>3, <2>4
<1>4. CASE /\ trackers'[s] = trackers[s]
           /\ \/ unseen'[s] = unseen[s]
              \/ \E report \in Reports(s) : unseen'[s] = unseen[s] \ report.unseen
  <2>1. Told(s)' = Told(s) /\ Current(s)' = Current(s) /\ unseen'[s] \in SUBSET unseen[s]
    BY <1>4 DEF Told, Current
  <2>2. Known(s)' \subseteq Known(s)
    BY <1>2, <2>1 DEF Known
  <2>3. KnownOK(s)' /\ Ascending(trackers[s].history)'
    BY <1>4, <2>2 DEF KnownOK, Ascending
  <2>4. IsFiniteSet(unseen'[s])
    BY <2>1, FS_Subset DEF UnseenOK
  <2>5. ASSUME NEW u \in unseen'[s], NEW t \in Told(s), t.at > u.at PROVE t \in unseen'[s]
    <3>1. u \in unseen[s] /\ t \in unseen[s]
      BY <2>1, <2>5 DEF UnseenOK
    <3>2. CASE unseen'[s] = unseen[s]
      BY <3>1, <3>2
    <3>3. ASSUME NEW report \in Reports(s), unseen'[s] = unseen[s] \ report.unseen
          PROVE  t \in unseen'[s]
      <4>1. t \in report.unseen => u \in report.unseen
        <5>1. u.at \in Nat /\ t.at \in Nat
          BY <1>1, <3>1 DEF Transition
        <5> QED BY <2>5, <3>1, <5>1 DEF PromiseOK
      <4> QED BY <3>1, <3>3, <4>1
    <3> QED BY <1>4, <3>2, <3>3
  <2>6. UnseenOK(s)'
    BY <1>4, <2>1, <2>4, <2>5 DEF UnseenOK
  <2>7. \A report \in Reports(s)' : PromiseOK(s, report)'
    BY <1>3, <2>1, PromiseKept
  <2> QED BY <2>3, <2>6, <2>7
<1>5. ASSUME NEW e, NewChange(s, e) PROVE StateArrives(s)'
  <2>1. /\ e \in Told(s)' /\ Current(s)' = e
        /\ Told(s)' \subseteq Told(s) \cup {e}
        /\ \A t \in Told(s) \ Told(s)' :
              Len(trackers'[s].history) = MaxHistory /\ \A u \in Told(s)' : t.at < u.at
        /\ Len(trackers[s].history) = MaxHistory => Len(trackers'[s].history) = MaxHistory
        /\ Ascending(trackers[s].history)'
    BY <1>5, ChangeIsTold
  <2>2. /\ e \in Transition /\ e.state = s /\ e.at = now /\ trackers'[s].changedAt = now
        /\ trackers[s].changedAt < now /\ unseen'[s] = unseen[s] \cup {e}
    BY <1>5 DEF NewChange
  <2>3. Known(s)' \subseteq Known(s) \cup {e}
    BY <1>2, <2>1, <2>2 DEF Known
  <2>4. KnownOK(s)'
    BY <1>1, <2>2, <2>3, OneNewer
  <2>5. \A t \in Known(s) : t.at \in Nat /\ t.at < e.at
    BY <1>1, <2>2 DEF KnownOK, Transition
  <2>6. Told(s) \subseteq Known(s) /\ unseen[s] \subseteq Known(s)
    BY DEF Known
  <2>7. UnseenOK(s)'
    <3>1. IsFiniteSet(unseen'[s])
      BY <2>2, FS_AddElement DEF UnseenOK
    <3>2. ASSUME NEW u \in unseen'[s], NEW t \in Told(s)', t.at > u.at PROVE t \in unseen'[s]
      <4>1. CASE t = e
        BY <2>2, <4>1
      <4>2. CASE t # e
        <5>1. t \in Told(s)
          BY <2>1, <4>2
        <5>2. u # e
          <6>1. t.at < e.at /\ t.at \in Nat /\ e.at \in Nat
            BY <1>1, <2>2, <2>5, <2>6, <5>1
          <6> QED BY <3>2, <6>1
        <5>3. u \in unseen[s]
          BY <2>2, <5>2
        <5> QED BY <2>2, <3>2, <5>1, <5>3 DEF UnseenOK
      <4> QED BY <4>1, <4>2
    <3>3. ASSUME NEW u \in unseen'[s], u \notin Told(s)'
          PROVE  Len(trackers'[s].history) = MaxHistory /\ \A t \in Told(s)' : t.at > u.at
      <4>1. u # e /\ u \in unseen[s] /\ u.at < e.at /\ u.at \in Nat /\ e.at \in Nat
        BY <1>1, <2>1, <2>2, <2>5, <2>6, <3>3
      <4>2. CASE u \in Told(s)
        <5>1. Len(trackers'[s].history) = MaxHistory /\ \A t \in Told(s)' : u.at < t.at
          BY <2>1, <3>3, <4>2
        <5> QED BY <5>1
      <4>3. CASE u \notin Told(s)
        <5>1. Len(trackers[s].history) = MaxHistory /\ \A t \in Told(s) : t.at > u.at
          BY <4>1, <4>3 DEF UnseenOK
        <5>2. e.at > u.at
          BY <4>1
        <5> QED BY <2>1, <5>1, <5>2
      <4> QED BY <4>2, <4>3
    <3> QED BY <3>1, <3>2, <3>3 DEF UnseenOK
  <2>8. ASSUME NEW report \in Reports(s)' PROVE PromiseOK(s, report)'
    <3>1. \A r \in report.unseen : ~ (e.at < r.at)
      <4>1. ASSUME NEW r \in report.unseen PROVE ~ (e.at < r.at)
        <5>1. r.at \in Nat /\ r.at < e.at /\ e.at \in Nat
          BY <1>1, <1>3, <2>2, <2>5, <2>8
        <5> QED BY <5>1
      <4> QED BY <4>1
    <3> QED BY <1>3, <2>2, <3>1, PromiseKept
  <2> QED BY <2>1, <2>4, <2>7, <2>8
<1>6. CASE NewProgram(s)
  <2>1. /\ trackers'[s] = NewTracker(now) /\ trackers'[s].changedAt = now
        /\ trackers'[s].status = 1 /\ trackers'[s].history = <<>>
        /\ trackers[s].changedAt < now /\ unseen'[s] = {}
    BY <1>6 DEF NewProgram, NewTracker
  <2>2. Len(trackers'[s].history) = 0
    BY <2>1, EmptySeq
  <2>3. Told(s)' = {} /\ Ascending(trackers[s].history)'
    BY <2>2 DEF Told, Ascending
  <2> DEFINE e == [state |-> s, at |-> now, status |-> 1]
  <2>4. e \in Transition /\ e.state = s /\ e.at = now /\ Current(s)' = e
    BY <1>1, <2>1, TrackersAssumption DEF Transition, Current
  <2> HIDE DEF e
  <2>5. Known(s)' \subseteq Known(s) \cup {e}
    BY <1>2, <2>1, <2>3, <2>4
  <2>6. KnownOK(s)'
    BY <1>1, <2>1, <2>4, <2>5, OneNewer
  <2>7. UnseenOK(s)'
    BY <2>1, FS_EmptySet DEF UnseenOK
  <2>8. \A report \in Reports(s)' : PromiseOK(s, report)'
    BY <1>3, <2>1, PromiseKept
  <2> QED BY <2>3, <2>6, <2>7, <2>8
<1> QED BY <1>4, <1>5, <1>6, TrackerMoves

\* A trim leaves in a ring all of it that the ring must have.
LEMMA TrimKeepsDue ==
  ASSUME NEW s \in States, KnownOK(s), NEW ring, IsFiniteSet(ring), ring \subseteq Known(s),
         NEW ts \in SUBSET ring, NEW trimmed \in Trimmed(ring)
  PROVE  NewestOf(ts, ring) \subseteq trimmed
<1>1. /\ \A t \in ring : t.at \in Nat
      /\ \A t, u \in ring : t.at = u.at => t = u
  BY DEF KnownOK, Transition
<1>2. ASSUME NEW t \in NewestOf(ts, ring) PROVE t \in trimmed
  <2>1. t \in ring /\ ts \cup ring = ring
    BY DEF NewestOf
  <2>2. Cardinality({u \in ring : u.at > t.at}) < RingCap
    BY <2>1 DEF NewestOf
  <2> QED BY <1>1, <2>1, <2>2, TrimKeepsNewest
<1> QED BY <1>2

LEMMA AppendKeepsDue ==
  ASSUME ArrivalInv, NEW s \in DOMAIN ingest.left, AppendTransitions(s)
  PROVE  DueOK'
<1> DEFINE report == ingest.left[s]
           added  == report.transitions \ rings
           old    == Ring(s, rings)
           ring   == old \cup added
           others == rings \ old
           ts     == due[s] \cup report.transitions \cup Promised(report.unseen)
<1>1. /\ s \in States /\ IsFiniteSet(report.transitions)
      /\ \A t \in report.transitions : t.state = s
  BY DEF ArrivalInv, RingsInv, DocumentsInv, DocumentOK, ReportOK
<1>2. /\ IsFiniteSet(rings) /\ total = Cardinality(rings) /\ rings \subseteq journal
      /\ due \in [States -> SUBSET Transition]
  BY DEF ArrivalInv, RingsInv, StoreInv, Bounded, RingsAreJournaled
<1>3. StateArrives(s) /\ report \in Reports(s)
  BY <1>1 DEF ArrivalInv, Reports
<1>4. KnownOK(s) /\ Promised(report.unseen) \subseteq report.transitions
  BY <1>3 DEF StateArrives, PromiseOK
<1>5. \A t \in due[s] : t \in old
  BY <1>1 DEF ArrivalInv, DueOK, Ring
<1>6. ts \subseteq ring
  <2>1. report.transitions \subseteq ring
    BY <1>1 DEF Ring
  <2> QED BY <1>4, <1>5, <2>1
<1>7. ring \subseteq Known(s)
  <2>1. old \subseteq Ring(s, journal)
    BY <1>2 DEF Ring
  <2>2. added \subseteq Known(s)
    BY <1>3 DEF Known
  <2> QED BY <2>1, <2>2 DEF Known
<1>8. old \in SUBSET rings /\ added \in SUBSET report.transitions /\ others \in SUBSET rings
  BY DEF Ring
<1>9. PICK trimmed \in Trimmed(ring) :
        LET count  == total + Cardinality(added) - (Cardinality(ring) - Cardinality(trimmed))
            excess == Excess(count, Backstop)
        IN  /\ rings' \in WithoutOldest(others \cup trimmed, excess)
            /\ due' = IF excess > 0 THEN [r \in States |-> {}]
                      ELSE [due EXCEPT ![s] = NewestOf(ts, ring)]
  BY DEF AppendTransitions
<1> DEFINE count  == total + Cardinality(added) - (Cardinality(ring) - Cardinality(trimmed))
           excess == Excess(count, Backstop)
<1>10. IsFiniteSet(old) /\ IsFiniteSet(added) /\ IsFiniteSet(others)
  BY <1>1, <1>2, <1>8, FS_Subset
<1>11. IsFiniteSet(ring)
  BY <1>10, FS_Union
<1> HIDE DEF ring
<1>12. trimmed \subseteq ring /\ IsFiniteSet(trimmed) /\ Cardinality(trimmed) \in Nat /\ Cardinality(ring) \in Nat
  BY <1>9, <1>11, TrimmedFits
<1> HIDE DEF ts, added, others
<1>13. CASE excess > 0
  <2>1. due' = [r \in States |-> {}]
    BY <1>9, <1>13
  <2> QED BY <2>1 DEF DueOK
<1>14. CASE ~ (excess > 0)
  <2>1. total \in Nat /\ Cardinality(added) \in Nat /\ Backstop \in Nat
    BY <1>2, <1>10, FS_CardinalityType, RingsAssumption
  <2>2. excess = 0
    <3>1. count \in Int
      BY <1>12, <2>1
    <3> HIDE DEF count
    <3> QED BY <1>14, <2>1, <3>1 DEF Excess
  <2>3. rings' \in WithoutOldest(others \cup trimmed, 0) /\ due' = [due EXCEPT ![s] = NewestOf(ts, ring)]
    BY <1>9, <1>14, <2>2
  <2>4. IsFiniteSet(others \cup trimmed)
    BY <1>10, <1>12, FS_Union
  <2>5. rings' = others \cup trimmed
    BY <2>3, <2>4, NoneIsOldest
  <2>6. NewestOf(ts, ring) \subseteq trimmed
    BY <1>1, <1>4, <1>6, <1>7, <1>9, <1>11, TrimKeepsDue
  <2>7. ASSUME NEW r \in States, NEW t \in due'[r] PROVE t \in rings' /\ t.state = r
    <3>1. CASE r = s
      <4>1. t \in trimmed
        BY <1>2, <2>3, <2>6, <2>7, <3>1
      <4>2. t \in Known(s)
        BY <1>7, <1>12, <4>1
      <4> QED BY <1>4, <2>5, <3>1, <4>1, <4>2 DEF KnownOK
    <3>2. CASE r # s
      <4>1. t \in due[r]
        BY <1>2, <2>3, <2>7, <3>2
      <4>2. t \in rings /\ t.state = r
        BY <4>1 DEF ArrivalInv, DueOK
      <4> QED BY <2>5, <3>2, <4>2 DEF others, Ring
    <3> QED BY <3>1, <3>2
  <2> QED BY <2>7 DEF DueOK
<1> QED BY <1>13, <1>14

LEMMA DroppedKeepsDue ==
  ASSUME DueOK, NEW gone, Dropped(gone)
  PROVE  DueOK'
BY DEF DueOK, Dropped

LEMMA CrashKeepsDue ==
  ASSUME ArrivalInv, Crash
  PROVE  DueOK'
<1>1. PICK replayed \in SUBSET journal :
        /\ \A s \in States :
             IF Expired(s) THEN Ring(s, replayed) = {}
             ELSE Ring(s, replayed) \in Trimmed(Ring(s, journal))
        /\ rings' \in WithoutOldest(replayed, Excess(Cardinality(replayed), Backstop))
        /\ due' = [s \in States |->
                    IF Excess(Cardinality(replayed), Backstop) > 0
                       \/ \A t \in due[s] : t.at + Retention < now
                    THEN {} ELSE NewestOf(due[s], Ring(s, journal))]
  BY DEF Crash
<1> DEFINE excess == Excess(Cardinality(replayed), Backstop)
<1>2. journal \subseteq Transition /\ IsFiniteSet(journal) /\ rings \subseteq journal
  BY DEF ArrivalInv, RingsInv, StoreInv, RingsAreJournaled
<1>3. IsFiniteSet(replayed) /\ Cardinality(replayed) \in Nat /\ Backstop \in Nat
  BY <1>2, FS_Subset, FS_CardinalityType, RingsAssumption
<1>4. ASSUME NEW s \in States, NEW t \in due'[s] PROVE t \in rings' /\ t.state = s
  <2>1. ~ (excess > 0) /\ ~ (\A u \in due[s] : u.at + Retention < now)
    BY <1>1, <1>4
  <2>2. t \in NewestOf(due[s], Ring(s, journal))
    BY <1>1, <1>4, <2>1
  <2>3. excess = 0
    BY <1>3, <2>1 DEF Excess
  <2>4. rings' = replayed
    BY <1>1, <1>3, <2>3, NoneIsOldest
  <2>5. due[s] \in SUBSET Ring(s, journal)
    BY <1>2 DEF ArrivalInv, DueOK, Ring
  <2>6. ~ Expired(s)
    BY <2>1, <2>5 DEF Expired
  <2>7. Ring(s, replayed) \in Trimmed(Ring(s, journal))
    BY <1>1, <2>6
  <2>8. Ring(s, journal) \in SUBSET journal /\ Ring(s, journal) \subseteq Known(s)
    BY DEF Ring, Known
  <2>9. IsFiniteSet(Ring(s, journal)) /\ KnownOK(s)
    BY <1>2, <2>8, FS_Subset DEF ArrivalInv, StateArrives
  <2>10. NewestOf(due[s], Ring(s, journal)) \subseteq Ring(s, replayed)
    BY <2>5, <2>7, <2>8, <2>9, TrimKeepsDue
  <2> QED BY <2>2, <2>4, <2>10 DEF Ring
<1> QED BY <1>4 DEF DueOK

LEMMA DueStep == ArrivalInv /\ [Next]_vars => DueOK'
<1> SUFFICES ASSUME ArrivalInv, [Next]_vars PROVE DueOK'
  OBVIOUS
<1>1. DueOK
  BY DEF ArrivalInv
<1>2. CASE UNCHANGED <<rings, due>>
  BY <1>1, <1>2 DEF DueOK
<1>3. ASSUME NEW doc \in documents, NEW gone \in SUBSET States, BeginIngest(doc, gone)
      PROVE  DueOK'
  BY <1>1, <1>3, DroppedKeepsDue DEF BeginIngest
<1>4. ASSUME NEW evicted \in SUBSET States, EndIngest(evicted)
      PROVE  DueOK'
  BY <1>1, <1>4, DroppedKeepsDue DEF EndIngest
<1>5. Tick \/ Happen \/ (\E reported \in SUBSET States : Collect(reported)) \/ Compact \/ UNCHANGED vars
        => UNCHANGED <<rings, due>>
  BY DEF Tick, Happen, Collect, Compact, vars, storeVars
<1> QED BY <1>2, <1>3, <1>4, <1>5, AppendKeepsDue, CrashKeepsDue DEF Next

LEMMA ArrivalInitially == Init => ArrivalInv
<1> SUFFICES ASSUME Init PROVE ArrivalInv
  OBVIOUS
<1>1. RingsInv
  BY RingsInitially
<1>2. DueOK
  BY DEF Init, DueOK
<1>3. ASSUME NEW s \in States PROVE StateArrives(s)
  <2>1. trackers[s] = NewTracker(now) /\ now = 0 /\ journal = {} /\ unseen[s] = {}
    BY DEF Init, ClockInit, TrackersInit
  <2>2. /\ trackers[s].history = <<>> /\ trackers[s].changedAt = 0 /\ trackers[s].status = 1
        /\ Len(trackers[s].history) = 0
    BY <2>1, EmptySeq DEF NewTracker
  <2>3. Told(s) = {} /\ Ascending(trackers[s].history)
    BY <2>2 DEF Told, Ascending
  <2>4. Reports(s) = {}
    BY DEF Init, NoIngest, NoDocument, Reports
  <2>5. Known(s) = {Current(s)}
    BY <2>1, <2>3, <2>4 DEF Known, Ring
  <2>6. Current(s) = [state |-> s, at |-> 0, status |-> 1]
    BY <2>2 DEF Current
  <2>7. KnownOK(s)
    BY <2>2, <2>5, <2>6, TrackersAssumption DEF KnownOK, Transition
  <2>8. UnseenOK(s)
    BY <2>1, FS_EmptySet DEF UnseenOK
  <2> QED BY <2>3, <2>4, <2>7, <2>8 DEF StateArrives
<1> QED BY <1>1, <1>2, <1>3 DEF ArrivalInv

\* The strengthening that is inductive.
THEOREM ArrivalInvariant == Spec => []ArrivalInv
<1>1. ArrivalInv /\ [Next]_vars => ArrivalInv'
  <2> SUFFICES ASSUME ArrivalInv, [Next]_vars PROVE ArrivalInv'
    OBVIOUS
  <2>1. RingsInv' /\ DueOK'
    BY TrackersStep, StoreStep, DocumentsStep, DueStep DEF ArrivalInv, RingsInv
  <2>2. \A s \in States : StateArrives(s)'
    BY StateArrivesStep DEF ArrivalInv
  <2> QED BY <2>1, <2>2 DEF ArrivalInv
<1> QED BY <1>1, ArrivalInitially, PTL DEF Spec

\* No change is missing in a state's ring, for any states, caps, history length
\* and retention: what a document must tell of it tells of, and a ring that is
\* trimmed, replayed or added to in any order gives up only what newer changes
\* push out (storage.go:663-723, state_tracker.go:39-108).
THEOREM NoTransitionEverMissed == Spec => []NoTransitionMissed
<1>1. ArrivalInv => NoTransitionMissed
  BY DEF ArrivalInv, DueOK, NoTransitionMissed
<1> QED BY <1>1, ArrivalInvariant, PTL

\* A state's changes are in its history in order, and get from there into its
\* ring (state_tracker.go:39-108, storage.go:663-723).
THEOREM TransitionsAlwaysArrive == Spec => []TransitionsArrive
BY HistoryAlwaysAgrees, NoTransitionEverMissed, PTL DEF TransitionsArrive
=============================================================================
