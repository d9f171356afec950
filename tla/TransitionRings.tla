--------------------------- MODULE TransitionRings ---------------------------
(****************************************************************************)
(* The history of the store (storage/storage.go): for every state a ring of *)
(* its transitions, fed by every document stored, capped each and all       *)
(* together, journaled (storage/journal.go), and replayed after a crash.    *)
(*                                                                          *)
(* A ring is ordered by time and a state's transitions differ in time, so   *)
(* the rings together are a set of transitions; a ring that does not exist  *)
(* and an empty one are the same.  The journal is the set of its lines:     *)
(* replay keeps the newest of each ring whatever their order.  Which states *)
(* an ingest takes away, because their document no longer reports them or   *)
(* has gone silent, is the subject of CurrentLayers and free here.          *)
(****************************************************************************)
EXTENDS StateTrackers, FiniteSets

CONSTANTS
  RingCap,         \* transitionCap
  Backstop,        \* transitionBackstop
  Retention,       \* Journal.retention
  MaxDocuments,    \* bound: documents under way at a time
  CompactionDue    \* what needsCompaction may answer

ASSUME RingsAssumption ==
  /\ RingCap \in Nat \ {0} /\ Backstop \in Nat \ {0}
  /\ Retention \in Nat
  /\ MaxDocuments \in Nat
  /\ CompactionDue \subseteq BOOLEAN /\ CompactionDue # {}

VARIABLES
  documents,   \* documents collected and not yet stored, or stored and sent again
  rings,       \* timelines: transitions, each with its state
  total,       \* transitionTotal
  journal,     \* the transitions of the journal's lines
  ingest,      \* the ingest that holds the lock, or NoIngest
  unseen,      \* history: the changes of a state no stored document was collected after
  due          \* history: of a state, the newest changes that its ring must have

storeVars == <<rings, total, journal>>
vars == <<now, trackers, documents, storeVars, ingest, unseen, due>>

Transition == [state : States, at : Nat, status : 1..Worst]

Ring(s, ts) == {t \in ts : t.state = s}

\* A document: of each state it reports its transitions, and (history) its
\* changes since the last document stored.
Report(s) ==
  [transitions |-> {[state |-> s, at |-> e.at, status |-> e.status] : e \in Transitions(s)},
   unseen      |-> unseen[s]]

NoDocument == [s \in {} |-> {}]

NoIngest == [left |-> NoDocument, reported |-> {}, active |-> FALSE]

\* What may be left when the n oldest are dropped, ties in any order.
WithoutOldest(ts, n) ==
  {kept \in SUBSET ts :
     /\ Cardinality(kept) = IF n < Cardinality(ts) THEN Cardinality(ts) - n ELSE 0
     /\ \A t \in ts \ kept, k \in kept : t.at <= k.at}

Excess(count, cap) == IF count > cap THEN count - cap ELSE 0

\* Those of ts that newer ones, of ts or of a ring's, do not push out of the ring.
NewestOf(ts, ring) ==
  {t \in ts : Cardinality({u \in ts \cup ring : u.at > t.at}) < RingCap}

\* Of changes since the last document stored, those a history can tell of.
Promised(changes) == IF Cardinality(changes) <= MaxHistory THEN changes ELSE {}

\* transitionRing.add, of all of a ring's transitions, old and new: what may
\* be left of them (one thing, since they differ in time).
Trimmed(ring) == WithoutOldest(ring, Excess(Cardinality(ring), RingCap))

-----------------------------------------------------------------------------
(* The programs, and their documents on the way.                            *)

Init ==
  /\ ClockInit /\ TrackersInit
  /\ documents = {}
  /\ rings = {} /\ total = 0 /\ journal = {}
  /\ ingest = NoIngest
  /\ unseen = [s \in States |-> {}]
  /\ due = [s \in States |-> {}]

Tick == Advance /\ UNCHANGED <<trackers, documents, storeVars, ingest, unseen, due>>

Happen ==
  /\ \E s \in States :
       \/ \E status \in 1..Worst :
            /\ Change(s, status)
            /\ unseen' = [unseen EXCEPT ![s] = @ \cup
                 {[state |-> s, at |-> now, status |-> Capped(s, status)]}]
       \/ ProgramRestart(s) /\ unseen' = [unseen EXCEPT ![s] = {}]
  /\ UNCHANGED <<now, documents, storeVars, ingest, due>>

\* A scraper collects a document of some of the states.
Collect(reported) ==
  /\ Cardinality(documents) < MaxDocuments
  /\ documents' = documents \cup {[s \in reported |-> Report(s)]}
  /\ UNCHANGED <<now, trackers, storeVars, ingest, unseen, due>>

-----------------------------------------------------------------------------
(* IngestDocument, as far as rings go, one journal line at a time: a crash  *)
(* may come between any two.                                                *)

\* Mutant: the count of all transitions is left as it was.
Dropped_NotCounted(gone) ==
  /\ rings' = {t \in rings : t.state \notin gone}
  /\ total' = total
  /\ due' = [s \in States |-> IF s \in gone THEN {} ELSE due[s]]

\* dropIdentity, for each of gone; nothing is written to the journal.
Dropped(gone) ==
  /\ rings' = {t \in rings : t.state \notin gone}
  /\ total' = total - Cardinality({t \in rings : t.state \in gone})
  /\ due' = [s \in States |-> IF s \in gone THEN {} ELSE due[s]]

\* A document comes, perhaps late, perhaps to come again.
BeginIngest(doc, gone) ==
  /\ ~ ingest.active
  /\ gone \cap DOMAIN doc = {}
  /\ documents' \in {documents, documents \ {doc}}
  /\ Dropped(gone)
  /\ ingest' = [left |-> doc, reported |-> DOMAIN doc, active |-> TRUE]
  /\ UNCHANGED <<now, trackers, journal, unseen>>

\* appendTransitions for one reported state.
AppendTransitions(s) ==
  LET report == ingest.left[s]
      added  == report.transitions \ rings
      ring   == Ring(s, rings) \cup added
  IN  /\ ingest' = [ingest EXCEPT !.left =
                      [r \in DOMAIN ingest.left \ {s} |-> ingest.left[r]]]
      /\ \E trimmed \in Trimmed(ring) :
           LET count  == total + Cardinality(added) - (Cardinality(ring) - Cardinality(trimmed))
               excess == Excess(count, Backstop)
           IN  /\ rings' \in WithoutOldest((rings \ Ring(s, rings)) \cup trimmed, excess)
               /\ total' = count - excess
               /\ due' = IF excess > 0 THEN [r \in States |-> {}]
                         ELSE [due EXCEPT ![s] = NewestOf(
                                 @ \cup report.transitions \cup Promised(report.unseen), ring)]
      /\ journal' = journal \cup added
      /\ unseen' = [unseen EXCEPT ![s] = @ \ report.unseen]
      /\ UNCHANGED <<now, trackers, documents>>

\* sweepExpiredScopes and what follows it.
EndIngest(evicted) ==
  /\ ingest.active /\ ingest.left = NoDocument
  /\ evicted \cap ingest.reported = {}
  /\ Dropped(evicted)
  /\ \E compaction \in CompactionDue : journal' = IF compaction THEN rings' ELSE journal
  /\ ingest' = NoIngest
  /\ UNCHANGED <<now, trackers, documents, unseen>>

\* compactJournal, at a change of mutes or an ingest of escalations.
Compact ==
  /\ ~ ingest.active
  /\ journal' = rings
  /\ UNCHANGED <<now, trackers, documents, rings, total, ingest, unseen, due>>

\* replayJournal skips a ring whose newest transition is older than Retention.
Expired(s) == \A t \in Ring(s, journal) : t.at + Retention < now

\* The store's process dies, whatever it was doing, and another one replays.
Crash ==
  /\ \E replayed \in SUBSET journal :
       LET excess == Excess(Cardinality(replayed), Backstop)
       IN  /\ \A s \in States :
                IF Expired(s) THEN Ring(s, replayed) = {}
                ELSE Ring(s, replayed) \in Trimmed(Ring(s, journal))
           /\ rings' \in WithoutOldest(replayed, excess)
           /\ total' = Cardinality(replayed) - excess
           /\ due' = [s \in States |->
                        IF excess > 0 \/ \A t \in due[s] : t.at + Retention < now
                        THEN {} ELSE NewestOf(due[s], Ring(s, journal))]
  /\ journal' = rings'
  /\ ingest' = NoIngest
  /\ UNCHANGED <<now, trackers, documents, unseen>>

Next ==
  \/ Tick \/ Happen
  \/ \E reported \in SUBSET States : Collect(reported)
  \/ \E doc \in documents, gone \in SUBSET States : BeginIngest(doc, gone)
  \/ \E s \in DOMAIN ingest.left : AppendTransitions(s)
  \/ \E evicted \in SUBSET States : EndIngest(evicted)
  \/ Compact
  \/ Crash

Spec == Init /\ [][Next]_vars

-----------------------------------------------------------------------------
(* Properties.                                                              *)

\* Every variable holds a value of its kind.
TypeOK ==
  /\ now \in Nat /\ TrackersTypeOK
  /\ rings \subseteq Transition /\ total \in Nat /\ journal \subseteq Transition
  /\ \A doc \in documents \cup {ingest.left} : \A s \in DOMAIN doc :
       s \in States /\ doc[s] \in [transitions : SUBSET Transition, unseen : SUBSET Transition]
  /\ ingest.reported \subseteq States /\ ingest.active \in BOOLEAN
  /\ unseen \in [States -> SUBSET Transition] /\ due \in [States -> SUBSET Transition]

\* The store counts its transitions beside keeping them: the count is right
\* after every drop, trim, eviction and replay, and the bounds hold, which the
\* backstop enforces by that count alone.
Bounded ==
  /\ total = Cardinality(rings) /\ total <= Backstop
  /\ \A s \in States : Cardinality(Ring(s, rings)) <= RingCap

\* While a state changes at most MaxHistory times from one document to the
\* next, no change is missing in its ring unless newer ones fill the ring:
\* whatever comes late or twice, through crashes, until the state is dropped,
\* the backstop evicts, or a crash comes after Retention without a change.
NoTransitionMissed == \A s \in States : due[s] \subseteq rings

\* Whatever the process dies in the middle of, the journal has every transition
\* of the rings (storage/README.md:33): each document's lines are appended as its
\* states are stored, and a compaction rewrites all that the rings hold.
RingsAreJournaled == rings \subseteq journal

\* The rings are as large as they may be, counted right, and in the journal.
RingsAreKept == TypeOK /\ Bounded /\ RingsAreJournaled

\* What a state went through is in its history, in order, and gets from there into
\* its ring.
TransitionsArrive == HistoryAgrees /\ NoTransitionMissed
=============================================================================
