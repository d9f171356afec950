---------------------------- MODULE IncidentStore ----------------------------
(****************************************************************************)
(* The incidents of the store (storage/storage.go) and the part of the      *)
(* journal (storage/journal.go) that survives a restart of its process.     *)
(*                                                                          *)
(* An incident is keyed by (id, createdAt): a restarted source reuses ids.  *)
(* Its events are their sequence numbers, which is the order the code sorts *)
(* them in.  Sources do not date events in the future, so LastUpdatedAt is  *)
(* never after ObservedAt and the later of the two is ObservedAt.  The      *)
(* journal is a log of whole incidents of which replay keeps the last per   *)
(* key; it is modelled as that function, and compaction (due by file size,  *)
(* so possible after any append) restricts it to the live incidents.        *)
(****************************************************************************)
EXTENDS Clock, FiniteSets

CONSTANTS
  ClosedTTL,   \* closedIncidentTTL
  EventCap,    \* incidentEventCap
  CompactionDue \* what needsCompaction may answer after an append

ASSUME IncidentStoreAssumption ==
  /\ ClosedTTL \in Nat \ {0}
  /\ EventCap \in Nat \ {0}
  /\ CompactionDue \subseteq BOOLEAN /\ CompactionDue # {}

VARIABLES
  stored,      \* key -> incident, in memory
  journal      \* key -> incident, what the file would replay to

storeVars == <<stored, journal>>

Key == [id : Nat, createdAt : Nat]

StoredIncident == [status : {"open", "closed", "acknowledged"},
                   events : SUBSET Nat, observedAt : Nat]

\* No incident: the empty function.
NoIncidents == [k \in {} |-> [status |-> "open", events |-> {}, observedAt |-> 0]]

-----------------------------------------------------------------------------

KeyOf(notice) == [id |-> notice.id, createdAt |-> notice.createdAt]

\* Mutant: the cap keeps the oldest events.
Newest_Oldest(events) ==
  {e \in events : Cardinality({f \in events : f < e}) < EventCap}

\* capIncidentEvents: the EventCap newest.
Newest(events) ==
  {e \in events : Cardinality({f \in events : f > e}) < EventCap}

\* The incidents sweepClosedIncidents keeps: only the status "closed" ages.
Unswept(incs, at) ==
  {k \in DOMAIN incs : incs[k].status = "closed" => at <= incs[k].observedAt + ClosedTTL}

SweepClosed(incs, at) == [k \in Unswept(incs, at) |-> incs[k]]

\* One incident of a document, merged into what the store has under its key.
Upsert(incs, notice, at) ==
  LET k     == KeyOf(notice)
      known == IF k \in DOMAIN incs THEN incs[k].events ELSE {}
  IN  [status |-> notice.status, events |-> Newest(known \cup notice.events),
       observedAt |-> at]

\* Every incident of a document; base is what the result extends.
Merge(base, incs, notices, at) ==
  [k \in DOMAIN base \cup {KeyOf(n) : n \in notices} |->
     IF \E n \in notices : KeyOf(n) = k
     THEN Upsert(incs, CHOOSE n \in notices : KeyOf(n) = k, at)
     ELSE base[k]]

\* IngestEscalations, observed at a given time (a scrape's or a request's):
\* merge and append to the journal, sweep, maybe compact.
IngestEscalations(notices, at) ==
  /\ stored' = SweepClosed(Merge(stored, stored, notices, at), at)
  /\ \E due \in CompactionDue :
       journal' = IF due THEN stored' ELSE Merge(journal, stored, notices, at)

\* The process dies in the middle of an ingest, part of it journaled, or idle
\* (part is then empty); the next one replays the journal, sweeps, compacts.
StoreCrash(part, at) ==
  LET replayed == SweepClosed(Merge(journal, stored, part, at), now)
  IN  /\ stored' = replayed
      /\ journal' = replayed

\* Incidents of a reused id, and the one an operation by id means: the latest.
Named(id) == {k \in DOMAIN stored : k.id = id}

IsLatest(k) == \A other \in Named(k.id) : other.createdAt <= k.createdAt

\* Mutant: the acknowledgement is not journaled.
AcknowledgeIncident_Unjournaled(k) ==
  /\ k \in DOMAIN stored
  /\ IsLatest(k)
  /\ stored' = [stored EXCEPT ![k].status = "acknowledged", ![k].observedAt = now]
  /\ UNCHANGED journal

AcknowledgeIncident(k) ==
  LET acked == [stored[k] EXCEPT !.status = "acknowledged", !.observedAt = now]
  IN  /\ k \in DOMAIN stored
      /\ IsLatest(k)
      /\ stored' = [stored EXCEPT ![k] = acked]
      /\ journal' = [j \in DOMAIN journal \cup {k} |-> IF j = k THEN acked ELSE journal[j]]

\* The sweep that every ingest of a state document makes too; that ingest may
\* compact the journal as well.
StateIngestSweep ==
  /\ stored' = SweepClosed(stored, now)
  /\ \E due \in CompactionDue : journal' = IF due THEN stored' ELSE journal

StoreInit == stored = NoIncidents /\ journal = NoIncidents

-----------------------------------------------------------------------------

StoreTypeOK ==
  /\ DOMAIN stored \subseteq Key
  /\ \A k \in DOMAIN stored : stored[k] \in StoredIncident
  /\ DOMAIN journal \subseteq Key
  /\ \A k \in DOMAIN journal : journal[k] \in StoredIncident

\* A crash at any moment loses no incident, status, or event and revives none:
\* what the journal replays to is the live incidents, less those the sweep of
\* the replay drops.
ReplayEqualsLive == SweepClosed(journal, now) = SweepClosed(stored, now)
=============================================================================
