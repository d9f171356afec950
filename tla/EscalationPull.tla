---------------------------- MODULE EscalationPull ----------------------------
(****************************************************************************)
(* Escalations collected end to end: the source (Escalations), one scraper  *)
(* that polls it (scraper/escalations.go), the network between them, and    *)
(* the store with its journal (IncidentStore) in the scraper's process.     *)
(*                                                                          *)
(* A poll sends the scraper's watermark as both after and ack.  Polls are   *)
(* sequential, but a poll that timed out may still be on its way: the       *)
(* source answers it later, to nobody.  Answers are lost, the source        *)
(* restarts and forgets everything, and the scraper's process dies, its     *)
(* watermark with it, in the middle of an ingest too.                       *)
(****************************************************************************)
EXTENDS Escalations, IncidentStore

CONSTANTS
  MaxCrashes,  \* bound of the model: deaths of the scraper's process
  MaxLate      \* bound of the model: abandoned polls still on their way

ASSUME PullAssumption == MaxCrashes \in Nat /\ MaxLate \in Nat

VARIABLES
  watermark,   \* the cursor of the last document stored
  poll,        \* the tick: "idle", "sent", or "served" (the answer is on its way)
  answer,      \* the document on its way back
  late,        \* cursors of abandoned polls the source has yet to serve
  crashes,     \* deaths of the scraper's process so far
  logged,      \* history: every event any process logged
  delivered    \* history: every event the store ever took in

pullVars == <<watermark, poll, answer, late, crashes>>
vars == <<sourceVars, storeVars, pullVars, logged, delivered>>

NoDocument == [watermark |-> NoCursor, notices |-> {}]

\* An abandoned poll that the source has not served may still reach it.
MayStayUnderWay ==
  late' \in {late} \cup (IF poll = "sent" /\ Cardinality(late) < MaxLate
                         THEN {late \cup {watermark}} ELSE {})

-----------------------------------------------------------------------------
(* Events, named across processes.                                          *)

IncidentKey(id, inc) == [id |-> id, createdAt |-> inc.createdAt]

Event == [incident : [id : 1..MaxSeq, createdAt : 0..MaxTime], seq : 1..MaxSeq]

EventsOf(incs) ==
  UNION {{[incident |-> IncidentKey(id, incs[id]), seq |-> s] : s \in incs[id].events} :
           id \in DOMAIN incs}

EventsIn(notices) ==
  UNION {{[incident |-> KeyOf(n), seq |-> s] : s \in n.events} : n \in notices}

Buffered == EventsOf(incidents)

OpenIncidents == {IncidentKey(id, incidents[id]) : id \in DOMAIN incidents}

-----------------------------------------------------------------------------

Init ==
  /\ SourceInit
  /\ StoreInit
  /\ watermark = NoCursor
  /\ poll = "idle"
  /\ answer = NoDocument
  /\ late = {}
  /\ crashes = 0
  /\ logged = {}
  /\ delivered = {}

Tick == SourceTick /\ UNCHANGED <<storeVars, pullVars, logged, delivered>>

Restart == SourceRestart /\ UNCHANGED <<storeVars, pullVars, logged, delivered>>

\* The instrumented process starts, extends or closes incidents.
Report ==
  /\ SourceStep
  /\ logged' = logged \cup Buffered'
  /\ UNCHANGED <<storeVars, pullVars, delivered>>

\* The tick of the scraper: a request with after = ack = watermark.
Poll ==
  /\ poll = "idle"
  /\ poll' = "sent"
  /\ UNCHANGED <<sourceVars, storeVars, watermark, answer, late, crashes, logged, delivered>>

\* Mutant: the source prunes what it is about to send.
ServePoll_PrunesOnSend ==
  /\ poll = "sent"
  /\ Serve(FormatCursor(nextSeq))
  /\ poll' = "served"
  /\ answer' = Document(watermark, watermark)
  /\ UNCHANGED <<storeVars, watermark, late, crashes, logged, delivered>>

\* The source serves it.
ServePoll ==
  /\ poll = "sent"
  /\ Serve(watermark)
  /\ poll' = "served"
  /\ answer' = Document(watermark, watermark)
  /\ UNCHANGED <<storeVars, watermark, late, crashes, logged, delivered>>

\* A timeout, a lost request or a lost answer: the tick returns without
\* advancing the watermark.
Abandon ==
  /\ poll \in {"sent", "served"}
  /\ poll' = "idle"
  /\ answer' = NoDocument
  /\ MayStayUnderWay
  /\ UNCHANGED <<sourceVars, storeVars, watermark, crashes, logged, delivered>>

\* An abandoned request reaches the source after all.
ServeLate(c) ==
  /\ c \in late
  /\ Serve(c)
  /\ late' = late \ {c}
  /\ UNCHANGED <<storeVars, watermark, poll, answer, crashes, logged, delivered>>

\* The answer arrives: stored first, and only then does the watermark advance.
Ingest ==
  /\ poll = "served"
  /\ IngestEscalations(answer.notices, now)
  /\ watermark' = answer.watermark
  /\ poll' = "idle"
  /\ answer' = NoDocument
  /\ delivered' = delivered \cup EventsIn(answer.notices)
  /\ UNCHANGED <<sourceVars, late, crashes, logged>>

\* The scraper's process dies, perhaps in the middle of an ingest with the
\* first incidents of the document journaled, and comes back.
Crash ==
  /\ crashes < MaxCrashes
  /\ crashes' = crashes + 1
  /\ \E done \in 0..nextID : StoreCrash({n \in answer.notices : n.id <= done}, now)
  /\ watermark' = NoCursor
  /\ poll' = "idle"
  /\ answer' = NoDocument
  /\ MayStayUnderWay
  /\ UNCHANGED <<sourceVars, logged, delivered>>

\* The store's other users: an operator acknowledges, a state document sweeps.
Operate ==
  /\ (\E k \in DOMAIN stored : AcknowledgeIncident(k)) \/ StateIngestSweep
  /\ UNCHANGED <<sourceVars, pullVars, logged, delivered>>

\* Collection alone, and with the store's other users.
CollectNext ==
  \/ Tick
  \/ Restart
  \/ Report
  \/ Poll
  \/ ServePoll
  \/ Abandon
  \/ \E c \in late : ServeLate(c)
  \/ Ingest
  \/ Crash

Next == CollectNext \/ Operate

Spec == Init /\ [][Next]_vars

CollectSpec == Init /\ [][CollectNext]_vars

\* The scraper ticks forever (its task loop), and the network does not lose
\* every round trip: a poll sent again and again is at last served, and an
\* answer at last arrives.
Fairness == WF_vars(Poll) /\ SF_vars(ServePoll) /\ SF_vars(Ingest)

FairSpec == CollectSpec /\ Fairness

-----------------------------------------------------------------------------
(* Properties.                                                              *)

\* Every variable holds a value of its kind.
TypeOK ==
  /\ SourceTypeOK
  /\ StoreTypeOK
  /\ watermark \in Cursor
  /\ poll \in {"idle", "sent", "served"}
  /\ answer.watermark \in Cursor
  /\ \A n \in answer.notices :
       n \in [id : Nat, createdAt : Nat, status : Status, events : SUBSET Nat]
  /\ late \subseteq Cursor
  /\ crashes \in 0..MaxCrashes
  /\ logged \subseteq Event
  /\ delivered \subseteq Event

\* The promise of collection: the source lets go of an event only when the
\* store has taken it in or its incident has ended, through lost and late
\* requests, lost answers and restarts of either side.
Handoff == INSTANCE EscalationHandoff WITH open <- OpenIncidents, held <- Buffered
HandoffSpec == Handoff!Spec

\* No event of an incident that still exists is anywhere but in the source's
\* buffer before it has been delivered.
NoEventLost ==
  \A e \in logged : e.incident \in OpenIncidents => e \in Buffered \/ e \in delivered

\* When the scraper's watermark has passed an incident, the store agrees with
\* the source about it: closed there, closed (or swept) here.  The source's
\* own step from closed to acknowledged is not reported, and an operator may
\* have acknowledged the stored incident.
CaughtUpAgrees ==
  \A id \in DOMAIN incidents :
    LET inc == incidents[id]
        k   == IncidentKey(id, inc)
    IN  ParseCursor(watermark) >= inc.lastSeq =>
          IF k \in DOMAIN stored
          THEN stored[k].status \in {inc.status, "acknowledged"}
                 \cup (IF inc.status = "acknowledged" THEN {"closed"} ELSE {})
          ELSE inc.status # "open"

\* An incident that the store has acknowledged changes status only through a
\* document that brings events of it, never by being collected idly again.
AcknowledgedStandsWithoutNews ==
  [][\A k \in DOMAIN stored \cap DOMAIN stored' :
       stored[k].status = "acknowledged" /\ stored'[k].status # "acknowledged"
         => \E n \in answer.notices : KeyOf(n) = k /\ n.events # {}]_vars

\* Every event is at last delivered, unless its incident ends first.
EventuallyDelivered ==
  \A e \in Event :
    e \in logged ~> (e \in delivered \/ e.incident \notin OpenIncidents)
=============================================================================
