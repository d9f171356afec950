--------------------------- MODULE GlobalIncidents ---------------------------
(****************************************************************************)
(* Incidents reported straight to the store over HTTP (POST                 *)
(* /escalations/global, storage/api.go handleGlobalIncident), by concurrent *)
(* requests, with the store's other users and a restart of its process.     *)
(*                                                                          *)
(* An update reads the incident, computes the new one, and ingests it: two  *)
(* store calls with the lock released in between.  A request reads the      *)
(* clock (nanoseconds) when it begins: that is the id of what it creates    *)
(* and the sequence number of the event it adds.                            *)
(****************************************************************************)
EXTENDS IncidentStore

CONSTANT Requests        \* the concurrent HTTP requests, each handled once

VARIABLES
  phase,     \* per request: "new", "reading", "writing", "done", or "failed"
  stamp,     \* per request: the clock when it began
  write,     \* per request: the incident it is about to ingest
  reported   \* history: the events that requests ingested into what is stored

requestVars == <<phase, stamp, write, reported>>
globalVars == <<now, storeVars, requestVars>>

NoWrite == [id |-> 0, createdAt |-> 0, status |-> "open", events |-> {}]

GlobalInit ==
  /\ ClockInit
  /\ StoreInit
  /\ phase = [r \in Requests |-> "new"]
  /\ stamp = [r \in Requests |-> 0]
  /\ write = [r \in Requests |-> NoWrite]
  /\ reported = {}

\* The request body is decoded and the clock read.
Begin(r, next) ==
  /\ phase[r] = "new"
  /\ Advance
  /\ phase' = [phase EXCEPT ![r] = next]
  /\ stamp' = [stamp EXCEPT ![r] = now']

\* No id in the request: a new open incident with one event.
BeginCreate(r) ==
  /\ Begin(r, "writing")
  /\ write' = [write EXCEPT ![r] =
       [id |-> now', createdAt |-> now', status |-> "open", events |-> {now'}]]
  /\ UNCHANGED <<storeVars, reported>>

StillStored(events) == {e \in events : e.incident \in DOMAIN stored'}

BeginUpdate(r) == Begin(r, "reading") /\ UNCHANGED <<storeVars, write, reported>>

\* findIncident, then updatedGlobalIncident on the copy it returned: the
\* request closes it or not, and adds an event if it says anything.
Read(r, k, closes, says) ==
  /\ phase[r] = "reading"
  /\ k \in DOMAIN stored
  /\ write' = [write EXCEPT ![r] =
       [id |-> k.id, createdAt |-> k.createdAt,
        status |-> IF closes THEN "closed" ELSE stored[k].status,
        events |-> IF closes \/ says THEN {stamp[r]} ELSE {}]]
  /\ phase' = [phase EXCEPT ![r] = "writing"]
  /\ UNCHANGED <<now, storeVars, stamp, reported>>

NotFound(r) ==
  /\ phase[r] = "reading"
  /\ phase' = [phase EXCEPT ![r] = "failed"]
  /\ UNCHANGED <<now, storeVars, stamp, write, reported>>

Write(r) ==
  /\ phase[r] = "writing"
  /\ IngestEscalations({write[r]}, stamp[r])
  /\ phase' = [phase EXCEPT ![r] = "done"]
  /\ reported' = StillStored(reported \cup
       {[incident |-> KeyOf(write[r]), seq |-> e] : e \in write[r].events})
  /\ UNCHANGED <<now, stamp, write>>

GlobalOperate ==
  /\ (\E k \in DOMAIN stored : AcknowledgeIncident(k)) \/ StateIngestSweep
  /\ reported' = StillStored(reported)
  /\ UNCHANGED <<now, phase, stamp, write>>

GlobalTick == Advance /\ UNCHANGED <<storeVars, requestVars>>

\* The store's process dies, its requests with it.
GlobalCrash ==
  /\ \/ StoreCrash({}, now)
     \/ \E r \in Requests : phase[r] = "writing" /\ StoreCrash({write[r]}, stamp[r])
  /\ phase' = [r \in Requests |->
                 IF phase[r] \in {"reading", "writing"} THEN "failed" ELSE phase[r]]
  /\ reported' = StillStored(reported)
  /\ UNCHANGED <<now, stamp, write>>

GlobalNext ==
  \/ \E r \in Requests :
       \/ BeginCreate(r)
       \/ BeginUpdate(r)
       \/ \E k \in DOMAIN stored, closes, says \in BOOLEAN : Read(r, k, closes, says)
       \/ NotFound(r)
       \/ Write(r)
  \/ GlobalOperate
  \/ GlobalTick
  \/ GlobalCrash

GlobalSpec == GlobalInit /\ [][GlobalNext]_globalVars

-----------------------------------------------------------------------------
(* Properties.                                                              *)

\* Every variable holds a value of its kind.
GlobalTypeOK ==
  /\ StoreTypeOK
  /\ phase \in [Requests -> {"new", "reading", "writing", "done", "failed"}]
  /\ stamp \in [Requests -> 0..MaxTime]
  /\ \A r \in Requests : KeyOf(write[r]) \in Key /\ write[r].events \subseteq {stamp[r]}

\* No annotation is lost to a concurrent request: while the incident is
\* stored, the event of every request that ingested is there, or EventCap
\* newer ones are.
NoAnnotationLost ==
  \A e \in reported :
    LET events == stored[e.incident].events
    IN  e.seq \in events \/ Cardinality({f \in events : f > e.seq}) >= EventCap
=============================================================================
