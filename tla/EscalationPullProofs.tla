------------------------ MODULE EscalationPullProofs ------------------------
(****************************************************************************)
(* What holds of the escalation source for every budget, TTL and bound:     *)
(* its buffers agree with its acknowledged positions, no reader is denied   *)
(* news, and no acknowledgement, however late, undoes another.              *)
(*                                                                          *)
(* And of escalation collection: Spec implements EscalationHandoff, and no  *)
(* event is lost.  The invariant behind it: whatever a cursor under way     *)
(* could still acknowledge has been delivered, or is in the answer whose    *)
(* arrival hands that cursor to the scraper.  On top of it: once the newest *)
(* event of an incident was delivered, the store and the answer under way   *)
(* know the incident in the state the source has it in.                     *)
(****************************************************************************)
EXTENDS EscalationPull, IncidentStoreProofs, FiniteSetTheorems, TLAPS

-----------------------------------------------------------------------------
(* The source.                                                              *)

\* The part of BufferMatchesAck about one incident.
WellBuffered(inc) ==
  /\ inc.ackedSeq <= inc.lastSeq
  /\ inc.events \subseteq (inc.ackedSeq + 1)..inc.lastSeq
  /\ inc.lastSeq \in inc.events \/ inc.ackedSeq = inc.lastSeq

\* Any step of the source, for any reader with any cursor at all.
SourceAction ==
  \/ SourceTick
  \/ SourceRestart
  \/ SourceStep
  \/ \E ack \in Cursor : Serve(ack)

SourceInv == SourceTypeOK /\ BufferMatchesAck

-----------------------------------------------------------------------------
(* What the helpers do to one incident.                                     *)

\* Acknowledging never raises a position past the last event, never lowers
\* it, and prunes exactly the events at or before the acknowledged one.
LEMMA AckIncidentFacts ==
  ASSUME NEW inc \in Incident, NEW seq \in Nat, WellBuffered(inc)
  PROVE  /\ AckIncident(inc, seq) \in Incident
         /\ WellBuffered(AckIncident(inc, seq))
         /\ AckIncident(inc, seq).lastSeq = inc.lastSeq
         /\ AckIncident(inc, seq).createdAt = inc.createdAt
         /\ AckIncident(inc, seq).ackedSeq >= inc.ackedSeq
         /\ AckIncident(inc, seq).events = {e \in inc.events : e > seq}
<1> DEFINE a == AckIncident(inc, seq)
<1>1. AckedUpTo(inc, seq) \in Nat
  BY DEF AckedUpTo, Incident
<1>2. /\ a \in Incident
      /\ a.lastSeq = inc.lastSeq
      /\ a.createdAt = inc.createdAt
      /\ a.ackedSeq = AckedUpTo(inc, seq)
      /\ a.events = {e \in inc.events : e > seq}
  BY <1>1 DEF AckIncident, Incident, Status
<1>3. a.ackedSeq >= inc.ackedSeq /\ a.ackedSeq <= a.lastSeq
  BY <1>2 DEF AckedUpTo, Incident, WellBuffered
<1>4. a.events \subseteq (a.ackedSeq + 1)..a.lastSeq
  BY <1>2 DEF AckedUpTo, Incident, WellBuffered
<1>5. a.lastSeq \in a.events \/ a.ackedSeq = a.lastSeq
  BY <1>2 DEF AckedUpTo, Incident, WellBuffered
<1> QED
  BY <1>2, <1>3, <1>4, <1>5 DEF WellBuffered

\* A new event later than all others keeps the buffer in agreement.
LEMMA AppendEventFacts ==
  ASSUME NEW inc \in Incident, NEW seq \in Nat, WellBuffered(inc), inc.lastSeq < seq
  PROVE  /\ AppendEvent(inc, seq) \in Incident
         /\ WellBuffered(AppendEvent(inc, seq))
         /\ AppendEvent(inc, seq).lastSeq = seq
         /\ AppendEvent(inc, seq).createdAt = inc.createdAt
         /\ AppendEvent(inc, seq).ackedSeq = inc.ackedSeq
         /\ AppendEvent(inc, seq).events = inc.events \cup {seq}
<1> DEFINE a == AppendEvent(inc, seq)
<1>1. /\ a \in Incident
      /\ a.lastSeq = seq
      /\ a.createdAt = inc.createdAt
      /\ a.ackedSeq = inc.ackedSeq
      /\ a.events = inc.events \cup {seq}
  <2>1. inc.events \cup {seq} \in SUBSET Nat
    BY DEF Incident
  <2> QED
    BY <2>1 DEF AppendEvent, Incident
<1>2. \A e \in inc.events : e \in (inc.ackedSeq + 1)..inc.lastSeq
  BY DEF WellBuffered
<1>3. a.events \subseteq (a.ackedSeq + 1)..a.lastSeq
  BY <1>1, <1>2 DEF Incident, WellBuffered
<1> QED
  BY <1>1, <1>3 DEF WellBuffered, Incident

\* A request leaves a subset of the incidents, each acknowledged or as it was.
LEMMA ServedFacts ==
  ASSUME SourceInv, NEW ack \in Cursor
  PROVE  /\ DOMAIN Served(ack) = Live(incidents)
         /\ \A id \in Live(incidents) :
              /\ id \in DOMAIN incidents
              /\ Served(ack)[id] \in Incident
              /\ WellBuffered(Served(ack)[id])
              /\ Served(ack)[id].lastSeq = incidents[id].lastSeq
              /\ Served(ack)[id].createdAt = incidents[id].createdAt
              /\ Served(ack)[id].ackedSeq >= incidents[id].ackedSeq
              /\ Served(ack)[id].events =
                   {e \in incidents[id].events : e > ParseCursor(ack)}
<1> DEFINE seq == ParseCursor(ack)
<1>1. seq \in Nat
  BY DEF ParseCursor, Cursor
<1>2. \A id \in Live(incidents) :
        /\ id \in DOMAIN incidents
        /\ incidents[id] \in Incident
        /\ WellBuffered(incidents[id])
  BY DEF Live, SourceInv, SourceTypeOK, BufferMatchesAck, WellBuffered
<1>3. CASE seq = 0
  <2>1. Served(ack) = [id \in Live(incidents) |-> incidents[id]]
    BY <1>3 DEF Served, Expire
  <2>2. \A id \in Live(incidents) :
          incidents[id].events = {e \in incidents[id].events : e > seq}
    BY <1>2, <1>3 DEF WellBuffered, Incident
  <2> QED
    BY <1>2, <2>1, <2>2 DEF Incident
<1>4. CASE seq # 0
  <2>1. Served(ack) = [id \in Live(incidents) |-> AckIncident(incidents[id], seq)]
    BY <1>4 DEF Served, Ack, Expire
  <2> QED
    BY <1>1, <1>2, <2>1, AckIncidentFacts
<1> QED
  BY <1>3, <1>4

-----------------------------------------------------------------------------
(* The inductive invariant.                                                 *)

LEMMA SourceInvInit == SourceInit => SourceInv
  BY DEF SourceInit, ClockInit, SourceInv, SourceTypeOK, BufferMatchesAck

\* A logged event is newer than every buffered one, so the buffers stay
\* disjoint and in agreement when it is appended to one of them.
LEMMA AppendKeepsInv ==
  ASSUME SourceInv, NEW id \in DOMAIN incidents, NEW inc \in Incident,
         WellBuffered(inc), inc.lastSeq = incidents[id].lastSeq,
         inc.events = incidents[id].events,
         nextSeq' = nextSeq + 1,
         incidents' = [incidents EXCEPT ![id] = AppendEvent(inc, nextSeq + 1)],
         UNCHANGED <<now, epoch, nextID>>
  PROVE  SourceInv'
<1> DEFINE new == AppendEvent(inc, nextSeq + 1)
<1>1. /\ DOMAIN incidents' = DOMAIN incidents
      /\ incidents'[id] = new
      /\ \A i \in DOMAIN incidents \ {id} : incidents'[i] = incidents[i]
  OBVIOUS
<1>2. /\ new \in Incident
      /\ WellBuffered(new)
      /\ new.lastSeq = nextSeq + 1
      /\ new.events = incidents[id].events \cup {nextSeq + 1}
  BY AppendEventFacts DEF SourceInv, SourceTypeOK, BufferMatchesAck
<1>3. SourceTypeOK'
  BY <1>1, <1>2 DEF SourceInv, SourceTypeOK
<1>4. \A i \in DOMAIN incidents : \A e \in incidents[i].events : e <= nextSeq
  BY DEF SourceInv, SourceTypeOK, BufferMatchesAck, Incident
<1>5. \A i \in DOMAIN incidents' :
        /\ WellBuffered(incidents'[i])
        /\ incidents'[i].lastSeq \in 1..nextSeq'
  BY <1>1, <1>2 DEF SourceInv, SourceTypeOK, BufferMatchesAck, WellBuffered
<1>6. \A i \in DOMAIN incidents' : \A j \in DOMAIN incidents' \ {i} :
        incidents'[i].events \cap incidents'[j].events = {}
  <2> SUFFICES ASSUME NEW i \in DOMAIN incidents, NEW j \in DOMAIN incidents \ {i}
               PROVE  incidents'[i].events \cap incidents'[j].events = {}
    BY <1>1
  <2>1. nextSeq + 1 \notin incidents[i].events /\ nextSeq + 1 \notin incidents[j].events
    BY <1>4 DEF SourceInv, SourceTypeOK
  <2>2. incidents[i].events \cap incidents[j].events = {}
    BY DEF SourceInv, BufferMatchesAck
  <2> QED
    BY <1>1, <1>2, <2>1, <2>2
<1> QED
  BY <1>3, <1>5, <1>6 DEF SourceInv, BufferMatchesAck, WellBuffered

LEMMA ExpireKeepsInv ==
  ASSUME SourceInv, incidents' = Expire(incidents), UNCHANGED <<now, epoch, nextID, nextSeq>>
  PROVE  SourceInv'
  BY DEF SourceInv, SourceTypeOK, BufferMatchesAck, Expire, Live

LEMMA StartKeepsInv ==
  ASSUME SourceInv, NEW ttl \in TTLs, Start(ttl)
  PROVE  SourceInv'
<1> DEFINE id == nextID + 1
           new == NewIncident(ttl, nextSeq + 1)
<1>1. /\ DOMAIN incidents' = Live(incidents) \cup {id}
      /\ incidents'[id] = new
      /\ \A i \in Live(incidents) : i \in DOMAIN incidents /\ incidents'[i] = incidents[i]
      /\ nextID' = id /\ nextSeq' = nextSeq + 1 /\ now' = now /\ epoch' = epoch
  BY DEF Start, Expire, Live, SourceInv, SourceTypeOK
<1>2. /\ new \in Incident
      /\ new.lastSeq = nextSeq + 1 /\ new.ackedSeq = 0 /\ new.events = {nextSeq + 1}
  BY EscalationsAssumption DEF NewIncident, Incident, Status, SourceInv, SourceTypeOK
<1>3. SourceTypeOK'
  BY <1>1, <1>2 DEF SourceInv, SourceTypeOK
<1>4. \A i \in Live(incidents) : \A e \in incidents[i].events : e <= nextSeq
  BY <1>1 DEF SourceInv, SourceTypeOK, BufferMatchesAck, Incident
<1>5. \A i \in DOMAIN incidents' :
        /\ WellBuffered(incidents'[i])
        /\ incidents'[i].lastSeq \in 1..nextSeq'
  BY <1>1, <1>2 DEF SourceInv, SourceTypeOK, BufferMatchesAck, WellBuffered
<1>6. \A i \in DOMAIN incidents' : \A j \in DOMAIN incidents' \ {i} :
        incidents'[i].events \cap incidents'[j].events = {}
  <2>1. \A i \in Live(incidents) : nextSeq + 1 \notin incidents[i].events
    BY <1>4 DEF SourceInv, SourceTypeOK
  <2>2. \A i, j \in Live(incidents) : i # j => incidents[i].events \cap incidents[j].events = {}
    BY <1>1 DEF SourceInv, BufferMatchesAck
  <2>3. \A i \in DOMAIN incidents' :
          \/ i \in Live(incidents) /\ incidents'[i].events = incidents[i].events
          \/ i = id /\ incidents'[i].events = {nextSeq + 1}
    BY <1>1, <1>2
  <2> QED
    BY <2>1, <2>2, <2>3
<1> QED
  BY <1>3, <1>5, <1>6 DEF SourceInv, BufferMatchesAck, WellBuffered

LEMMA ServeKeepsInv ==
  ASSUME SourceInv, NEW ack \in Cursor, Serve(ack)
  PROVE  SourceInv'
<1>1. incidents' = Served(ack) /\ UNCHANGED <<now, epoch, nextID, nextSeq>>
  BY DEF Serve
<1>2. DOMAIN incidents' = Live(incidents)
  BY <1>1, ServedFacts
<1>3. \A i \in Live(incidents) :
        /\ i \in DOMAIN incidents
        /\ incidents'[i] \in Incident
        /\ WellBuffered(incidents'[i])
        /\ incidents'[i].lastSeq = incidents[i].lastSeq
        /\ incidents'[i].events \subseteq incidents[i].events
  BY <1>1, ServedFacts
<1>4. SourceTypeOK'
  BY <1>1, <1>2, <1>3 DEF SourceInv, SourceTypeOK
<1>5. \A i \in DOMAIN incidents' : \A j \in DOMAIN incidents' \ {i} :
        incidents'[i].events \cap incidents'[j].events = {}
  BY <1>2, <1>3 DEF SourceInv, BufferMatchesAck
<1> QED
  BY <1>1, <1>2, <1>3, <1>4, <1>5 DEF SourceInv, BufferMatchesAck, WellBuffered

LEMMA SourceInvStep == SourceInv /\ [SourceAction]_sourceVars => SourceInv'
<1> SUFFICES ASSUME SourceInv, [SourceAction]_sourceVars
             PROVE  SourceInv'
  OBVIOUS
<1>1. CASE SourceTick
  BY <1>1 DEF SourceTick, Advance, SourceInv, SourceTypeOK, BufferMatchesAck
<1>2. CASE SourceRestart
  BY <1>2 DEF SourceRestart, Advance, SourceInv, SourceTypeOK, BufferMatchesAck
<1>3. ASSUME NEW ttl \in TTLs, Start(ttl)
      PROVE  SourceInv'
  BY <1>3, StartKeepsInv
<1>4. CASE StartRefused
  BY <1>4, ExpireKeepsInv DEF StartRefused
<1>5. ASSUME NEW id \in DOMAIN incidents, AddLog(id)
      PROVE  SourceInv'
  <2>1. incidents[id] \in Incident /\ WellBuffered(incidents[id])
    BY DEF SourceInv, SourceTypeOK, BufferMatchesAck, WellBuffered
  <2> QED
    BY <1>5, <2>1, AppendKeepsInv DEF AddLog
<1>6. ASSUME NEW id \in DOMAIN incidents, Close(id)
      PROVE  SourceInv'
  <2> DEFINE inc == [incidents[id] EXCEPT !.status = "closed"]
  <2>1. /\ inc \in Incident
        /\ inc.lastSeq = incidents[id].lastSeq
        /\ inc.ackedSeq = incidents[id].ackedSeq
        /\ inc.events = incidents[id].events
    BY DEF SourceInv, SourceTypeOK, Incident, Status
  <2>2. WellBuffered(inc)
    BY <2>1 DEF SourceInv, BufferMatchesAck, WellBuffered
  <2>3. incidents' = [incidents EXCEPT ![id] = AppendEvent(inc, nextSeq + 1)]
    BY <1>6 DEF Close
  <2> QED
    BY <1>6, <2>1, <2>2, <2>3, AppendKeepsInv DEF Close
<1>7. ASSUME NEW ack \in Cursor, Serve(ack)
      PROVE  SourceInv'
  BY <1>7, ServeKeepsInv
<1>8. CASE UNCHANGED sourceVars
  BY <1>8 DEF sourceVars, SourceInv, SourceTypeOK, BufferMatchesAck
<1> QED
  BY <1>1, <1>2, <1>3, <1>4, <1>5, <1>6, <1>7, <1>8 DEF SourceAction, SourceStep

LEMMA NextIsSourceAction == SourceTypeOK /\ SourceNext => SourceAction
  BY DEF SourceNext, SourceAction, IssuedCursors, Cursor, SourceTypeOK

LEMMA SourceInvariant == SourceSpec => []SourceInv
<1>1. SourceInv /\ [SourceNext]_sourceVars => SourceInv'
  BY SourceInvStep, NextIsSourceAction DEF SourceInv
<1> QED
  BY SourceInvInit, <1>1, PTL DEF SourceSpec

-----------------------------------------------------------------------------
(* The theorems.                                                            *)

\* The variables of the source (escalation.go:112-136) keep their types.
THEOREM SourceTypeCorrect == SourceSpec => []SourceTypeOK
  BY SourceInvariant, PTL DEF SourceInv

\* The buffer of every incident agrees with its acknowledged position
\* (appendEventLocked, ackLocked), whatever readers acknowledge and when.
THEOREM BuffersAgree == SourceSpec => []BufferMatchesAck
  BY SourceInvariant, PTL DEF SourceInv

\* The display loop's two tests (escalation.go:195-200) skip an incident just
\* when its buffer has nothing after the reader's position.
THEOREM NothingIsHidden == SourceSpec => []NothingHidden
<1>1. SourceInv => NothingHidden
  <2> SUFFICES ASSUME SourceInv, NEW after \in 0..nextSeq, NEW id \in DOMAIN incidents
               PROVE  Shown(incidents[id], after)
                        <=> \E e \in incidents[id].events : e > after
    BY DEF NothingHidden
  <2> DEFINE inc == incidents[id]
  <2>1. inc \in Incident /\ WellBuffered(inc)
    BY DEF SourceInv, SourceTypeOK, BufferMatchesAck, WellBuffered
  <2>2. ASSUME Shown(inc, after)
        PROVE  \E e \in inc.events : e > after
    <3>1. inc.lastSeq > after /\ (inc.events # {} \/ inc.ackedSeq < inc.lastSeq)
      BY <2>2 DEF Shown
    <3>2. inc.lastSeq \in inc.events
      BY <2>1, <3>1 DEF WellBuffered, Incident
    <3> QED
      BY <3>1, <3>2
  <2>3. ASSUME NEW e \in inc.events, e > after
        PROVE  Shown(inc, after)
    <3>1. e <= inc.lastSeq
      BY <2>1 DEF WellBuffered, Incident
    <3> QED
      BY <2>1, <2>3, <3>1 DEF Shown, Incident
  <2> QED
    BY <2>2, <2>3
<1> QED
  BY <1>1, SourceInvariant, PTL

\* No acknowledgement, however stale, moves an incident's position back while
\* the process lives (ackLocked, escalation.go:239-243).
THEOREM AckIsMonotone == SourceSpec => AckNeverRetreats
<1> DEFINE Forward == \A id \in DOMAIN incidents \cap DOMAIN incidents' :
              epoch' = epoch => incidents'[id].ackedSeq >= incidents[id].ackedSeq
<1>1. SourceInv /\ [SourceNext]_sourceVars => [Forward]_sourceVars
  <2> SUFFICES ASSUME SourceInv, SourceAction
               PROVE  Forward
    BY NextIsSourceAction DEF SourceInv
  <2> USE DEF SourceInv
  <2>0. \A id \in DOMAIN incidents : incidents[id].ackedSeq \in Nat
    BY DEF SourceTypeOK, Incident
  <2>1. CASE SourceTick
    BY <2>0, <2>1 DEF SourceTick
  <2>2. CASE SourceRestart
    BY <2>2 DEF SourceRestart
  <2>3. ASSUME NEW ttl \in TTLs, Start(ttl)
        PROVE  Forward
    <3>1. \A id \in DOMAIN incidents \cap DOMAIN incidents' : incidents'[id] = incidents[id]
      BY <2>3 DEF Start, Expire, Live, SourceTypeOK
    <3> QED
      BY <2>0, <3>1
  <2>4. CASE StartRefused
    BY <2>0, <2>4 DEF StartRefused, Expire, Live
  <2>5. ASSUME NEW id \in DOMAIN incidents, AddLog(id)
        PROVE  Forward
    BY <2>0, <2>5 DEF AddLog, AppendEvent, SourceTypeOK, Incident
  <2>6. ASSUME NEW id \in DOMAIN incidents, Close(id)
        PROVE  Forward
    BY <2>0, <2>6 DEF Close, AppendEvent, SourceTypeOK, Incident
  <2>7. ASSUME NEW ack \in Cursor, Serve(ack)
        PROVE  Forward
    BY <2>7, ServedFacts DEF Serve
  <2> QED
    BY <2>1, <2>2, <2>3, <2>4, <2>5, <2>6, <2>7 DEF SourceAction, SourceStep
<1> QED
  BY <1>1, SourceInvariant, PTL DEF SourceSpec, AckNeverRetreats

-----------------------------------------------------------------------------
(* The budget of Start (escalation.go:158-161).                             *)

NeverAcked == {id \in DOMAIN incidents : incidents[id].ackedSeq = 0}

LEMMA NeverAckedFinite ==
  ASSUME SourceInv
  PROVE  IsFiniteSet(NeverAcked)
<1>1. NeverAcked \subseteq 1..nextID /\ nextID \in Nat
  BY DEF NeverAcked, SourceInv, SourceTypeOK
<1>2. IsFiniteSet(1..nextID)
  BY <1>1, FS_Interval
<1> QED
  BY <1>1, <1>2, FS_Subset

\* A step that adds no incident, and takes no position back, adds none to the
\* incidents that were never acknowledged.
LEMMA BudgetKept ==
  ASSUME SourceInv, NeverAckedWithinBudget, NeverAcked' \subseteq NeverAcked
  PROVE  NeverAckedWithinBudget'
<1>1. Cardinality(NeverAcked') <= Cardinality(NeverAcked)
  BY NeverAckedFinite, FS_Subset
<1>2. /\ Cardinality(NeverAcked) \in Nat
      /\ Cardinality(NeverAcked') \in Nat
  BY NeverAckedFinite, FS_CardinalityType, FS_Subset
<1> QED
  BY <1>1, <1>2, EscalationsAssumption DEF NeverAckedWithinBudget, NeverAcked

\* Start counts what is unacknowledged, and what was never acknowledged is.
LEMMA StartKeepsBudget ==
  ASSUME SourceInv, NEW ttl \in TTLs, Start(ttl)
  PROVE  NeverAckedWithinBudget'
<1> DEFINE id == nextID + 1
           unacked == Unacknowledged(Expire(incidents))
<1>1. /\ DOMAIN incidents' = Live(incidents) \cup {id}
      /\ \A i \in Live(incidents) : i \in DOMAIN incidents /\ incidents'[i] = incidents[i]
  BY DEF Start, Expire, Live, SourceInv, SourceTypeOK
<1>2. NeverAcked' \subseteq unacked \cup {id}
  BY <1>1 DEF NeverAcked, Unacknowledged, Expire, SourceInv, SourceTypeOK,
              BufferMatchesAck, Incident
<1>3. IsFiniteSet(unacked)
  <2>1. unacked \subseteq 1..nextID /\ nextID \in Nat
    BY DEF Unacknowledged, Expire, Live, SourceInv, SourceTypeOK
  <2>2. IsFiniteSet(1..nextID)
    BY <2>1, FS_Interval
  <2> QED
    BY <2>1, <2>2, FS_Subset
<1>4. /\ IsFiniteSet(unacked \cup {id})
      /\ Cardinality(unacked \cup {id}) <= Cardinality(unacked) + 1
      /\ Cardinality(unacked) \in Nat
  <2> HIDE DEF unacked, id
  <2>1. Cardinality(unacked) \in Nat
    BY <1>3, FS_CardinalityType
  <2>2. /\ IsFiniteSet(unacked \cup {id})
        /\ \/ Cardinality(unacked \cup {id}) = Cardinality(unacked)
           \/ Cardinality(unacked \cup {id}) = Cardinality(unacked) + 1
    BY <1>3, FS_AddElement, Zenon
  <2> QED
    BY <2>1, <2>2
<1>5. /\ Cardinality(NeverAcked') <= Cardinality(unacked \cup {id})
      /\ Cardinality(NeverAcked') \in Nat
      /\ Cardinality(unacked \cup {id}) \in Nat
  BY <1>2, <1>4, FS_Subset, FS_CardinalityType
<1>6. Cardinality(unacked) < MaxUnacknowledged
  BY DEF Start
<1>7. Cardinality(NeverAcked') <= MaxUnacknowledged
  BY <1>4, <1>5, <1>6, EscalationsAssumption
<1> QED
  BY <1>7 DEF NeverAckedWithinBudget, NeverAcked

\* At most MaxUnacknowledged incidents have never been acknowledged, whatever
\* is logged, closed and acknowledged, and however late.
THEOREM BudgetHolds == SourceSpec => []NeverAckedWithinBudget
<1>1. SourceInit => NeverAckedWithinBudget
  BY FS_EmptySet, EscalationsAssumption DEF SourceInit, NeverAckedWithinBudget
<1>2. SourceInv /\ NeverAckedWithinBudget /\ [SourceNext]_sourceVars
        => NeverAckedWithinBudget'
  <2> SUFFICES ASSUME SourceInv, NeverAckedWithinBudget, SourceAction
               PROVE  NeverAckedWithinBudget'
    BY NextIsSourceAction DEF SourceInv, sourceVars, NeverAckedWithinBudget
  <2>1. CASE SourceTick
    BY <2>1 DEF SourceTick, NeverAckedWithinBudget
  <2>2. CASE SourceRestart
    <3>1. NeverAcked' = {}
      BY <2>2 DEF SourceRestart, NeverAcked
    <3> QED
      BY <3>1, BudgetKept
  <2>3. ASSUME NEW ttl \in TTLs, Start(ttl)
        PROVE  NeverAckedWithinBudget'
    BY <2>3, StartKeepsBudget
  <2>4. CASE StartRefused
    <3>1. NeverAcked' \subseteq NeverAcked
      BY <2>4 DEF StartRefused, Expire, Live, NeverAcked
    <3> QED
      BY <3>1, BudgetKept
  <2>5. ASSUME NEW id \in DOMAIN incidents, AddLog(id)
        PROVE  NeverAckedWithinBudget'
    <3>1. NeverAcked' \subseteq NeverAcked
      BY <2>5 DEF AddLog, AppendEvent, NeverAcked, SourceInv, SourceTypeOK, Incident
    <3> QED
      BY <3>1, BudgetKept
  <2>6. ASSUME NEW id \in DOMAIN incidents, Close(id)
        PROVE  NeverAckedWithinBudget'
    <3>1. NeverAcked' \subseteq NeverAcked
      BY <2>6 DEF Close, AppendEvent, NeverAcked, SourceInv, SourceTypeOK, Incident
    <3> QED
      BY <3>1, BudgetKept
  <2>7. ASSUME NEW ack \in Cursor, Serve(ack)
        PROVE  NeverAckedWithinBudget'
    <3>1. NeverAcked' \subseteq NeverAcked
      <4>1. \A id \in Live(incidents) :
              incidents[id].ackedSeq \in Nat /\ Served(ack)[id].ackedSeq \in Nat
        BY <2>7, ServedFacts DEF SourceInv, SourceTypeOK, Incident
      <4> QED
        BY <2>7, <4>1, ServedFacts DEF Serve, NeverAcked
    <3> QED
      BY <3>1, BudgetKept
  <2> QED
    BY <2>1, <2>2, <2>3, <2>4, <2>5, <2>6, <2>7 DEF SourceAction, SourceStep
<1> QED
  BY <1>1, <1>2, SourceInvariant, PTL DEF SourceSpec


\* For every budget and any readers: buffers match the acknowledged positions, the
\* display hides nothing, and the budget holds (escalation.go:185-240).
THEOREM SourceAlwaysRight == SourceSpec => []SourceIsRight
BY BuffersAgree, NothingIsHidden, BudgetHolds, PTL DEF SourceIsRight

-----------------------------------------------------------------------------
(* Collection.                                                              *)

\* An event by the incident of this process that logged it.
EventAt(id, s) == [incident |-> IncidentKey(id, incidents[id]), seq |-> s]

\* The buffered events that the source would prune for a cursor.
AckedBy(c) == IF c.epoch = epoch THEN {e \in Buffered : e.seq <= c.seq} ELSE {}

\* A cursor of this process, or an earlier one, at a position it reached.
CursorOK(c) ==
  /\ c \in Cursor
  /\ c.epoch <= now
  /\ c.epoch = epoch => c.seq <= nextSeq

\* Clock, epochs and numbers: what makes events of two processes distinct.
NumbersOK ==
  /\ now <= MaxTime /\ epoch <= now
  /\ nextSeq <= MaxSeq /\ nextID <= nextSeq
  /\ \A id \in DOMAIN incidents :
       epoch <= incidents[id].createdAt /\ incidents[id].createdAt <= now
  /\ logged \subseteq Event
  /\ \A e \in logged :
       /\ e.incident.createdAt <= now
       /\ epoch <= e.incident.createdAt => e.incident.id <= nextID /\ e.seq <= nextSeq

HistoryOK == Buffered \subseteq logged /\ delivered \subseteq logged

\* What may be acknowledged is delivered, or arrives with the cursor.
CursorsOK ==
  /\ CursorOK(watermark) /\ AckedBy(watermark) \subseteq delivered
  /\ \A c \in late : CursorOK(c) /\ AckedBy(c) \subseteq delivered
  /\ CursorOK(answer.watermark)
  /\ AckedBy(answer.watermark) \subseteq delivered \cup EventsIn(answer.notices)
  /\ EventsIn(answer.notices) \subseteq logged

PullInv == SourceInv /\ NumbersOK /\ HistoryOK /\ CursorsOK /\ NoEventLost

-----------------------------------------------------------------------------
(* What a step of the source does to its open incidents and buffered events.*)

\* The incidents that the next expiry ends.
Ended == {IncidentKey(id, incidents[id]) : id \in DOMAIN incidents \ Live(incidents)}

Held(events, ended) == {e \in events : e.incident \notin ended}

\* Buffered events and open incidents, member by member.
LEMMA Members ==
  /\ \A e : e \in Buffered <=>
       \E id \in DOMAIN incidents : \E s \in incidents[id].events : e = EventAt(id, s)
  /\ \A e : e \in Buffered' <=>
       \E id \in DOMAIN incidents' : \E s \in incidents'[id].events : e = EventAt(id, s)'
  /\ \A k : k \in OpenIncidents <=>
       \E id \in DOMAIN incidents : k = IncidentKey(id, incidents[id])
  /\ \A k : k \in OpenIncidents' <=>
       \E id \in DOMAIN incidents' : k = IncidentKey(id, incidents'[id])
  /\ \A k : k \in Ended <=>
       \E id \in DOMAIN incidents \ Live(incidents) : k = IncidentKey(id, incidents[id])
  BY DEF Buffered, EventsOf, EventAt, OpenIncidents, Ended

LEMMA LiveAreIncidents == Live(incidents) \subseteq DOMAIN incidents
  BY DEF Live

\* A log, or a close: one more event of an incident that is open.
LEMMA LogEffect ==
  ASSUME SourceInv, NEW id \in DOMAIN incidents, AddLog(id) \/ Close(id)
  PROVE  /\ OpenIncidents' = OpenIncidents
         /\ Buffered' = Buffered \cup {EventAt(id, nextSeq + 1)}
         /\ DOMAIN incidents' = DOMAIN incidents
         /\ \A i \in DOMAIN incidents : incidents'[i].createdAt = incidents[i].createdAt
         /\ nextSeq' = nextSeq + 1 /\ nextSeq < MaxSeq
         /\ UNCHANGED <<now, epoch, nextID>>
<1>1. /\ DOMAIN incidents' = DOMAIN incidents
      /\ nextSeq' = nextSeq + 1 /\ nextSeq < MaxSeq
      /\ UNCHANGED <<now, epoch, nextID>>
  BY DEF AddLog, Close
<1>2. \A i \in DOMAIN incidents :
        /\ incidents'[i].createdAt = incidents[i].createdAt
        /\ incidents'[i].events = IF i = id THEN incidents[i].events \cup {nextSeq + 1}
                                            ELSE incidents[i].events
  <2>1. CASE AddLog(id)
    BY <2>1 DEF AddLog, AppendEvent, SourceInv, SourceTypeOK, Incident
  <2>2. CASE Close(id)
    BY <2>2 DEF Close, AppendEvent, SourceInv, SourceTypeOK, Incident
  <2> QED
    BY <2>1, <2>2
<1>3. OpenIncidents' = OpenIncidents
  BY <1>1, <1>2 DEF OpenIncidents, IncidentKey
<1>4. Buffered' = Buffered \cup {EventAt(id, nextSeq + 1)}
  <2>1. ASSUME NEW e \in Buffered'
        PROVE  e \in Buffered \cup {EventAt(id, nextSeq + 1)}
    <3>1. PICK i \in DOMAIN incidents : \E s \in incidents'[i].events : e = EventAt(i, s)'
      BY <1>1, Members
    <3>2. PICK s \in incidents'[i].events : e = EventAt(i, s)
      BY <1>2, <3>1 DEF EventAt, IncidentKey
    <3> QED
      BY <1>2, <3>2, Members
  <2>2. ASSUME NEW e \in Buffered
        PROVE  e \in Buffered'
    <3>1. PICK i \in DOMAIN incidents : \E s \in incidents[i].events : e = EventAt(i, s)
      BY Members
    <3>2. PICK s \in incidents'[i].events : e = EventAt(i, s)'
      BY <1>2, <3>1 DEF EventAt, IncidentKey
    <3> QED
      BY <1>1, <3>2, Members
  <2>3. EventAt(id, nextSeq + 1) \in Buffered'
    BY <1>1, <1>2, Members DEF EventAt, IncidentKey
  <2> QED
    BY <2>1, <2>2, <2>3
<1> QED
  BY <1>1, <1>2, <1>3, <1>4

\* Keeping the live incidents, and of their events a subset, ends the others.
LEMMA ExpiryEffect ==
  ASSUME SourceInv, NEW S \in SUBSET Nat,
         DOMAIN incidents' = Live(incidents),
         \A id \in Live(incidents) :
           /\ incidents'[id].createdAt = incidents[id].createdAt
           /\ incidents'[id].events = incidents[id].events \cap S
  PROVE  /\ OpenIncidents' = OpenIncidents \ Ended
         /\ Buffered' = {e \in Held(Buffered, Ended) : e.seq \in S}
<1>1. \A i, j \in DOMAIN incidents :
        IncidentKey(i, incidents[i]) = IncidentKey(j, incidents[j]) => i = j
  BY DEF IncidentKey
<1>2. OpenIncidents' = OpenIncidents \ Ended
  <2>1. ASSUME NEW k \in OpenIncidents'
        PROVE  k \in OpenIncidents \ Ended
    BY <1>1, Members, LiveAreIncidents DEF IncidentKey
  <2>2. ASSUME NEW k \in OpenIncidents \ Ended
        PROVE  k \in OpenIncidents'
    BY Members DEF IncidentKey
  <2> QED
    BY <2>1, <2>2
<1>3. ASSUME NEW e \in Buffered'
      PROVE  e \in {f \in Held(Buffered, Ended) : f.seq \in S}
  <2>1. PICK id \in Live(incidents) : \E s \in incidents[id].events \cap S : e = EventAt(id, s)
    BY Members DEF EventAt, IncidentKey
  <2>2. id \in DOMAIN incidents
    BY LiveAreIncidents
  <2>3. e \in Buffered /\ e.seq \in S /\ e.incident = IncidentKey(id, incidents[id])
    BY <2>1, <2>2, Members DEF EventAt
  <2>4. e.incident \notin Ended
    BY <1>1, <2>2, <2>3, Members
  <2> QED
    BY <2>3, <2>4 DEF Held
<1>4. ASSUME NEW e \in Held(Buffered, Ended), e.seq \in S
      PROVE  e \in Buffered'
  <2>1. PICK id \in DOMAIN incidents : \E s \in incidents[id].events : e = EventAt(id, s)
    BY Members DEF Held
  <2>2. e.seq \in incidents[id].events /\ e.incident = IncidentKey(id, incidents[id])
    BY <2>1 DEF EventAt
  <2>3. id \in Live(incidents)
    BY <2>2, Members DEF Held
  <2> QED
    BY <1>4, <2>1, <2>2, <2>3, Members DEF EventAt, IncidentKey
<1> QED
  BY <1>2, <1>3, <1>4 DEF Held

LEMMA ServeEffect ==
  ASSUME SourceInv, NEW c \in Cursor, Serve(c)
  PROVE  /\ OpenIncidents' = OpenIncidents \ Ended
         /\ Buffered' = {e \in Held(Buffered, Ended) : e.seq > ParseCursor(c)}
         /\ UNCHANGED <<now, epoch, nextID, nextSeq>>
<1> DEFINE S == {s \in Nat : s > ParseCursor(c)}
<1>1. UNCHANGED <<now, epoch, nextID, nextSeq>> /\ incidents' = Served(c)
  BY DEF Serve
<1>2. DOMAIN incidents' = Live(incidents)
  BY <1>1, ServedFacts
<1>3. \A id \in Live(incidents) :
        /\ incidents'[id].createdAt = incidents[id].createdAt
        /\ incidents'[id].events = incidents[id].events \cap S
  BY <1>1, ServedFacts, LiveAreIncidents DEF SourceInv, SourceTypeOK, Incident
<1>4. /\ OpenIncidents' = OpenIncidents \ Ended
      /\ Buffered' = {e \in Held(Buffered, Ended) : e.seq \in S}
  <2> HIDE DEF S
  <2>1. S \in SUBSET Nat
    BY DEF S
  <2> QED
    BY <1>2, <1>3, <2>1, ExpiryEffect
<1>5. \A e \in Buffered : e.seq \in Nat
  BY Members DEF EventAt, SourceInv, SourceTypeOK, Incident
<1> QED
  BY <1>1, <1>4, <1>5 DEF Held

LEMMA RefusalEffect ==
  ASSUME SourceInv, StartRefused
  PROVE  /\ OpenIncidents' = OpenIncidents \ Ended
         /\ Buffered' = Held(Buffered, Ended)
         /\ UNCHANGED <<now, epoch, nextID, nextSeq>>
<1>1. UNCHANGED <<now, epoch, nextID, nextSeq>> /\ incidents' = Expire(incidents)
  BY DEF StartRefused
<1>2. \A id \in Live(incidents) :
        /\ incidents'[id].createdAt = incidents[id].createdAt
        /\ incidents'[id].events = incidents[id].events \cap Nat
  BY <1>1, LiveAreIncidents DEF Expire, SourceInv, SourceTypeOK, Incident
<1>3. DOMAIN incidents' = Live(incidents)
  BY <1>1 DEF Expire
<1>4. /\ OpenIncidents' = OpenIncidents \ Ended
      /\ Buffered' = {e \in Held(Buffered, Ended) : e.seq \in Nat}
  BY <1>2, <1>3, ExpiryEffect
<1>5. \A e \in Buffered : e.seq \in Nat
  BY Members DEF EventAt, SourceInv, SourceTypeOK, Incident
<1> QED
  BY <1>1, <1>4, <1>5 DEF Held

\* The first event of the incident that Start would create now.
FirstEvent == [incident |-> [id |-> nextID + 1, createdAt |-> now], seq |-> nextSeq + 1]

LEMMA StartEffect ==
  ASSUME SourceInv, NEW ttl \in TTLs, Start(ttl)
  PROVE  /\ OpenIncidents' = (OpenIncidents \ Ended) \cup {FirstEvent.incident}
         /\ Buffered' = Held(Buffered, Ended) \cup {FirstEvent}
         /\ \A id \in DOMAIN incidents' :
              \/ id \in DOMAIN incidents /\ incidents'[id].createdAt = incidents[id].createdAt
              \/ id = nextID + 1 /\ incidents'[id].createdAt = now
         /\ nextID' = nextID + 1
         /\ nextSeq' = nextSeq + 1 /\ nextSeq < MaxSeq
         /\ UNCHANGED <<now, epoch>>
<1> DEFINE new == nextID + 1
<1>1. /\ nextID' = nextID + 1
      /\ nextSeq' = nextSeq + 1 /\ nextSeq < MaxSeq
      /\ UNCHANGED <<now, epoch>>
  BY DEF Start
<1>2. /\ DOMAIN incidents' = Live(incidents) \cup {new}
      /\ incidents'[new] = NewIncident(ttl, nextSeq + 1)
      /\ new \notin DOMAIN incidents
      /\ \A i \in Live(incidents) : incidents'[i] = incidents[i]
  BY LiveAreIncidents DEF Start, Expire, SourceInv, SourceTypeOK
<1>3. /\ incidents'[new].createdAt = now
      /\ incidents'[new].events = {nextSeq + 1}
  BY <1>2 DEF NewIncident
<1>4. \A i, j \in DOMAIN incidents :
        IncidentKey(i, incidents[i]) = IncidentKey(j, incidents[j]) => i = j
  BY DEF IncidentKey
<1>5. IncidentKey(new, incidents'[new]) = FirstEvent.incident
  BY <1>3 DEF IncidentKey, FirstEvent
<1>6. OpenIncidents' = (OpenIncidents \ Ended) \cup {FirstEvent.incident}
  <2>1. ASSUME NEW k \in OpenIncidents'
        PROVE  k \in (OpenIncidents \ Ended) \cup {FirstEvent.incident}
    <3>1. PICK i \in DOMAIN incidents' : k = IncidentKey(i, incidents'[i])
      BY Members
    <3>2. CASE i = new
      BY <1>5, <3>1, <3>2
    <3>3. CASE i \in Live(incidents)
      BY <1>2, <1>4, <3>1, <3>3, Members, LiveAreIncidents
    <3> QED
      BY <1>2, <3>1, <3>2, <3>3
  <2>2. ASSUME NEW k \in OpenIncidents \ Ended
        PROVE  k \in OpenIncidents'
    <3>1. PICK i \in Live(incidents) : k = IncidentKey(i, incidents[i])
      BY Members
    <3> QED
      BY <1>2, <3>1, Members
  <2>3. FirstEvent.incident \in OpenIncidents'
    BY <1>2, <1>5, Members
  <2> QED
    BY <2>1, <2>2, <2>3
<1>7. Buffered' = Held(Buffered, Ended) \cup {FirstEvent}
  <2>1. ASSUME NEW e \in Buffered'
        PROVE  e \in Held(Buffered, Ended) \cup {FirstEvent}
    <3>1. PICK i \in DOMAIN incidents' : \E s \in incidents'[i].events : e = EventAt(i, s)'
      BY <2>1, Members
    <3>2. CASE i = new
      BY <1>3, <1>5, <3>1, <3>2 DEF EventAt, FirstEvent
    <3>3. CASE i \in Live(incidents)
      <4>1. i \in DOMAIN incidents /\ \E s \in incidents[i].events : e = EventAt(i, s)
        BY <1>2, <3>1, <3>3, LiveAreIncidents DEF EventAt
      <4>2. e \in Buffered /\ e.incident = IncidentKey(i, incidents[i])
        BY <4>1, Members DEF EventAt
      <4>3. e.incident \notin Ended
        BY <1>4, <3>3, <4>1, <4>2, Members
      <4> QED
        BY <4>2, <4>3 DEF Held
    <3> QED
      BY <1>2, <3>1, <3>2, <3>3
  <2>2. ASSUME NEW e \in Held(Buffered, Ended)
        PROVE  e \in Buffered'
    <3>1. PICK i \in DOMAIN incidents : \E s \in incidents[i].events : e = EventAt(i, s)
      BY <2>2, Members DEF Held
    <3>2. i \in Live(incidents)
      BY <2>2, <3>1, Members DEF Held, EventAt
    <3> QED
      BY <1>2, <3>1, <3>2, Members DEF EventAt
  <2>3. FirstEvent \in Buffered'
    <3>1. \E i \in DOMAIN incidents' : \E s \in incidents'[i].events :
            FirstEvent = [incident |-> IncidentKey(i, incidents'[i]), seq |-> s]
      BY <1>2, <1>3, <1>5 DEF FirstEvent
    <3> QED
      BY <3>1, Members DEF EventAt
  <2> QED
    BY <2>1, <2>2, <2>3
<1>8. \A id \in DOMAIN incidents' :
        \/ id \in DOMAIN incidents /\ incidents'[id].createdAt = incidents[id].createdAt
        \/ id = nextID + 1 /\ incidents'[id].createdAt = now
  BY <1>2, <1>3, LiveAreIncidents
<1> QED
  BY <1>1, <1>6, <1>7, <1>8

-----------------------------------------------------------------------------
(* Each step of the source, and each delivery, is a step of the hand-off.   *)

LEMMA EndedAreOpen == Ended \subseteq OpenIncidents
  BY Members

\* The numbers tell a new event from every event logged before, in this
\* process and in earlier ones, and a new incident from every earlier one.
LEMMA FirstEventIsNew ==
  ASSUME SourceInv, NumbersOK, nextSeq < MaxSeq
  PROVE  /\ FirstEvent \in Event \ logged
         /\ \A f \in logged : f.incident # FirstEvent.incident
<1>1. FirstEvent \in Event
  BY ClockAssumption, EscalationsAssumption
     DEF FirstEvent, Event, NumbersOK, SourceInv, SourceTypeOK
<1>2. ASSUME NEW f \in logged, f.incident = FirstEvent.incident
      PROVE  FALSE
  <2>1. f.incident.createdAt = now /\ f.incident.id = nextID + 1
    BY <1>2 DEF FirstEvent
  <2> QED
    BY <2>1 DEF NumbersOK, SourceInv, SourceTypeOK
<1> QED
  BY <1>1, <1>2

LEMMA NextEventIsNew ==
  ASSUME SourceInv, NumbersOK, nextSeq < MaxSeq, NEW id \in DOMAIN incidents
  PROVE  /\ EventAt(id, nextSeq + 1) \in Event \ logged
         /\ EventAt(id, nextSeq + 1).incident \in OpenIncidents
<1> DEFINE e == EventAt(id, nextSeq + 1)
<1>1. /\ id \in 1..nextID
      /\ incidents[id].createdAt \in Nat
      /\ epoch <= incidents[id].createdAt /\ incidents[id].createdAt <= now
  BY DEF SourceInv, SourceTypeOK, Incident, NumbersOK
<1>2. /\ e.incident = [id |-> id, createdAt |-> incidents[id].createdAt]
      /\ e.seq = nextSeq + 1
  BY DEF EventAt, IncidentKey
<1>3. e \in Event
  BY <1>1, ClockAssumption, EscalationsAssumption
     DEF EventAt, IncidentKey, Event, NumbersOK, SourceInv, SourceTypeOK
<1>4. ASSUME e \in logged
      PROVE  FALSE
  <2> HIDE DEF e
  <2>1. e.seq <= nextSeq
    BY <1>1, <1>2, <1>4 DEF NumbersOK
  <2> QED
    BY <1>2, <2>1 DEF SourceInv, SourceTypeOK
<1>5. e.incident \in OpenIncidents
  BY Members DEF EventAt
<1> QED
  BY <1>3, <1>4, <1>5

LEMMA ReportRefines ==
  ASSUME SourceInv, NumbersOK, HistoryOK, Report
  PROVE  Handoff!Next
<1>1. logged' = logged \cup Buffered' /\ delivered' = delivered
  BY DEF Report
<1>2. ASSUME NEW ttl \in TTLs, Start(ttl)
      PROVE  Handoff!Next
  <2>1. /\ OpenIncidents' = (OpenIncidents \ Ended) \cup {FirstEvent.incident}
        /\ Buffered' = Held(Buffered, Ended) \cup {FirstEvent}
        /\ nextSeq < MaxSeq
    BY <1>2, StartEffect
  <2>2. /\ FirstEvent \in Event \ logged
        /\ \A f \in logged : f.incident # FirstEvent.incident
    BY <2>1, FirstEventIsNew
  <2>3. FirstEvent.incident \notin Ended
    <3>1. FirstEvent.incident \notin OpenIncidents
      BY Members DEF FirstEvent, IncidentKey, SourceInv, SourceTypeOK
    <3> QED
      BY <3>1, EndedAreOpen
  <2>4. logged' = logged \cup {FirstEvent}
    BY <1>1, <2>1 DEF HistoryOK, Held
  <2>5. Handoff!Log(Ended, FirstEvent)
    BY <1>1, <2>1, <2>2, <2>3, <2>4 DEF Handoff!Log, Handoff!OfOthers, Held
  <2> QED
    BY <2>2, <2>5, EndedAreOpen DEF Handoff!Next
<1>3. CASE StartRefused
  <2>1. /\ OpenIncidents' = OpenIncidents \ Ended
        /\ Buffered' = Held(Buffered, Ended)
    BY <1>3, RefusalEffect
  <2>2. logged' = logged
    BY <1>1, <2>1 DEF HistoryOK, Held
  <2>3. Handoff!Release(Ended, {})
    BY <1>1, <2>1, <2>2 DEF Handoff!Release, Handoff!OfOthers, Held
  <2> QED
    BY <2>3, EndedAreOpen DEF Handoff!Next
<1>4. ASSUME NEW id \in DOMAIN incidents, AddLog(id) \/ Close(id)
      PROVE  Handoff!Next
  <2> DEFINE e == EventAt(id, nextSeq + 1)
  <2>1. /\ OpenIncidents' = OpenIncidents
        /\ Buffered' = Buffered \cup {e}
        /\ nextSeq < MaxSeq
    BY <1>4, LogEffect
  <2>2. e \in Event \ logged /\ e.incident \in OpenIncidents
    BY <2>1, NextEventIsNew
  <2> HIDE DEF e
  <2>3. logged' = logged \cup {e}
    BY <1>1, <2>1 DEF HistoryOK
  <2>4. Handoff!Log({}, e)
    BY <1>1, <2>1, <2>2, <2>3 DEF Handoff!Log, Handoff!OfOthers
  <2> QED
    BY <2>2, <2>4 DEF Handoff!Next
<1> QED
  BY <1>2, <1>3, <1>4 DEF Report, SourceStep

\* A request prunes only what its cursor acknowledges.
LEMMA ServeRefines ==
  ASSUME SourceInv, NEW c \in Cursor, Serve(c), AckedBy(c) \subseteq delivered,
         UNCHANGED <<logged, delivered>>
  PROVE  Handoff!Next
<1> DEFINE pruned == {e \in Buffered : ~(e.seq > ParseCursor(c))}
<1>1. /\ OpenIncidents' = OpenIncidents \ Ended
      /\ Buffered' = {e \in Held(Buffered, Ended) : e.seq > ParseCursor(c)}
  BY ServeEffect
<1>2. \A e \in Buffered : e.seq \in Nat \ {0}
  BY Members DEF EventAt, SourceInv, SourceTypeOK, BufferMatchesAck, Incident
<1>3. pruned \subseteq AckedBy(c)
  BY <1>2 DEF AckedBy, ParseCursor, Cursor
<1>4. Handoff!Release(Ended, pruned)
  BY <1>1, <1>3 DEF Handoff!Release, Handoff!OfOthers, Held
<1> QED
  BY <1>4, EndedAreOpen DEF Handoff!Next

LEMMA RestartRefines ==
  ASSUME Restart
  PROVE  Handoff!Next
<1>1. OpenIncidents' = {} /\ Buffered' = {}
  BY Members DEF Restart, SourceRestart
<1>2. \A e \in Buffered : e.incident \in OpenIncidents
  BY Members DEF EventAt
<1>3. Handoff!Release(OpenIncidents, {})
  BY <1>1, <1>2 DEF Handoff!Release, Handoff!OfOthers, Restart
<1> QED
  BY <1>3 DEF Handoff!Next

LEMMA IngestRefines ==
  ASSUME CursorsOK, Ingest
  PROVE  Handoff!Next
<1>1. /\ delivered' = delivered \cup EventsIn(answer.notices)
      /\ EventsIn(answer.notices) \in SUBSET logged
      /\ logged' = logged
  BY DEF Ingest, CursorsOK
<1>2. OpenIncidents' = OpenIncidents /\ Buffered' = Buffered
  BY DEF Ingest, sourceVars, OpenIncidents, Buffered, EventsOf, IncidentKey
<1>3. Handoff!Deliver(EventsIn(answer.notices))
  BY <1>1, <1>2 DEF Handoff!Deliver
<1> QED
  BY <1>1, <1>3 DEF Handoff!Next

-----------------------------------------------------------------------------
(* The invariant, part by part.                                             *)

\* The hand-off alone loses nothing: it never resumes an incident that ended.
LEMMA HandoffLosesNothing ==
  ASSUME NoEventLost, Handoff!Next
  PROVE  NoEventLost'
<1>1. PICK ended \in SUBSET OpenIncidents :
        \/ \E e \in Event : Handoff!Log(ended, e)
        \/ \E events \in SUBSET Buffered : Handoff!Release(ended, events)
        \/ \E events \in SUBSET logged : Handoff!Deliver(events)
  BY DEF Handoff!Next
<1>2. ASSUME NEW e \in Event, Handoff!Log(ended, e)
      PROVE  NoEventLost'
  BY <1>2 DEF Handoff!Log, Handoff!OfOthers, NoEventLost
<1>3. ASSUME NEW events \in SUBSET Buffered, Handoff!Release(ended, events)
      PROVE  NoEventLost'
  BY <1>3 DEF Handoff!Release, Handoff!OfOthers, NoEventLost
<1>4. ASSUME NEW events \in SUBSET logged, Handoff!Deliver(events)
      PROVE  NoEventLost'
  BY <1>4 DEF Handoff!Deliver, NoEventLost
<1> QED
  BY <1>1, <1>2, <1>3, <1>4

\* What every step does as far as cursors can tell: this process goes on and
\* buffers only later events, or another one begins at a later time.
SourceMoves ==
  \/ /\ epoch' = epoch /\ now <= now' /\ nextSeq <= nextSeq'
     /\ \A e \in Buffered' : e \in Buffered \/ e.seq > nextSeq
  \/ now < epoch' /\ epoch' <= now'

LEMMA SourceUnchanged ==
  ASSUME UNCHANGED <<epoch, nextID, nextSeq, incidents>>
  PROVE  OpenIncidents' = OpenIncidents /\ Buffered' = Buffered
  BY DEF OpenIncidents, Buffered, EventsOf, IncidentKey

LEMMA EveryStepMoves ==
  ASSUME SourceInv, CursorsOK, [Next]_vars
  PROVE  SourceMoves
<1> USE DEF SourceInv, SourceTypeOK
<1>1. CASE UNCHANGED sourceVars
  BY <1>1, SourceUnchanged DEF SourceMoves, sourceVars
<1>2. CASE Tick
  BY <1>2, SourceUnchanged DEF SourceMoves, Tick, SourceTick, Advance
<1>3. CASE Restart
  BY <1>3 DEF SourceMoves, Restart, SourceRestart, Advance
<1>4. CASE Report
  <2>1. ASSUME NEW ttl \in TTLs, Start(ttl)
        PROVE  SourceMoves
    BY <2>1, StartEffect DEF SourceMoves, Held, FirstEvent
  <2>2. CASE StartRefused
    BY <2>2, RefusalEffect DEF SourceMoves, Held
  <2>3. ASSUME NEW id \in DOMAIN incidents, AddLog(id) \/ Close(id)
        PROVE  SourceMoves
    BY <2>3, LogEffect DEF SourceMoves, EventAt
  <2> QED
    BY <1>4, <2>1, <2>2, <2>3 DEF Report, SourceStep
<1>5. ASSUME NEW c \in Cursor, Serve(c)
      PROVE  SourceMoves
  BY <1>5, ServeEffect DEF SourceMoves, Held
<1>6. CASE ServePoll
  BY <1>5, <1>6 DEF ServePoll, CursorsOK, CursorOK
<1>7. ASSUME NEW c \in late, ServeLate(c)
      PROVE  SourceMoves
  BY <1>5, <1>7 DEF ServeLate, CursorsOK, CursorOK
<1>8. CASE Next
  BY <1>1, <1>2, <1>3, <1>4, <1>6, <1>7, <1>8
     DEF Next, CollectNext, Poll, Abandon, Ingest, Crash, Operate
<1> QED
  BY <1>1, <1>8 DEF vars

\* A cursor stays one, and never comes to acknowledge more events.
LEMMA CursorsStayOK ==
  ASSUME SourceInv, SourceInv', SourceMoves, NEW c, CursorOK(c)
  PROVE  CursorOK(c)' /\ AckedBy(c)' \subseteq AckedBy(c)
<1> USE DEF SourceInv, SourceTypeOK
<1>1. c.epoch \in Nat /\ c.seq \in Nat
  BY DEF CursorOK, Cursor
<1>2. CASE /\ epoch' = epoch /\ now <= now' /\ nextSeq <= nextSeq'
           /\ \A e \in Buffered' : e \in Buffered \/ e.seq > nextSeq
  <2>1. \A e \in Buffered' : e.seq \in Nat
    BY Members DEF EventAt, Incident
  <2> QED
    BY <1>1, <1>2, <2>1 DEF CursorOK, AckedBy
<1>3. CASE now < epoch' /\ epoch' <= now'
  BY <1>1, <1>3 DEF CursorOK, AckedBy
<1> QED
  BY <1>2, <1>3 DEF SourceMoves

\* The answer to a request carries all that is still buffered.
LEMMA DocumentCarriesAll ==
  ASSUME SourceInv, NEW c \in Cursor, Serve(c)
  PROVE  EventsIn(Document(c, c).notices) = Buffered'
<1> DEFINE seq == ParseCursor(c)
<1>1. SourceInv' /\ incidents' = Served(c)
  BY ServeKeepsInv DEF Serve
<1>2. seq \in Nat
  BY DEF ParseCursor, Cursor
<1>3. Document(c, c).notices = {Notice(id, incidents'[id], seq) :
                                  id \in {i \in DOMAIN incidents' : Shown(incidents'[i], seq)}}
  BY <1>1 DEF Document
<1>4. \A e \in Buffered' : e.seq > seq
  BY ServeEffect
<1>5. \A id \in DOMAIN incidents' : \A s \in incidents'[id].events :
        /\ s > seq
        /\ Shown(incidents'[id], seq)
  <2> SUFFICES ASSUME NEW id \in DOMAIN incidents', NEW s \in incidents'[id].events
               PROVE  s > seq /\ Shown(incidents'[id], seq)
    OBVIOUS
  <2>1. [incident |-> IncidentKey(id, incidents'[id]), seq |-> s] \in Buffered'
    BY Members DEF EventAt
  <2>2. s > seq
    BY <1>4, <2>1
  <2>3. /\ incidents'[id].events \subseteq (incidents'[id].ackedSeq + 1)..incidents'[id].lastSeq
        /\ incidents'[id] \in Incident
    BY <1>1 DEF SourceInv, SourceTypeOK, BufferMatchesAck
  <2>4. s <= incidents'[id].lastSeq
    BY <2>3 DEF Incident
  <2> QED
    BY <1>2, <2>2, <2>3, <2>4 DEF Shown, Incident
<1>6. ASSUME NEW e \in Buffered'
      PROVE  e \in EventsIn(Document(c, c).notices)
  <2>1. PICK id \in DOMAIN incidents' : \E s \in incidents'[id].events : e = EventAt(id, s)'
    BY <1>6, Members
  <2>2. PICK s \in incidents'[id].events :
          e = [incident |-> IncidentKey(id, incidents'[id]), seq |-> s]
    BY <2>1 DEF EventAt
  <2> DEFINE n == Notice(id, incidents'[id], seq)
  <2>3. n \in Document(c, c).notices
    BY <1>3, <1>5, <2>2
  <2>4. s \in n.events /\ KeyOf(n) = IncidentKey(id, incidents'[id])
    BY <1>5, <2>2 DEF Notice, KeyOf, IncidentKey
  <2> HIDE DEF n
  <2> QED
    BY <2>2, <2>3, <2>4 DEF EventsIn
<1>7. ASSUME NEW e \in EventsIn(Document(c, c).notices)
      PROVE  e \in Buffered'
  <2>1. PICK n \in Document(c, c).notices : \E s \in n.events : e = [incident |-> KeyOf(n), seq |-> s]
    BY <1>7 DEF EventsIn
  <2>2. PICK id \in DOMAIN incidents' : n = Notice(id, incidents'[id], seq)
    BY <1>3, <2>1
  <2>3. KeyOf(n) = IncidentKey(id, incidents'[id]) /\ n.events \subseteq incidents'[id].events
    BY <2>2 DEF Notice, KeyOf, IncidentKey
  <2> QED
    BY <2>1, <2>3, Members DEF EventAt
<1> QED
  BY <1>6, <1>7

LEMMA NumbersStayOK ==
  ASSUME SourceInv, SourceInv', NumbersOK, HistoryOK, CursorsOK, [Next]_vars
  PROVE  NumbersOK' /\ HistoryOK'
<1> USE DEF SourceInv, SourceTypeOK
<1>0. /\ \A e \in logged : e.incident.createdAt \in Nat
      /\ \A id \in DOMAIN incidents : incidents[id].createdAt \in Nat
  BY ClockAssumption DEF NumbersOK, Event, Incident
<1>1. CASE UNCHANGED <<sourceVars, logged>> /\ delivered' \subseteq logged
  <2>1. Buffered' = Buffered
    BY <1>1, SourceUnchanged DEF sourceVars
  <2> QED
    BY <1>1, <2>1 DEF sourceVars, NumbersOK, HistoryOK
<1>2. CASE Tick
  <2>1. Buffered' = Buffered
    BY <1>2, SourceUnchanged DEF Tick, SourceTick
  <2> QED
    BY <1>0, <1>2, <2>1, ClockAssumption DEF Tick, SourceTick, Advance, NumbersOK, HistoryOK
<1>3. CASE Restart
  <2>1. Buffered' = {}
    BY <1>3, Members DEF Restart, SourceRestart
  <2> QED
    BY <1>0, <1>3, <2>1, ClockAssumption, EscalationsAssumption
       DEF Restart, SourceRestart, Advance, NumbersOK, HistoryOK
<1>4. CASE Report
  <2>1. logged' = logged \cup Buffered' /\ delivered' = delivered
    BY <1>4 DEF Report
  <2>2. ASSUME NEW ttl \in TTLs, Start(ttl)
        PROVE  NumbersOK' /\ HistoryOK'
    <3>1. /\ logged' = logged \cup {FirstEvent}
          /\ FirstEvent \in Event
          /\ nextSeq < MaxSeq /\ nextSeq' = nextSeq + 1 /\ nextID' = nextID + 1
          /\ UNCHANGED <<now, epoch>>
      BY <2>1, <2>2, StartEffect, FirstEventIsNew DEF HistoryOK, Held
    <3>2. FirstEvent.incident.createdAt = now /\ FirstEvent.incident.id = nextID + 1
      BY DEF FirstEvent
    <3>3. FirstEvent.seq = nextSeq + 1
      BY DEF FirstEvent
    <3>4. \A id \in DOMAIN incidents' :
            \/ id \in DOMAIN incidents /\ incidents'[id].createdAt = incidents[id].createdAt
            \/ id = nextID + 1 /\ incidents'[id].createdAt = now
      BY <2>2, StartEffect
    <3>5. \A e \in logged' :
            /\ e.incident.createdAt <= now
            /\ epoch <= e.incident.createdAt =>
                 e.incident.id <= nextID + 1 /\ e.seq <= nextSeq + 1
      <4> SUFFICES ASSUME NEW e \in logged'
                   PROVE  /\ e.incident.createdAt <= now
                          /\ epoch <= e.incident.createdAt =>
                               e.incident.id <= nextID + 1 /\ e.seq <= nextSeq + 1
        OBVIOUS
      <4>1. CASE e \in logged
        <5>1. e.incident.id \in Nat /\ e.seq \in Nat
          BY <4>1, EscalationsAssumption DEF NumbersOK, Event
        <5> QED
          BY <4>1, <5>1 DEF NumbersOK
      <4>2. CASE e = FirstEvent
        BY <3>2, <3>3, <4>2
      <4> QED
        BY <3>1, <4>1, <4>2
    <3>6. /\ nextSeq + 1 <= MaxSeq /\ nextID + 1 <= nextSeq + 1
          /\ \A id \in DOMAIN incidents' :
               epoch <= incidents'[id].createdAt /\ incidents'[id].createdAt <= now
      BY <3>1, <3>4, EscalationsAssumption DEF NumbersOK
    <3>7. NumbersOK'
      <4> HIDE DEF FirstEvent, SourceInv
      <4> QED
        BY <3>1, <3>5, <3>6 DEF NumbersOK
    <3> QED
      BY <2>1, <3>7 DEF HistoryOK
  <2>3. CASE StartRefused
    <3>1. logged' = logged
      BY <2>1, <2>3, RefusalEffect DEF HistoryOK, Held
    <3>2. \A id \in DOMAIN incidents' :
            id \in DOMAIN incidents /\ incidents'[id] = incidents[id]
      BY <2>3 DEF StartRefused, Expire, Live
    <3> QED
      BY <2>1, <2>3, <3>1, <3>2 DEF StartRefused, NumbersOK, HistoryOK
  <2>4. ASSUME NEW id \in DOMAIN incidents, AddLog(id) \/ Close(id)
        PROVE  NumbersOK' /\ HistoryOK'
    <3> DEFINE e == EventAt(id, nextSeq + 1)
    <3>1. /\ logged' = logged \cup {e}
          /\ e \in Event
          /\ nextSeq < MaxSeq /\ nextSeq' = nextSeq + 1
          /\ UNCHANGED <<now, epoch, nextID>>
      BY <2>1, <2>4, LogEffect, NextEventIsNew DEF HistoryOK
    <3>2. /\ e.incident.createdAt = incidents[id].createdAt
          /\ e.incident.id = id /\ e.seq = nextSeq + 1
      BY DEF EventAt, IncidentKey
    <3>3. /\ e.incident.createdAt <= now
          /\ e.incident.id <= nextID
      BY <3>2 DEF NumbersOK
    <3>4. /\ DOMAIN incidents' = DOMAIN incidents
          /\ \A i \in DOMAIN incidents : incidents'[i].createdAt = incidents[i].createdAt
      BY <2>4, LogEffect
    <3> HIDE DEF e
    <3>5. \A f \in logged' :
            /\ f.incident.createdAt <= now
            /\ epoch <= f.incident.createdAt =>
                 f.incident.id <= nextID /\ f.seq <= nextSeq + 1
      <4> SUFFICES ASSUME NEW f \in logged'
                   PROVE  /\ f.incident.createdAt <= now
                          /\ epoch <= f.incident.createdAt =>
                               f.incident.id <= nextID /\ f.seq <= nextSeq + 1
        OBVIOUS
      <4>1. CASE f \in logged
        <5>1. f.seq \in Nat
          BY <4>1, EscalationsAssumption DEF NumbersOK, Event
        <5> QED
          BY <4>1, <5>1 DEF NumbersOK
      <4>2. CASE f = e
        BY <3>2, <3>3, <4>2
      <4> QED
        BY <3>1, <4>1, <4>2
    <3>6. /\ nextSeq + 1 <= MaxSeq /\ nextID <= nextSeq + 1
          /\ \A i \in DOMAIN incidents' :
               epoch <= incidents'[i].createdAt /\ incidents'[i].createdAt <= now
      BY <3>1, <3>4, EscalationsAssumption DEF NumbersOK
    <3>7. NumbersOK'
      <4> HIDE DEF SourceInv
      <4> QED
        BY <3>1, <3>5, <3>6 DEF NumbersOK
    <3> QED
      BY <2>1, <3>7 DEF HistoryOK
  <2> QED
    BY <1>4, <2>2, <2>3, <2>4 DEF Report, SourceStep
<1>5. ASSUME NEW c \in Cursor, Serve(c), UNCHANGED <<logged, delivered>>
      PROVE  NumbersOK' /\ HistoryOK'
  <2>1. /\ Buffered' \subseteq Buffered
        /\ UNCHANGED <<now, epoch, nextID, nextSeq>>
    BY <1>5, ServeEffect DEF Held
  <2>2. \A id \in DOMAIN incidents' :
          id \in DOMAIN incidents /\ incidents'[id].createdAt = incidents[id].createdAt
    BY <1>5, ServedFacts DEF Serve
  <2> QED
    BY <1>5, <2>1, <2>2 DEF NumbersOK, HistoryOK
<1>6. CASE ServePoll
  BY <1>5, <1>6 DEF ServePoll, CursorsOK, CursorOK
<1>7. ASSUME NEW c \in late, ServeLate(c)
      PROVE  NumbersOK' /\ HistoryOK'
  BY <1>5, <1>7 DEF ServeLate, CursorsOK, CursorOK
<1>8. CASE Ingest
  BY <1>1, <1>8 DEF Ingest, CursorsOK, HistoryOK
<1>9. CASE Next
  BY <1>1, <1>2, <1>3, <1>4, <1>6, <1>7, <1>8, <1>9
     DEF Next, CollectNext, Poll, Abandon, Crash, Operate, HistoryOK
<1> QED
  BY <1>1, <1>9 DEF vars, HistoryOK

\* The empty cursor acknowledges nothing, and no answer carries nothing.
LEMMA NoCursorOK ==
  ASSUME SourceInv
  PROVE  CursorOK(NoCursor) /\ AckedBy(NoCursor) = {} /\ EventsIn(NoDocument.notices) = {}
<1>1. \A e \in Buffered : e.seq \in Nat \ {0}
  BY Members DEF EventAt, SourceInv, SourceTypeOK, BufferMatchesAck, Incident
<1>2. CursorOK(NoCursor) /\ AckedBy(NoCursor) = {}
  BY <1>1 DEF CursorOK, AckedBy, NoCursor, Cursor, SourceInv, SourceTypeOK
<1>3. EventsIn(NoDocument.notices) = {}
  BY DEF EventsIn, NoDocument
<1> QED
  BY <1>2, <1>3

LEMMA NoCursorStaysOK ==
  ASSUME SourceInv'
  PROVE  /\ CursorOK(NoCursor)' /\ AckedBy(NoCursor)' = {}
         /\ NoDocument.watermark = NoCursor /\ EventsIn(NoDocument.notices) = {}
<1>1. \A e \in Buffered' : e.seq \in Nat \ {0}
  BY Members DEF EventAt, SourceInv, SourceTypeOK, BufferMatchesAck, Incident
<1>2. CursorOK(NoCursor)' /\ AckedBy(NoCursor)' = {}
  BY <1>1 DEF CursorOK, AckedBy, NoCursor, Cursor, SourceInv, SourceTypeOK
<1>3. NoDocument.watermark = NoCursor /\ EventsIn(NoDocument.notices) = {}
  BY DEF EventsIn, NoDocument
<1> QED
  BY <1>2, <1>3

LEMMA CursorsInvStep ==
  ASSUME SourceInv, SourceInv', NumbersOK, HistoryOK, HistoryOK', CursorsOK, [Next]_vars
  PROVE  CursorsOK'
<1>1. /\ \A c \in late \cup {watermark, answer.watermark} :
           CursorOK(c)' /\ AckedBy(c)' \subseteq AckedBy(c)
      /\ delivered \subseteq delivered' /\ logged \subseteq logged'
  <2>1. SourceMoves
    BY EveryStepMoves
  <2>2. \A c \in late \cup {watermark, answer.watermark} : CursorOK(c)
    BY DEF CursorsOK
  <2>3. delivered \subseteq delivered' /\ logged \subseteq logged'
    BY DEF Next, CollectNext, Tick, Restart, Report, Poll, ServePoll, Abandon, ServeLate,
           Ingest, Crash, Operate, vars
  <2> QED
    BY <2>1, <2>2, <2>3, CursorsStayOK
<1>2. CASE UNCHANGED <<watermark, answer>> /\ late' \subseteq late
  BY <1>1, <1>2 DEF CursorsOK, CursorOK, AckedBy
<1>3. CASE /\ watermark' \in {watermark, NoCursor}
           /\ answer' = NoDocument
           /\ late' \subseteq late \cup {watermark}
  BY <1>1, <1>3, NoCursorStaysOK DEF CursorsOK, CursorOK, AckedBy
<1>4. CASE ServePoll
  <2>1. watermark \in Cursor /\ Serve(watermark)
    BY <1>4 DEF ServePoll, CursorsOK, CursorOK
  <2>2. EventsIn(answer'.notices) = Buffered'
    BY <1>4, <2>1, DocumentCarriesAll DEF ServePoll
  <2>3. UNCHANGED <<now, epoch, nextID, nextSeq, watermark, late, delivered, logged>>
    BY <1>4, <2>1 DEF Serve, ServePoll
  <2>4. answer'.watermark = FormatCursor(nextSeq)
    BY <1>4 DEF ServePoll, Document
  <2>5. CursorOK(answer.watermark)'
    BY <2>3, <2>4, NoCursorStaysOK
       DEF FormatCursor, CursorOK, Cursor, NumbersOK, SourceInv, SourceTypeOK
  <2>6. AckedBy(answer.watermark)' \subseteq EventsIn(answer'.notices)
    BY <2>2 DEF AckedBy
  <2>7. \A c \in late \cup {watermark} : CursorOK(c)' /\ AckedBy(c)' \subseteq delivered'
    BY <1>1, <2>3 DEF CursorsOK
  <2>8. EventsIn(answer'.notices) \subseteq logged'
    BY <2>2 DEF HistoryOK
  <2>9. CursorOK(watermark)' /\ AckedBy(watermark)' \subseteq delivered'
    BY <2>3, <2>7 DEF CursorOK, AckedBy
  <2> QED
    BY <2>3, <2>5, <2>6, <2>7, <2>8, <2>9 DEF CursorsOK
<1>5. CASE Ingest
  <2>1. /\ watermark' = answer.watermark /\ answer' = NoDocument /\ late' = late
        /\ delivered' = delivered \cup EventsIn(answer.notices)
    BY <1>5 DEF Ingest
  <2> QED
    BY <1>1, <2>1, NoCursorStaysOK DEF CursorsOK, CursorOK, AckedBy
<1>6. CASE Abandon \/ Crash
  BY <1>3, <1>6 DEF Abandon, Crash, MayStayUnderWay
<1>7. CASE Next
  BY <1>2, <1>4, <1>5, <1>6, <1>7
     DEF Next, CollectNext, Tick, Restart, Report, Poll, ServeLate, Operate, pullVars
<1> QED
  BY <1>2, <1>7 DEF vars, pullVars

-----------------------------------------------------------------------------
(* The theorems.                                                            *)

LEMMA PullInvInit == Init => PullInv /\ Handoff!Init
<1> SUFFICES ASSUME Init
             PROVE  PullInv /\ Handoff!Init
  OBVIOUS
<1>1. SourceInv /\ incidents = [id \in {} |-> NewIncident(0, 0)]
  BY SourceInvInit DEF Init, SourceInit
<1>2. Buffered = {} /\ OpenIncidents = {}
  BY <1>1, Members
<1>3. NumbersOK
  BY <1>1, ClockAssumption, EscalationsAssumption
     DEF Init, SourceInit, ClockInit, NumbersOK
<1>4. CursorsOK
  BY <1>1, NoCursorOK DEF Init, CursorsOK, NoDocument
<1> QED
  BY <1>1, <1>2, <1>3, <1>4 DEF Init, PullInv, HistoryOK, NoEventLost, Handoff!Init

LEMMA StepIsSourceStep ==
  ASSUME CursorsOK, [Next]_vars
  PROVE  [SourceAction]_sourceVars
  BY DEF Next, CollectNext, Tick, Restart, Report, Poll, ServePoll, Abandon, ServeLate,
         Ingest, Crash, Operate, vars, SourceAction, CursorsOK, CursorOK

LEMMA StepIsHandoffStep ==
  ASSUME PullInv, [Next]_vars
  PROVE  [Handoff!Next]_<<OpenIncidents, logged, Buffered, delivered>>
<1> USE DEF PullInv
<1>1. CASE UNCHANGED <<epoch, nextID, nextSeq, incidents, logged, delivered>>
  BY <1>1, SourceUnchanged
<1>2. CASE Restart
  BY <1>2, RestartRefines
<1>3. CASE Report
  BY <1>3, ReportRefines
<1>4. CASE ServePoll
  BY <1>4, ServeRefines DEF ServePoll, CursorsOK, CursorOK
<1>5. ASSUME NEW c \in late, ServeLate(c)
      PROVE  Handoff!Next
  BY <1>5, ServeRefines DEF ServeLate, CursorsOK, CursorOK
<1>6. CASE Ingest
  BY <1>6, IngestRefines
<1>7. CASE Next
  BY <1>1, <1>2, <1>3, <1>4, <1>5, <1>6, <1>7
     DEF Next, CollectNext, Tick, SourceTick, Poll, Abandon, Crash, Operate, sourceVars
<1> QED
  BY <1>1, <1>7 DEF vars, sourceVars

LEMMA PullInvStep == PullInv /\ [Next]_vars => PullInv'
<1> SUFFICES ASSUME PullInv, [Next]_vars
             PROVE  PullInv'
  OBVIOUS
<1>1. SourceInv'
  BY StepIsSourceStep, SourceInvStep DEF PullInv
<1>2. NumbersOK' /\ HistoryOK'
  BY <1>1, NumbersStayOK DEF PullInv
<1>3. CursorsOK'
  BY <1>1, <1>2, CursorsInvStep DEF PullInv
<1>4. NoEventLost'
  <2>1. CASE Handoff!Next
    BY <2>1, HandoffLosesNothing DEF PullInv
  <2>2. CASE UNCHANGED <<OpenIncidents, logged, Buffered, delivered>>
    BY <2>2 DEF PullInv, NoEventLost
  <2> QED
    BY <2>1, <2>2, StepIsHandoffStep
<1> QED
  BY <1>1, <1>2, <1>3, <1>4 DEF PullInv

LEMMA PullInvariant == Spec => []PullInv
  BY PullInvInit, PullInvStep, PTL DEF Spec

\* The watermark discipline of the scraper (store first, then advance; send it
\* as after and ack) and the epochs of the source lose no event, through lost
\* and late requests, restarts, crashes, operators and sweeps.
THEOREM NothingIsLost == Spec => []NoEventLost
  BY PullInvariant, PTL DEF PullInv

\* Escalation collection implements the hand-off.
THEOREM CollectionIsHandoff == Spec => HandoffSpec
<1>1. PullInv /\ [Next]_vars => [Handoff!Next]_Handoff!handoffVars
  BY StepIsHandoffStep DEF Handoff!handoffVars
<1> QED
  BY <1>1, PullInvariant, PullInvInit, PTL DEF Spec, HandoffSpec, Handoff!Spec

-----------------------------------------------------------------------------
(* Types, the store's included.                                             *)

LEMMA OperateType ==
  ASSUME StoreTypeOK, now \in Nat, Operate
  PROVE  StoreTypeOK'
  BY AcknowledgeType, SweepType DEF Operate

\* Every variable of the composed system keeps its type (the fields of
\* Escalations, MemoryStore and the puller's closure).
THEOREM CollectionTypes == Spec => []TypeOK
<1>1. Init => TypeOK
  <2> SUFFICES ASSUME Init
               PROVE  TypeOK
    OBVIOUS
  <2>1. SourceTypeOK /\ watermark = NoCursor /\ NoCursor \in Cursor
    BY SourceInvInit DEF Init, SourceInv, NoCursor, Cursor
  <2>2. StoreTypeOK
    BY DEF Init, StoreInit, StoreTypeOK, NoIncidents
  <2> QED
    BY <2>1, <2>2, PullAssumption DEF Init, TypeOK, NoDocument
<1>2. PullInv /\ PullInv' /\ TypeOK /\ [Next]_vars => TypeOK'
  <2> SUFFICES ASSUME PullInv, PullInv', TypeOK, [Next]_vars
               PROVE  TypeOK'
    OBVIOUS
  <2>1. /\ SourceTypeOK' /\ watermark' \in Cursor /\ answer'.watermark \in Cursor
        /\ late' \subseteq Cursor /\ logged' \subseteq Event /\ delivered' \subseteq Event
    BY DEF PullInv, SourceInv, CursorsOK, CursorOK, NumbersOK, HistoryOK
  <2>2. poll' \in {"idle", "sent", "served"} /\ crashes' \in 0..MaxCrashes
    BY PullAssumption
       DEF TypeOK, Next, CollectNext, Tick, Restart, Report, Poll, ServePoll, Abandon,
           ServeLate, Ingest, Crash, Operate, vars, pullVars
  <2>3. answer.notices \subseteq NoticeType /\ now \in Nat /\ StoreTypeOK
    BY DEF TypeOK, NoticeType, Status, SourceTypeOK
  <2>4. answer'.notices \subseteq NoticeType
    <3>1. CASE ServePoll
      <4>1. watermark \in Cursor /\ Serve(watermark)
        BY <3>1 DEF ServePoll, TypeOK
      <4>2. \A id \in DOMAIN incidents' : id \in Nat /\ incidents'[id] \in Incident
        BY <2>1 DEF SourceTypeOK
      <4>3. answer'.notices \subseteq
              {Notice(id, incidents'[id], ParseCursor(watermark)) : id \in DOMAIN incidents'}
        BY <3>1, <4>1 DEF ServePoll, Serve, Document
      <4>4. \A id \in DOMAIN incidents' :
              Notice(id, incidents'[id], ParseCursor(watermark)) \in NoticeType
        BY <4>2 DEF Notice, NoticeType, Incident, Status
      <4> QED
        BY <4>3, <4>4
    <3>2. CASE answer' \in {answer, NoDocument}
      BY <2>3, <3>2 DEF NoDocument
    <3> QED
      BY <3>1, <3>2
         DEF Next, CollectNext, Tick, Restart, Report, Poll, Abandon,
             ServeLate, Ingest, Crash, Operate, vars, pullVars
  <2>5. StoreTypeOK'
    <3>1. CASE Ingest
      BY <2>3, <3>1, IngestType DEF Ingest
    <3>2. CASE Crash
      <4>1. PICK done \in 0..nextID : StoreCrash({n \in answer.notices : n.id <= done}, now)
        BY <3>2 DEF Crash
      <4> QED
        BY <2>3, <4>1, CrashType
    <3>3. CASE Operate
      BY <2>3, <3>3, OperateType
    <3>4. CASE UNCHANGED storeVars
      BY <2>3, <3>4 DEF storeVars, StoreTypeOK
    <3> QED
      BY <3>1, <3>2, <3>3, <3>4
         DEF Next, CollectNext, Tick, Restart, Report, Poll, ServePoll, Abandon, ServeLate, vars
  <2> QED
    BY <2>1, <2>2, <2>4, <2>5 DEF TypeOK, NoticeType, Status
<1> QED
  BY <1>1, <1>2, PullInvariant, PTL DEF Spec

-----------------------------------------------------------------------------
(* The journal.                                                             *)

\* A crash at any moment of collection, the middle of an ingest included,
\* loses no incident and revives none: the journal replays to the store.
THEOREM JournalReplaysCollection == Spec => []ReplayEqualsLive
<1>1. Init => SameUnswept(journal, stored, now)
  BY SameIsSame DEF Init, StoreInit
<1>2. PullInv /\ TypeOK /\ TypeOK' /\ SameUnswept(journal, stored, now) /\ [Next]_vars
        => SameUnswept(journal, stored, now)'
  <2> SUFFICES ASSUME PullInv, TypeOK, TypeOK', SameUnswept(journal, stored, now), [Next]_vars
               PROVE  SameUnswept(journal, stored, now)'
    OBVIOUS
  <2>1. /\ StoreTypeOK /\ now \in Nat /\ now' \in Nat
        /\ answer.notices \in SUBSET NoticeType
    BY DEF TypeOK, SourceTypeOK, NoticeType, Status
  <2>2. CASE UNCHANGED storeVars
    <3>1. [SourceAction]_sourceVars
      BY StepIsSourceStep DEF PullInv
    <3>2. now' \in {now, now + 1}
      BY <3>1 DEF SourceAction, SourceTick, SourceRestart, Advance, SourceStep, Start,
                  StartRefused, AddLog, Close, Serve, sourceVars
    <3>3. now <= now'
      BY <2>1, <3>2
    <3> QED
      BY <2>1, <2>2, <3>3, ClockKeepsReplay
  <2>3. CASE Ingest
    BY <2>1, <2>3, IngestKeepsReplay DEF Ingest, sourceVars
  <2>4. CASE Crash
    BY <2>4, CrashMakesReplay DEF Crash
  <2>5. ASSUME NEW k \in DOMAIN stored, AcknowledgeIncident(k), UNCHANGED sourceVars
        PROVE  SameUnswept(journal, stored, now)'
    BY <2>1, <2>5, AcknowledgeKeepsReplay DEF sourceVars
  <2>6. CASE StateIngestSweep /\ UNCHANGED sourceVars
    BY <2>1, <2>6, SweepKeepsReplay DEF sourceVars
  <2> QED
    BY <2>2, <2>3, <2>4, <2>5, <2>6
       DEF Next, CollectNext, Tick, Restart, Report, Poll, ServePoll, Abandon, ServeLate,
           Operate, vars
<1>3. TypeOK /\ SameUnswept(journal, stored, now) => ReplayEqualsLive
  BY ReplayIsSame DEF TypeOK
<1> QED
  BY <1>1, <1>2, <1>3, PullInvariant, CollectionTypes, PTL DEF Spec

-----------------------------------------------------------------------------
(* The store follows the source.                                            *)

\* The status a document carries for an incident, later: only the source's
\* own step from closed to acknowledged is no news.
Carried(status, inc) ==
  \/ status = inc.status
  \/ status = "closed" /\ inc.status = "acknowledged"

\* The status the store keeps: the one it was told, or an operator's.
Agrees(status, inc) == Carried(status, inc) \/ status = "acknowledged"

\* Stored incidents know this one in the state the source has it in, or it was
\* swept after its close.
Follows(incs, k, inc) == IF k \in DOMAIN incs THEN Agrees(incs[k].status, inc)
                                              ELSE inc.status # "open"

\* The newest event of an incident, the one its state is told with.
LastEvent(id) == EventAt(id, incidents[id].lastSeq)

LastIsLogged == \A id \in DOMAIN incidents : LastEvent(id) \in logged

\* Once the newest event of an incident was delivered, the store follows it.
StoreFollows ==
  \A id \in DOMAIN incidents :
    LastEvent(id) \in delivered => Follows(stored, IncidentKey(id, incidents[id]), incidents[id])

\* So does the answer under way: it is newer than all that was delivered.
AnswerFollows ==
  \A n \in answer.notices : \A id \in DOMAIN incidents :
    KeyOf(n) = IncidentKey(id, incidents[id])
      /\ LastEvent(id) \in delivered \cup EventsIn(answer.notices)
    => Carried(n.status, incidents[id])

\* A document never shows an incident it has no event of.
NoticesBringNews == \A n \in answer.notices : n.events # {}

FollowsInv == LastIsLogged /\ StoreFollows /\ AnswerFollows /\ NoticesBringNews

\* A sweep drops closed incidents only.
LEMMA SweepFollows ==
  ASSUME NEW incs, NEW k, NEW inc, NEW at, Follows(incs, k, inc)
  PROVE  Follows(SweepClosed(incs, at), k, inc)
  BY DEF Follows, Agrees, Carried, SweepClosed, Unswept

\* A document that carries the incident's state brings the store to it.
LEMMA MergeFollows ==
  ASSUME NEW base, NEW incs, NEW notices, NEW at, NEW k, NEW inc,
         \A n \in notices : KeyOf(n) = k => Carried(n.status, inc),
         (\E n \in notices : KeyOf(n) = k) \/ Follows(base, k, inc)
  PROVE  Follows(Merge(base, incs, notices, at), k, inc)
<1> DEFINE m == Merge(base, incs, notices, at)
<1>1. CASE \E n \in notices : KeyOf(n) = k
  <2> DEFINE n == CHOOSE x \in notices : KeyOf(x) = k
  <2>1. n \in notices /\ KeyOf(n) = k
    BY <1>1
  <2>2. k \in DOMAIN m /\ m[k] = Upsert(incs, n, at)
    BY <1>1 DEF Merge
  <2>3. m[k].status = n.status
    BY <2>2 DEF Upsert
  <2> QED
    BY <2>1, <2>2, <2>3 DEF Follows, Agrees
<1>2. CASE ~\E n \in notices : KeyOf(n) = k
  <2>1. k \in DOMAIN m <=> k \in DOMAIN base
    BY <1>2 DEF Merge
  <2>2. k \in DOMAIN base => m[k] = base[k]
    BY <1>2 DEF Merge
  <2> QED
    BY <1>2, <2>1, <2>2 DEF Follows
<1> QED
  BY <1>1, <1>2

\* Where the journal replays to the store, so does what replay makes of an
\* incident that the store follows.
LEMMA ReplayFollows ==
  ASSUME NEW k \in Key, NEW inc, SameUnswept(journal, stored, now), Follows(stored, k, inc)
  PROVE  Follows(SweepClosed(journal, now), k, inc)
  BY DEF Follows, Agrees, Carried, SweepClosed, Unswept, SameUnswept

\* A crash with a part of a document journaled.
LEMMA CrashFollows ==
  ASSUME NEW k \in Key, NEW inc, NEW part, NEW at, SameUnswept(journal, stored, now),
         \A n \in part : KeyOf(n) = k => Carried(n.status, inc),
         (\E n \in part : KeyOf(n) = k) \/ Follows(stored, k, inc)
  PROVE  Follows(SweepClosed(Merge(journal, stored, part, at), now), k, inc)
<1> DEFINE m == Merge(journal, stored, part, at)
<1>1. CASE \E n \in part : KeyOf(n) = k
  BY <1>1, MergeFollows, SweepFollows
<1>2. CASE ~\E n \in part : KeyOf(n) = k
  <2>1. Follows(SweepClosed(journal, now), k, inc)
    BY <1>2, ReplayFollows
  <2>2. /\ k \in DOMAIN m <=> k \in DOMAIN journal
        /\ k \in DOMAIN journal => m[k] = journal[k]
    BY <1>2 DEF Merge
  <2> HIDE DEF m
  <2>3. k \in Unswept(m, now) <=> k \in Unswept(journal, now)
    BY <2>2 DEF Unswept
  <2>4. k \in Unswept(journal, now) => SweepClosed(m, now)[k] = SweepClosed(journal, now)[k]
    BY <2>2, <2>3 DEF SweepClosed, Unswept
  <2>5. /\ DOMAIN SweepClosed(m, now) = Unswept(m, now)
        /\ DOMAIN SweepClosed(journal, now) = Unswept(journal, now)
    BY DEF SweepClosed
  <2> QED
    BY <2>1, <2>3, <2>4, <2>5 DEF Follows, m
<1> QED
  BY <1>1, <1>2

-----------------------------------------------------------------------------
(* What a step does to the incidents of the source.                         *)

\* The incident goes on without news: its state may only settle.
Settles(id) ==
  /\ id \in DOMAIN incidents
  /\ LastEvent(id)' = LastEvent(id)
  /\ incidents'[id].createdAt = incidents[id].createdAt
  /\ Carried(incidents[id].status, incidents'[id])

IncidentsMove ==
  \A id \in DOMAIN incidents' :
    /\ LastEvent(id)' \in logged'
    /\ Settles(id) \/ LastEvent(id)' \notin logged

LEMMA UnchangedSettles ==
  ASSUME LastIsLogged, logged \subseteq logged',
         \A id \in DOMAIN incidents' : id \in DOMAIN incidents /\ incidents'[id] = incidents[id]
  PROVE  IncidentsMove
  BY DEF IncidentsMove, Settles, Carried, LastEvent, EventAt, IncidentKey, LastIsLogged

\* An acknowledgement at most settles the state of a closed incident.
LEMMA ServeSettles ==
  ASSUME SourceInv, LastIsLogged, NEW c \in Cursor, Serve(c), logged' = logged
  PROVE  IncidentsMove
<1>1. incidents' = Served(c) /\ DOMAIN incidents' = Live(incidents)
  BY ServedFacts DEF Serve
<1>2. ASSUME NEW id \in Live(incidents)
      PROVE  /\ id \in DOMAIN incidents
             /\ incidents'[id].lastSeq = incidents[id].lastSeq
             /\ incidents'[id].createdAt = incidents[id].createdAt
             /\ Carried(incidents[id].status, incidents'[id])
  <2>1. id \in DOMAIN incidents /\ incidents[id] \in Incident
    BY LiveAreIncidents DEF SourceInv, SourceTypeOK
  <2>2. \/ incidents'[id] = incidents[id]
        \/ incidents'[id] = AckIncident(incidents[id], ParseCursor(c))
    BY <1>1 DEF Served, Expire, Ack
  <2> QED
    BY <2>1, <2>2 DEF AckIncident, Carried, Incident
<1> QED
  BY <1>1, <1>2 DEF IncidentsMove, Settles, LastEvent, EventAt, IncidentKey, LastIsLogged

LEMMA ReportMoves ==
  ASSUME SourceInv, NumbersOK, HistoryOK, LastIsLogged, Report
  PROVE  IncidentsMove
<1> USE DEF SourceInv, SourceTypeOK
<1>1. logged' = logged \cup Buffered'
  BY DEF Report
<1>2. ASSUME NEW ttl \in TTLs, Start(ttl)
      PROVE  IncidentsMove
  <2> DEFINE new == nextID + 1
  <2>1. /\ DOMAIN incidents' = Live(incidents) \cup {new}
        /\ incidents'[new] = NewIncident(ttl, nextSeq + 1)
        /\ \A i \in Live(incidents) : i # new /\ incidents'[i] = incidents[i]
    BY <1>2, LiveAreIncidents DEF Start, Expire
  <2>2. SUFFICES ASSUME NEW id \in DOMAIN incidents'
                 PROVE  /\ LastEvent(id)' \in logged'
                        /\ Settles(id) \/ LastEvent(id)' \notin logged
    BY DEF IncidentsMove
  <2>3. CASE id = new
    <3>1. incidents'[id].createdAt = now /\ incidents'[id].lastSeq = nextSeq + 1
      BY <2>1, <2>3 DEF NewIncident
    <3>2. LastEvent(id)' = FirstEvent
      BY <2>3, <3>1 DEF LastEvent, EventAt, IncidentKey, FirstEvent
    <3> QED
      BY <1>1, <1>2, <3>2, StartEffect, FirstEventIsNew
  <2>4. CASE id \in Live(incidents)
    BY <1>1, <2>1, <2>4, LiveAreIncidents
       DEF Settles, Carried, LastEvent, EventAt, IncidentKey, LastIsLogged
  <2> QED
    BY <2>1, <2>3, <2>4
<1>3. CASE StartRefused
  BY <1>1, <1>3, LiveAreIncidents, UnchangedSettles DEF StartRefused, Expire
<1>4. ASSUME NEW id \in DOMAIN incidents, AddLog(id) \/ Close(id)
      PROVE  IncidentsMove
  <2> DEFINE e == EventAt(id, nextSeq + 1)
  <2>1. /\ DOMAIN incidents' = DOMAIN incidents
        /\ incidents'[id].lastSeq = nextSeq + 1
        /\ incidents'[id].createdAt = incidents[id].createdAt
        /\ \A i \in DOMAIN incidents \ {id} : incidents'[i] = incidents[i]
    BY <1>4 DEF AddLog, Close, AppendEvent, Incident
  <2>2. LastEvent(id)' = e
    BY <2>1 DEF LastEvent, EventAt, IncidentKey
  <2>3. e \in Buffered' /\ e \notin logged
    BY <1>4, LogEffect, NextEventIsNew
  <2>4. \A i \in DOMAIN incidents \ {id} : Settles(i) /\ LastEvent(i)' \in logged
    BY <2>1 DEF Settles, Carried, LastEvent, EventAt, IncidentKey, LastIsLogged
  <2> HIDE DEF e
  <2> QED
    BY <1>1, <2>1, <2>2, <2>3, <2>4 DEF IncidentsMove
<1> QED
  BY <1>2, <1>3, <1>4 DEF Report, SourceStep

LEMMA EveryStepSettles ==
  ASSUME SourceInv, NumbersOK, HistoryOK, CursorsOK, LastIsLogged, [Next]_vars
  PROVE  IncidentsMove
<1>1. CASE UNCHANGED <<incidents, logged>>
  BY <1>1, UnchangedSettles
<1>2. CASE Restart
  BY <1>2, UnchangedSettles DEF Restart, SourceRestart
<1>3. CASE Report
  BY <1>3, ReportMoves
<1>4. CASE ServePoll
  BY <1>4, ServeSettles DEF ServePoll, CursorsOK, CursorOK
<1>5. ASSUME NEW c \in late, ServeLate(c)
      PROVE  IncidentsMove
  BY <1>5, ServeSettles DEF ServeLate, CursorsOK, CursorOK
<1>6. CASE Next
  BY <1>1, <1>2, <1>3, <1>4, <1>5, <1>6
     DEF Next, CollectNext, Tick, SourceTick, Poll, Abandon, Ingest, Crash, Operate, sourceVars
<1> QED
  BY <1>1, <1>6 DEF vars, sourceVars

\* Settling keeps what agrees with an incident agreeing with it.
LEMMA SettledAgrees ==
  ASSUME NEW id, Settles(id)
  PROVE  /\ \A status : Carried(status, incidents[id]) => Carried(status, incidents'[id])
         /\ \A incs, k : Follows(incs, k, incidents[id]) => Follows(incs, k, incidents'[id])
  BY DEF Settles, Carried, Follows, Agrees

LEMMA SourceKeepsFollowing ==
  ASSUME FollowsInv, IncidentsMove, HistoryOK, CursorsOK,
         stored' = stored, delivered' = delivered
  PROVE  /\ StoreFollows'
         /\ answer' = answer => AnswerFollows' /\ NoticesBringNews'
<1>1. delivered \subseteq logged /\ EventsIn(answer.notices) \subseteq logged
  BY DEF HistoryOK, CursorsOK
<1>2. StoreFollows'
  <2> SUFFICES ASSUME NEW id \in DOMAIN incidents', LastEvent(id)' \in delivered
               PROVE  Follows(stored, IncidentKey(id, incidents'[id]), incidents'[id])
    BY DEF StoreFollows, LastEvent, EventAt, Follows
  <2>1. Settles(id)
    BY <1>1 DEF IncidentsMove
  <2>2. Follows(stored, IncidentKey(id, incidents[id]), incidents[id])
    BY <2>1 DEF Settles, FollowsInv, StoreFollows
  <2>3. IncidentKey(id, incidents'[id]) = IncidentKey(id, incidents[id])
    BY <2>1 DEF Settles, IncidentKey
  <2> QED
    BY <2>1, <2>2, <2>3, SettledAgrees
<1>3. ASSUME answer' = answer
      PROVE  AnswerFollows' /\ NoticesBringNews'
  <2>1. ASSUME NEW n \in answer.notices, NEW id \in DOMAIN incidents',
               KeyOf(n) = IncidentKey(id, incidents'[id]),
               LastEvent(id)' \in delivered \cup EventsIn(answer.notices)
        PROVE  Carried(n.status, incidents'[id])
    <3>1. Settles(id)
      BY <1>1, <2>1 DEF IncidentsMove
    <3>2. KeyOf(n) = IncidentKey(id, incidents[id]) /\ id \in DOMAIN incidents
      BY <2>1, <3>1 DEF Settles, IncidentKey
    <3>3. Carried(n.status, incidents[id])
      BY <2>1, <3>1, <3>2 DEF Settles, FollowsInv, AnswerFollows
    <3> QED
      BY <3>1, <3>3, SettledAgrees
  <2>2. AnswerFollows'
    BY <1>3, <2>1 DEF AnswerFollows
  <2> QED
    BY <1>3, <2>2 DEF FollowsInv, NoticesBringNews
<1> QED
  BY <1>2, <1>3

\* The answer the source gives carries its own state, and news only.
LEMMA DocumentFollows ==
  ASSUME SourceInv, NEW c \in Cursor, Serve(c)
  PROVE  \A n \in Document(c, c).notices :
           /\ n.events # {}
           /\ \A id \in DOMAIN incidents' :
                KeyOf(n) = IncidentKey(id, incidents'[id]) => n.status = incidents'[id].status
<1> DEFINE seq == ParseCursor(c)
<1>1. SourceInv' /\ incidents' = Served(c)
  BY ServeKeepsInv DEF Serve
<1>2. seq \in Nat
  BY DEF ParseCursor, Cursor
<1>3. SUFFICES ASSUME NEW n \in Document(c, c).notices
               PROVE  /\ n.events # {}
                      /\ \A id \in DOMAIN incidents' :
                           KeyOf(n) = IncidentKey(id, incidents'[id])
                             => n.status = incidents'[id].status
  OBVIOUS
<1>4. PICK i \in DOMAIN incidents' : /\ Shown(incidents'[i], seq)
                                     /\ n = Notice(i, incidents'[i], seq)
  BY <1>1 DEF Document
<1> DEFINE inc == incidents'[i]
<1>5. /\ inc \in Incident
      /\ inc.ackedSeq <= inc.lastSeq
      /\ inc.events \subseteq (inc.ackedSeq + 1)..inc.lastSeq
      /\ inc.lastSeq \in inc.events \/ inc.ackedSeq = inc.lastSeq
  BY <1>1 DEF SourceInv, SourceTypeOK, BufferMatchesAck
<1>6. inc.lastSeq \in inc.events /\ inc.lastSeq > seq
  BY <1>4, <1>5 DEF Shown, Incident
<1>7. inc.lastSeq \in n.events
  BY <1>4, <1>6 DEF Notice
<1>8. n.id = i /\ n.status = inc.status
  BY <1>4 DEF Notice
<1>9. \A id : KeyOf(n) = IncidentKey(id, incidents'[id]) => id = i
  BY <1>8 DEF KeyOf, IncidentKey
<1> QED
  BY <1>7, <1>8, <1>9

\* The store's own steps, when the source does not move.
LEMMA StoreKeepsFollowing ==
  ASSUME FollowsInv, TypeOK, SameUnswept(journal, stored, now), Ingest \/ Crash \/ Operate
  PROVE  StoreFollows'
<1>1. /\ incidents' = incidents /\ now' = now
      /\ \A id : LastEvent(id)' = LastEvent(id)
  BY DEF Ingest, Crash, Operate, sourceVars, LastEvent, EventAt, IncidentKey
<1>2. SUFFICES ASSUME NEW id \in DOMAIN incidents, LastEvent(id) \in delivered'
               PROVE  Follows(stored', IncidentKey(id, incidents[id]), incidents[id])
  BY <1>1 DEF StoreFollows, Follows
<1> DEFINE k == IncidentKey(id, incidents[id])
           inc == incidents[id]
<1>3. k \in Key
  BY DEF TypeOK, SourceTypeOK, Incident, IncidentKey, Key
<1>4. delivered' = delivered \/ (Ingest /\ delivered' = delivered \cup EventsIn(answer.notices))
  BY DEF Ingest, Crash, Operate
<1>5. \A n \in answer.notices : KeyOf(n) = k => Carried(n.status, inc)
  BY <1>2, <1>4 DEF FollowsInv, AnswerFollows
<1>6. LastEvent(id) \in delivered => Follows(stored, k, inc)
  BY DEF FollowsInv, StoreFollows
<1>7. LastEvent(id) \in EventsIn(answer.notices) => \E n \in answer.notices : KeyOf(n) = k
  <2> SUFFICES ASSUME LastEvent(id) \in EventsIn(answer.notices)
               PROVE  \E n \in answer.notices : KeyOf(n) = k
    OBVIOUS
  <2>1. PICK n \in answer.notices : \E s \in n.events : LastEvent(id) = [incident |-> KeyOf(n), seq |-> s]
    BY DEF EventsIn
  <2>2. LastEvent(id).incident = k
    BY DEF LastEvent, EventAt
  <2> QED
    BY <2>1, <2>2
<1> HIDE DEF k, inc
<1>8. CASE Ingest
  <2>1. (\E n \in answer.notices : KeyOf(n) = k) \/ Follows(stored, k, inc)
    BY <1>2, <1>4, <1>6, <1>7
  <2>2. Follows(Merge(stored, stored, answer.notices, now), k, inc)
    BY <1>5, <2>1, MergeFollows
  <2>3. stored' = SweepClosed(Merge(stored, stored, answer.notices, now), now)
    BY <1>8 DEF Ingest, IngestEscalations
  <2> QED
    BY <2>2, <2>3, SweepFollows DEF k, inc
<1>9. CASE Crash
  <2>1. PICK done \in 0..nextID : StoreCrash({n \in answer.notices : n.id <= done}, now)
    BY <1>9 DEF Crash
  <2> DEFINE part == {n \in answer.notices : n.id <= done}
  <2>2. stored' = SweepClosed(Merge(journal, stored, part, now), now)
    BY <2>1 DEF StoreCrash
  <2>3. \A n \in part : KeyOf(n) = k => Carried(n.status, inc)
    BY <1>5
  <2>4. Follows(stored, k, inc)
    BY <1>2, <1>6, <1>9 DEF Crash
  <2> HIDE DEF part
  <2> QED
    BY <1>3, <2>2, <2>3, <2>4, CrashFollows DEF k, inc
<1>10. CASE Operate
  <2>1. Follows(stored, k, inc)
    BY <1>2, <1>6, <1>10 DEF Operate
  <2>2. ASSUME NEW j \in DOMAIN stored, AcknowledgeIncident(j)
        PROVE  Follows(stored', k, inc)
    <3>1. /\ DOMAIN stored' = DOMAIN stored
          /\ stored'[j].status = "acknowledged"
          /\ \A i \in DOMAIN stored \ {j} : stored'[i] = stored[i]
      BY <2>2 DEF AcknowledgeIncident, TypeOK, StoreTypeOK, StoredIncident
    <3> QED
      BY <2>1, <3>1 DEF Follows, Agrees
  <2>3. ASSUME StateIngestSweep
        PROVE  Follows(stored', k, inc)
    BY <2>1, <2>3, SweepFollows DEF StateIngestSweep
  <2> QED
    BY <1>10, <2>2, <2>3 DEF Operate, k, inc
<1> QED
  BY <1>8, <1>9, <1>10

LEMMA FollowsInvStep ==
  ASSUME PullInv, TypeOK, SameUnswept(journal, stored, now), FollowsInv, [Next]_vars
  PROVE  FollowsInv'
<1>1. IncidentsMove
  BY EveryStepSettles DEF PullInv, FollowsInv
<1>2. LastIsLogged'
  BY <1>1 DEF LastIsLogged, IncidentsMove
<1>3. CASE UNCHANGED <<stored, delivered, answer>>
  BY <1>1, <1>2, <1>3, SourceKeepsFollowing DEF FollowsInv, PullInv
<1>4. answer' = NoDocument => AnswerFollows' /\ NoticesBringNews'
  BY DEF NoDocument, AnswerFollows, NoticesBringNews
<1>5. CASE Abandon
  BY <1>1, <1>2, <1>4, <1>5, SourceKeepsFollowing DEF Abandon, storeVars, FollowsInv, PullInv
<1>6. CASE Ingest \/ Crash
  BY <1>2, <1>4, <1>6, StoreKeepsFollowing DEF Ingest, Crash, FollowsInv
<1>7. CASE Operate
  <2>1. answer' = answer /\ incidents' = incidents /\ delivered' = delivered
    BY <1>7 DEF Operate, sourceVars, pullVars
  <2>2. AnswerFollows' /\ NoticesBringNews'
    BY <2>1 DEF FollowsInv, AnswerFollows, NoticesBringNews, LastEvent, EventAt, IncidentKey
  <2> QED
    BY <1>2, <1>7, <2>2, StoreKeepsFollowing DEF FollowsInv
<1>8. CASE ServePoll
  <2>1. watermark \in Cursor /\ Serve(watermark)
    BY <1>8 DEF ServePoll, TypeOK
  <2>2. answer'.notices = Document(watermark, watermark).notices
    BY <1>8 DEF ServePoll
  <2>3. \A n \in answer'.notices :
          /\ n.events # {}
          /\ \A id \in DOMAIN incidents' :
               KeyOf(n) = IncidentKey(id, incidents'[id]) => n.status = incidents'[id].status
    BY <2>1, <2>2, DocumentFollows DEF PullInv
  <2>4. AnswerFollows' /\ NoticesBringNews'
    BY <2>3 DEF AnswerFollows, NoticesBringNews, Carried
  <2>5. StoreFollows'
    BY <1>1, <1>8, SourceKeepsFollowing DEF ServePoll, storeVars, PullInv
  <2> QED
    BY <1>2, <2>4, <2>5 DEF FollowsInv
<1> QED
  BY <1>3, <1>5, <1>6, <1>7, <1>8
     DEF Next, CollectNext, Tick, Restart, Report, Poll, ServeLate, vars, storeVars, pullVars

LEMMA JournalMatches == Spec => []SameUnswept(journal, stored, now)
<1>1. TypeOK /\ ReplayEqualsLive => SameUnswept(journal, stored, now)
  BY ReplayIsSame DEF TypeOK
<1> QED
  BY <1>1, CollectionTypes, JournalReplaysCollection, PTL

LEMMA StoreAlwaysFollows == Spec => []FollowsInv
<1>1. Init => FollowsInv
  BY DEF Init, SourceInit, NoDocument, FollowsInv, LastIsLogged, StoreFollows,
         AnswerFollows, NoticesBringNews
<1>2. PullInv /\ TypeOK /\ SameUnswept(journal, stored, now) /\ FollowsInv /\ [Next]_vars
        => FollowsInv'
  BY FollowsInvStep
<1> QED
  BY <1>1, <1>2, PullInvariant, CollectionTypes, JournalMatches, PTL DEF Spec

\* When the scraper's watermark has passed an incident, the store agrees with
\* the source about its status, or swept it after its close, whatever was
\* lost, acknowledged or replayed on the way (IngestEscalations before the
\* advance of the watermark in scraper/escalations.go).
THEOREM StoreAgreesWhenCaughtUp == Spec => []CaughtUpAgrees
<1>1. PullInv /\ TypeOK /\ FollowsInv => CaughtUpAgrees
  <2> SUFFICES ASSUME PullInv, TypeOK, FollowsInv, NEW id \in DOMAIN incidents,
                      ParseCursor(watermark) >= incidents[id].lastSeq
               PROVE  Follows(stored, IncidentKey(id, incidents[id]), incidents[id])
    BY DEF CaughtUpAgrees, Follows, Agrees, Carried
  <2>1. LastEvent(id) \in logged /\ IncidentKey(id, incidents[id]) \in OpenIncidents
    BY Members DEF FollowsInv, LastIsLogged
  <2>2. LastEvent(id) \in Buffered \/ LastEvent(id) \in delivered
    BY <2>1 DEF PullInv, NoEventLost, LastEvent, EventAt
  <2>3. incidents[id].lastSeq \in Nat \ {0} /\ LastEvent(id).seq = incidents[id].lastSeq
    BY DEF PullInv, SourceInv, SourceTypeOK, BufferMatchesAck, LastEvent, EventAt
  <2>4. watermark.epoch = epoch /\ LastEvent(id).seq <= watermark.seq
    BY <2>3 DEF ParseCursor, TypeOK, Cursor
  <2>5. LastEvent(id) \in delivered
    BY <2>2, <2>4 DEF AckedBy, PullInv, CursorsOK
  <2> QED
    BY <2>5 DEF FollowsInv, StoreFollows
<1> QED
  BY <1>1, PullInvariant, CollectionTypes, StoreAlwaysFollows, PTL

\* Collecting an acknowledged incident again, replaying it after a crash or
\* sweeping never takes the acknowledgement back: only a document with events
\* of it does (the status assignment of IngestEscalations).
THEOREM AcknowledgementStands == Spec => AcknowledgedStandsWithoutNews
<1> DEFINE Stands ==
      \A k \in DOMAIN stored \cap DOMAIN stored' :
        stored[k].status = "acknowledged" /\ stored'[k].status # "acknowledged"
          => \E n \in answer.notices : KeyOf(n) = k /\ n.events # {}
<1>1. TypeOK /\ SameUnswept(journal, stored, now) /\ FollowsInv /\ [Next]_vars => Stands
  <2> SUFFICES ASSUME TypeOK, SameUnswept(journal, stored, now), FollowsInv, [Next]_vars,
                      NEW k \in DOMAIN stored \cap DOMAIN stored',
                      stored[k].status = "acknowledged", stored'[k].status # "acknowledged"
               PROVE  \E n \in answer.notices : KeyOf(n) = k
    BY DEF FollowsInv, NoticesBringNews
  <2>1. CASE stored' = stored
    BY <2>1
  <2>2. CASE Ingest
    BY <2>2 DEF Ingest, IngestEscalations, SweepClosed, Unswept, Merge
  <2>3. CASE Crash
    <3>1. PICK done \in 0..nextID : StoreCrash({n \in answer.notices : n.id <= done}, now)
      BY <2>3 DEF Crash
    <3> DEFINE part == {n \in answer.notices : n.id <= done}
               m == Merge(journal, stored, part, now)
    <3>2. stored' = SweepClosed(m, now)
      BY <3>1 DEF StoreCrash
    <3>3. k \in Unswept(m, now) /\ stored'[k] = m[k]
      BY <3>2 DEF SweepClosed
    <3>4. SUFFICES ASSUME ~\E n \in part : KeyOf(n) = k
                   PROVE  FALSE
      OBVIOUS
    <3>5. k \in DOMAIN journal /\ m[k] = journal[k]
      BY <3>3, <3>4 DEF Unswept, Merge
    <3>6. k \in Unswept(journal, now)
      BY <3>3, <3>5 DEF Unswept
    <3>7. k \in Key
      BY DEF TypeOK, StoreTypeOK
    <3> QED
      BY <3>3, <3>5, <3>6, <3>7 DEF SameUnswept
  <2>4. CASE Operate
    BY <2>4 DEF Operate, AcknowledgeIncident, StateIngestSweep, SweepClosed, Unswept,
                TypeOK, StoreTypeOK, StoredIncident
  <2> QED
    BY <2>1, <2>2, <2>3, <2>4
       DEF Next, CollectNext, Tick, Restart, Report, Poll, ServePoll, Abandon, ServeLate,
           vars, storeVars
<1> QED
  BY <1>1, CollectionTypes, JournalMatches, StoreAlwaysFollows, PTL
     DEF Spec, AcknowledgedStandsWithoutNews
=============================================================================
