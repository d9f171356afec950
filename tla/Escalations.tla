----------------------------- MODULE Escalations -----------------------------
(****************************************************************************)
(* The escalation source of an instrumented process (escalation.go):        *)
(* incidents with buffered events, a sequence number per event, a cursor    *)
(* that names a position of this process's sequence, and the one endpoint   *)
(* that both acknowledges (prunes) and displays (delivers).                 *)
(*                                                                          *)
(* An event is its sequence number: topic, message and data never steer the *)
(* code.  e.order lists the incidents by creation, which is the order of    *)
(* their ids, so the document is a set of incidents here.                   *)
(****************************************************************************)
EXTENDS Clock, FiniteSets

CONSTANTS
  MaxUnacknowledged,  \* EscalationPolicy.MaxUnacknowledged
  TTLs,               \* the TTLs an incident may be started with
  MaxSeq              \* bound of the model: events one process logs

ASSUME EscalationsAssumption ==
  /\ MaxUnacknowledged \in Nat \ {0}
  /\ TTLs \subseteq Nat \ {0}
  /\ MaxSeq \in Nat

VARIABLES
  epoch,      \* when this process created its Escalations: a prefix of its cursors
  nextID,     \* the last incident id given out
  nextSeq,    \* the last event sequence number given out
  incidents   \* id -> incident, the incidents the process still holds

sourceVars == <<now, epoch, nextID, nextSeq, incidents>>

Status == {"open", "closed", "acknowledged"}

Incident == [status : Status, createdAt : Nat, expiresAt : Nat,
             events : SUBSET Nat, lastSeq : Nat, ackedSeq : Nat]

-----------------------------------------------------------------------------
(* Cursors.  The empty string is sequence 0, of whatever epoch.             *)

Cursor == [epoch : Nat, seq : Nat]

NoCursor == [epoch |-> 0, seq |-> 0]

FormatCursor(seq) == IF seq = 0 THEN NoCursor ELSE [epoch |-> epoch, seq |-> seq]

\* Mutant: the epoch of a cursor is not looked at.
ParseCursor_AnyEpoch(c) == c.seq

\* A cursor of another epoch is no position of this sequence.
ParseCursor(c) == IF c.epoch = epoch THEN c.seq ELSE 0

-----------------------------------------------------------------------------
(* What the operations compute.                                             *)

Unacknowledged(incs) == {id \in DOMAIN incs : incs[id].lastSeq > incs[id].ackedSeq}

Live(incs) == {id \in DOMAIN incs : now <= incs[id].expiresAt}

Expire(incs) == [id \in Live(incs) |-> incs[id]]

\* Mutant: an old acknowledgement overwrites a newer one.
AckedUpTo_Overwrite(inc, seq) == IF seq <= inc.lastSeq THEN seq ELSE inc.lastSeq

AckedUpTo(inc, seq) ==
  IF seq <= inc.ackedSeq THEN inc.ackedSeq
  ELSE IF seq <= inc.lastSeq THEN seq ELSE inc.lastSeq

AckIncident(inc, seq) ==
  LET acked == AckedUpTo(inc, seq)
  IN  [inc EXCEPT !.ackedSeq = acked,
                  !.events = {e \in @ : e > seq},
                  !.status = IF @ = "closed" /\ acked >= inc.lastSeq
                             THEN "acknowledged" ELSE @]

Ack(incs, seq) == [id \in DOMAIN incs |-> AckIncident(incs[id], seq)]

AppendEvent(inc, seq) == [inc EXCEPT !.lastSeq = seq, !.events = @ \cup {seq}]

NewIncident(ttl, seq) ==
  [status |-> "open", createdAt |-> now, expiresAt |-> now + ttl,
   events |-> {seq}, lastSeq |-> seq, ackedSeq |-> 0]

\* The incidents left after the expiry and the acknowledgement of a request.
Served(ack) == LET seq == ParseCursor(ack)
               IN  IF seq = 0 THEN Expire(incidents) ELSE Ack(Expire(incidents), seq)

\* Mutant: the reader's position itself counts as news.
Shown_AtPosition(inc, after) == /\ inc.lastSeq >= after
                                /\ inc.events # {} \/ inc.ackedSeq < inc.lastSeq

\* Mutant: an incident with one new event is taken for an old one.
Shown_OneLate(inc, after) == /\ inc.lastSeq > after + 1
                             /\ inc.events # {} \/ inc.ackedSeq < inc.lastSeq

\* Mutant: incidents without buffered events are shown again.
Shown_Emptied(inc, after) == inc.lastSeq > after

\* Whether the document shows an incident to a reader positioned at after.
Shown(inc, after) == /\ inc.lastSeq > after
                     /\ inc.events # {} \/ inc.ackedSeq < inc.lastSeq

\* The incident as the document carries it.
Notice(id, inc, after) ==
  [id |-> id, createdAt |-> inc.createdAt, status |-> inc.status,
   events |-> {e \in inc.events : e > after}]

\* The document a request (after, ack) is answered with.
Document(after, ack) ==
  LET incs == Served(ack)
      seq  == ParseCursor(after)
  IN  [watermark |-> FormatCursor(nextSeq),
       notices   |-> {Notice(id, incs[id], seq) :
                        id \in {i \in DOMAIN incs : Shown(incs[i], seq)}}]

-----------------------------------------------------------------------------
(* Operations.                                                              *)

SourceInit ==
  /\ ClockInit
  /\ epoch = 0
  /\ nextID = 0
  /\ nextSeq = 0
  /\ incidents = [id \in {} |-> NewIncident(0, 0)]

SourceTick == Advance /\ UNCHANGED <<epoch, nextID, nextSeq, incidents>>

\* The process restarts: a new object, a new epoch, every incident forgotten.
SourceRestart ==
  /\ Advance
  /\ epoch' = now'
  /\ nextID' = 0
  /\ nextSeq' = 0
  /\ incidents' = [id \in {} |-> NewIncident(0, 0)]

Start(ttl) ==
  LET live == Expire(incidents)
      id   == nextID + 1
      seq  == nextSeq + 1
  IN  /\ nextSeq < MaxSeq
      /\ Cardinality(Unacknowledged(live)) < MaxUnacknowledged
      /\ nextID' = id
      /\ nextSeq' = seq
      /\ incidents' = [i \in DOMAIN live \cup {id} |->
                         IF i = id THEN NewIncident(ttl, seq) ELSE live[i]]
      /\ UNCHANGED <<now, epoch>>

\* Over budget: the expiry has happened, nothing is created.
StartRefused ==
  /\ Cardinality(Unacknowledged(Expire(incidents))) >= MaxUnacknowledged
  /\ incidents' = Expire(incidents)
  /\ UNCHANGED <<now, epoch, nextID, nextSeq>>

\* AddLog and AddData: whatever the status, and without looking at the expiry.
AddLog(id) ==
  /\ nextSeq < MaxSeq
  /\ id \in DOMAIN incidents
  /\ nextSeq' = nextSeq + 1
  /\ incidents' = [incidents EXCEPT ![id] = AppendEvent(@, nextSeq + 1)]
  /\ UNCHANGED <<now, epoch, nextID>>

\* Mutant: closing logs no event, so the close is not news.
Close_Silent(id) ==
  /\ id \in DOMAIN incidents
  /\ incidents' = [incidents EXCEPT ![id].status = "closed"]
  /\ UNCHANGED <<now, epoch, nextID, nextSeq>>

Close(id) ==
  /\ nextSeq < MaxSeq
  /\ id \in DOMAIN incidents
  /\ nextSeq' = nextSeq + 1
  /\ incidents' = [incidents EXCEPT
                     ![id] = AppendEvent([@ EXCEPT !.status = "closed"], nextSeq + 1)]
  /\ UNCHANGED <<now, epoch, nextID>>

\* EscalationDisplay: the state change of a request; Document is its answer.
Serve(ack) ==
  /\ incidents' = Served(ack)
  /\ UNCHANGED <<now, epoch, nextID, nextSeq>>

\* What the process's own code may do, whoever polls it.
SourceStep ==
  \/ \E ttl \in TTLs : Start(ttl)
  \/ StartRefused
  \/ \E id \in DOMAIN incidents : AddLog(id) \/ Close(id)

\* The cursors this process, or an earlier one, has given out.
IssuedCursors == {c \in [epoch : 0..epoch, seq : 0..MaxSeq] :
                    c.epoch = epoch => c.seq <= nextSeq}

\* Any number of readers, each at any position it was given.
SourceNext ==
  \/ SourceTick
  \/ SourceRestart
  \/ SourceStep
  \/ \E ack \in IssuedCursors : Serve(ack)

SourceSpec == SourceInit /\ [][SourceNext]_sourceVars

-----------------------------------------------------------------------------
(* Properties.                                                              *)

\* Every variable holds a value of its kind.
SourceTypeOK ==
  /\ now \in Nat
  /\ epoch \in Nat
  /\ nextID \in Nat
  /\ nextSeq \in Nat
  /\ DOMAIN incidents \subseteq 1..nextID
  /\ \A id \in DOMAIN incidents : incidents[id] \in Incident

\* The buffer of an incident and its acknowledged position always agree, for
\* any mix of late logs, stale acknowledgements and closes: the buffer holds
\* only events after that position, its newest event among them unless all
\* are acknowledged, and no event of another incident.
BufferMatchesAck ==
  \A id \in DOMAIN incidents :
    LET inc == incidents[id]
    IN  /\ inc.ackedSeq <= inc.lastSeq
        /\ inc.lastSeq \in 1..nextSeq
        /\ inc.events \subseteq (inc.ackedSeq + 1)..inc.lastSeq
        /\ inc.lastSeq \in inc.events \/ inc.ackedSeq = inc.lastSeq
        /\ \A other \in DOMAIN incidents \ {id} :
             inc.events \cap incidents[other].events = {}

\* A reader is shown every buffered event after its position, whatever other
\* readers acknowledged: neither test of the display loop skips an incident
\* with news for it, and no shown incident comes without any.
NothingHidden ==
  \A after \in 0..nextSeq : \A id \in DOMAIN incidents :
    Shown(incidents[id], after) <=> \E e \in incidents[id].events : e > after

\* An acknowledgement that arrives late, or names a position of an earlier
\* process, never moves an incident's acknowledged position back.
AckNeverRetreats ==
  [][\A id \in DOMAIN incidents \cap DOMAIN incidents' :
       epoch' = epoch => incidents'[id].ackedSeq >= incidents[id].ackedSeq]_sourceVars

\* The budget of MaxUnacknowledged: that many incidents at most have never
\* been acknowledged at all.  (Late logs may make more of them unacknowledged
\* again: AddLog asks for no budget.)
NeverAckedWithinBudget ==
  Cardinality({id \in DOMAIN incidents : incidents[id].ackedSeq = 0}) <= MaxUnacknowledged

\* What a reader can rely on: the buffers are those of the acknowledgements, no
\* reader misses what others acknowledged, and the budget bounds what nobody has.
SourceIsRight == BufferMatchesAck /\ NothingHidden /\ NeverAckedWithinBudget
=============================================================================
