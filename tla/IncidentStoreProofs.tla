------------------------- MODULE IncidentStoreProofs -------------------------
(****************************************************************************)
(* What every operation of the incident store keeps, whoever calls it: the  *)
(* types, and the agreement of the journal with memory that a crash at any  *)
(* moment relies on.                                                        *)
(*                                                                          *)
(* And of concurrent global-incident requests, for any set of them and any  *)
(* bounds: the types, the journal's agreement with memory, although a       *)
(* request ingests at the time it began and not at the time it ingests, and *)
(* that no annotation is lost between its read and its write.               *)
(****************************************************************************)
EXTENDS GlobalIncidents, FiniteSetTheorems, WellFoundedInduction, TLAPS

\* An incident as a document carries it.
NoticeType == [id : Nat, createdAt : Nat, status : {"open", "closed", "acknowledged"},
               events : SUBSET Nat]

-----------------------------------------------------------------------------
(* Types.                                                                   *)

LEMMA UpsertType ==
  ASSUME StoreTypeOK, NEW n \in NoticeType, NEW at \in Nat
  PROVE  KeyOf(n) \in Key /\ Upsert(stored, n, at) \in StoredIncident
<1>1. KeyOf(n) \in Key
  BY DEF KeyOf, Key, NoticeType
<1> DEFINE known == IF KeyOf(n) \in DOMAIN stored THEN stored[KeyOf(n)].events ELSE {}
<1>2. known \cup n.events \in SUBSET Nat
  BY DEF StoreTypeOK, StoredIncident, NoticeType
<1>3. Newest(known \cup n.events) \in SUBSET Nat
  BY <1>2 DEF Newest
<1>4. n.status \in {"open", "closed", "acknowledged"}
  BY DEF NoticeType
<1> QED
  BY <1>1, <1>3, <1>4 DEF Upsert, StoredIncident

\* Merging a document into typed incidents, and sweeping them, keeps the type.
LEMMA MergeType ==
  ASSUME StoreTypeOK, NEW base, NEW notices \in SUBSET NoticeType, NEW at \in Nat,
         DOMAIN base \subseteq Key, \A k \in DOMAIN base : base[k] \in StoredIncident,
         NEW when \in Nat
  PROVE  LET merged == Merge(base, stored, notices, at)
             swept  == SweepClosed(merged, when)
         IN  /\ DOMAIN merged \subseteq Key
             /\ \A k \in DOMAIN merged : merged[k] \in StoredIncident
             /\ DOMAIN swept \subseteq Key
             /\ \A k \in DOMAIN swept : swept[k] \in StoredIncident
<1> DEFINE merged == Merge(base, stored, notices, at)
           swept  == SweepClosed(merged, when)
<1>1. DOMAIN merged = DOMAIN base \cup {KeyOf(n) : n \in notices}
  BY DEF Merge
<1>2. DOMAIN merged \subseteq Key
  BY <1>1, UpsertType
<1>3. ASSUME NEW k \in DOMAIN merged
      PROVE  merged[k] \in StoredIncident
  <2>1. CASE \E n \in notices : KeyOf(n) = k
    <3> DEFINE n == CHOOSE m \in notices : KeyOf(m) = k
    <3>1. n \in notices
      BY <2>1
    <3>2. merged[k] = Upsert(stored, n, at)
      BY <1>1, <2>1 DEF Merge
    <3> HIDE DEF n, merged
    <3> QED
      BY <3>1, <3>2, UpsertType
  <2>2. CASE ~\E n \in notices : KeyOf(n) = k
    BY <1>1, <2>2 DEF Merge
  <2> QED
    BY <2>1, <2>2
<1> HIDE DEF merged
<1>4. DOMAIN swept \subseteq DOMAIN merged /\ \A k \in DOMAIN swept : swept[k] = merged[k]
  BY DEF SweepClosed, Unswept
<1> QED
  BY <1>2, <1>3, <1>4 DEF merged

LEMMA IngestType ==
  ASSUME StoreTypeOK, NEW notices \in SUBSET NoticeType, NEW at \in Nat,
         IngestEscalations(notices, at)
  PROVE  StoreTypeOK'
<1>1. DOMAIN stored' \subseteq Key /\ \A k \in DOMAIN stored' : stored'[k] \in StoredIncident
  BY MergeType DEF IngestEscalations, StoreTypeOK
<1>2. journal' \in {stored', Merge(journal, stored, notices, at)}
  BY DEF IngestEscalations
<1>3. DOMAIN journal' \subseteq Key /\ \A k \in DOMAIN journal' : journal'[k] \in StoredIncident
  BY <1>1, <1>2, MergeType DEF StoreTypeOK
<1> QED
  BY <1>1, <1>3 DEF StoreTypeOK

LEMMA CrashType ==
  ASSUME StoreTypeOK, NEW notices \in SUBSET NoticeType, now \in Nat, NEW at \in Nat,
         StoreCrash(notices, at)
  PROVE  StoreTypeOK'
<1>1. stored' = SweepClosed(Merge(journal, stored, notices, at), now) /\ journal' = stored'
  BY DEF StoreCrash
<1>2. DOMAIN stored' \subseteq Key /\ \A k \in DOMAIN stored' : stored'[k] \in StoredIncident
  BY <1>1, MergeType DEF StoreTypeOK
<1> QED
  BY <1>1, <1>2 DEF StoreTypeOK

LEMMA AcknowledgeType ==
  ASSUME StoreTypeOK, now \in Nat, NEW k \in DOMAIN stored, AcknowledgeIncident(k)
  PROVE  StoreTypeOK'
<1> DEFINE acked == [stored[k] EXCEPT !.status = "acknowledged", !.observedAt = now]
<1>1. acked \in StoredIncident /\ k \in Key
  BY DEF StoreTypeOK, StoredIncident
<1>2. /\ stored' = [stored EXCEPT ![k] = acked]
      /\ journal' = [j \in DOMAIN journal \cup {k} |-> IF j = k THEN acked ELSE journal[j]]
  BY DEF AcknowledgeIncident
<1> HIDE DEF acked
<1> QED
  BY <1>1, <1>2 DEF StoreTypeOK

LEMMA SweepType ==
  ASSUME StoreTypeOK, StateIngestSweep
  PROVE  StoreTypeOK'
  BY DEF StateIngestSweep, SweepClosed, Unswept, StoreTypeOK

-----------------------------------------------------------------------------
(* The journal and memory.                                                  *)

\* The same incidents, the ones that a sweep at a time drops apart.
SameUnswept(a, b, at) ==
  \A k \in Key : /\ k \in Unswept(a, at) <=> k \in Unswept(b, at)
                 /\ k \in Unswept(a, at) => a[k] = b[k]

LEMMA ReplayIsSame ==
  ASSUME StoreTypeOK
  PROVE  ReplayEqualsLive <=> SameUnswept(journal, stored, now)
<1> DEFINE a == SweepClosed(journal, now)
           b == SweepClosed(stored, now)
<1>1. /\ DOMAIN a = Unswept(journal, now) /\ DOMAIN b = Unswept(stored, now)
      /\ DOMAIN a \subseteq Key /\ DOMAIN b \subseteq Key
      /\ \A k \in DOMAIN a : a[k] = journal[k]
      /\ \A k \in DOMAIN b : b[k] = stored[k]
  BY DEF SweepClosed, Unswept, StoreTypeOK
<1>2. ASSUME a = b
      PROVE  SameUnswept(journal, stored, now)
  <2> HIDE DEF a, b
  <2> QED
    BY <1>1, <1>2 DEF SameUnswept
<1>3. ASSUME SameUnswept(journal, stored, now)
      PROVE  a = b
  <2>1. DOMAIN a = DOMAIN b
    BY <1>1, <1>3 DEF SameUnswept
  <2>2. \A k \in DOMAIN a : a[k] = b[k]
    BY <1>1, <1>3 DEF SameUnswept
  <2>3. a = [k \in DOMAIN a |-> a[k]] /\ b = [k \in DOMAIN b |-> b[k]]
    BY DEF SweepClosed
  <2> HIDE DEF a, b
  <2> QED
    BY <2>1, <2>2, <2>3
<1> QED
  BY <1>2, <1>3 DEF ReplayEqualsLive

LEMMA ClockKeepsReplay ==
  ASSUME StoreTypeOK, SameUnswept(journal, stored, now), now \in Nat, now' \in Nat,
         now <= now', UNCHANGED storeVars
  PROVE  SameUnswept(journal, stored, now)'
<1>1. \A k \in DOMAIN journal : journal[k].observedAt + ClosedTTL \in Nat
  BY IncidentStoreAssumption DEF StoreTypeOK, StoredIncident
<1>2. \A k \in DOMAIN stored : stored[k].observedAt + ClosedTTL \in Nat
  BY IncidentStoreAssumption DEF StoreTypeOK, StoredIncident
<1>3. /\ Unswept(journal, now)' \subseteq Unswept(journal, now)
      /\ Unswept(stored, now)' \subseteq Unswept(stored, now)
  BY <1>1, <1>2 DEF Unswept, storeVars
<1>4. ASSUME NEW k \in Key, k \in Unswept(journal, now)'
      PROVE  k \in Unswept(stored, now)' /\ journal'[k] = stored'[k]
  BY <1>3, <1>4 DEF SameUnswept, Unswept, storeVars
<1>5. ASSUME NEW k \in Key, k \in Unswept(stored, now)'
      PROVE  k \in Unswept(journal, now)'
  BY <1>3, <1>5 DEF SameUnswept, Unswept, storeVars
<1> QED
  BY <1>4, <1>5 DEF SameUnswept

LEMMA SameIsSame == \A f, at : SameUnswept(f, f, at)
  BY DEF SameUnswept

\* Sweeping again, at a time no earlier, drops what the first sweep dropped.
LEMMA SweptTwice ==
  ASSUME NEW incs, NEW at \in Nat, NEW when \in Nat, at <= when,
         \A k \in DOMAIN incs : incs[k] \in StoredIncident
  PROVE  /\ Unswept(SweepClosed(incs, at), when) = Unswept(incs, when)
         /\ \A k \in Unswept(incs, when) : SweepClosed(incs, at)[k] = incs[k]
<1>1. \A k \in DOMAIN incs : incs[k].observedAt + ClosedTTL \in Nat
  BY IncidentStoreAssumption DEF StoredIncident
<1>2. Unswept(incs, when) \subseteq Unswept(incs, at)
  BY <1>1 DEF Unswept
<1> QED
  BY <1>2 DEF SweepClosed, Unswept

\* The line journaled for an incident is the incident kept in memory.
LEMMA IngestKeepsReplay ==
  ASSUME StoreTypeOK, SameUnswept(journal, stored, now), now \in Nat, now' = now,
         NEW notices \in SUBSET NoticeType, NEW at \in Nat, at <= now,
         IngestEscalations(notices, at)
  PROVE  SameUnswept(journal, stored, now)'
<1> DEFINE m == Merge(stored, stored, notices, at)
           j == Merge(journal, stored, notices, at)
           touched == {KeyOf(n) : n \in notices}
<1>1. stored' = SweepClosed(m, at) /\ journal' \in {stored', j}
  BY DEF IngestEscalations
<1>2. CASE journal' = stored'
  BY <1>2, SameIsSame DEF SameUnswept
<1>3. CASE journal' = j
  <2>1. /\ DOMAIN m = DOMAIN stored \cup touched
        /\ DOMAIN j = DOMAIN journal \cup touched
        /\ \A k \in touched : m[k] = j[k]
        /\ \A k \in DOMAIN stored \ touched : m[k] = stored[k]
        /\ \A k \in DOMAIN journal \ touched : j[k] = journal[k]
    BY DEF Merge
  <2>2. \A k \in DOMAIN m : m[k] \in StoredIncident
    BY MergeType DEF StoreTypeOK
  <2> HIDE DEF m, j, touched
  <2>3. /\ Unswept(stored', now) = Unswept(m, now)
        /\ \A k \in Unswept(m, now) : stored'[k] = m[k]
    BY <1>1, <2>2, SweptTwice
  <2>4. \A k \in Key : /\ k \in Unswept(m, now) <=> k \in Unswept(j, now)
                       /\ k \in Unswept(m, now) => m[k] = j[k]
    <3> SUFFICES ASSUME NEW k \in Key
                 PROVE  /\ k \in Unswept(m, now) <=> k \in Unswept(j, now)
                        /\ k \in Unswept(m, now) => m[k] = j[k]
      OBVIOUS
    <3>1. CASE k \in touched
      BY <2>1, <3>1 DEF Unswept
    <3>2. CASE k \notin touched
      <4>1. /\ k \in Unswept(m, now) <=> k \in Unswept(stored, now)
            /\ k \in Unswept(j, now) <=> k \in Unswept(journal, now)
        BY <2>1, <3>2 DEF Unswept
      <4>2. k \in Unswept(stored, now) => k \in DOMAIN stored
        BY DEF Unswept
      <4>3. k \in Unswept(journal, now) => k \in DOMAIN journal
        BY DEF Unswept
      <4> QED
        BY <2>1, <3>2, <4>1, <4>2, <4>3 DEF SameUnswept
    <3> QED
      BY <3>1, <3>2
  <2>5. \A k \in Key : /\ k \in Unswept(journal', now) <=> k \in Unswept(stored', now)
                       /\ k \in Unswept(journal', now) => journal'[k] = stored'[k]
    BY <1>3, <2>3, <2>4
  <2> QED
    BY <2>5 DEF SameUnswept
<1> QED
  BY <1>1, <1>2, <1>3

LEMMA AcknowledgeKeepsReplay ==
  ASSUME StoreTypeOK, SameUnswept(journal, stored, now), now' = now,
         NEW k \in DOMAIN stored, AcknowledgeIncident(k)
  PROVE  SameUnswept(journal, stored, now)'
<1> DEFINE acked == [stored[k] EXCEPT !.status = "acknowledged", !.observedAt = now]
<1>1. acked.status = "acknowledged"
  BY DEF StoreTypeOK, StoredIncident
<1>2. /\ stored' = [stored EXCEPT ![k] = acked]
      /\ journal' = [j \in DOMAIN journal \cup {k} |-> IF j = k THEN acked ELSE journal[j]]
  BY DEF AcknowledgeIncident
<1> HIDE DEF acked
<1>3. ASSUME NEW i \in Key
      PROVE  /\ i \in Unswept(journal', now) <=> i \in Unswept(stored', now)
             /\ i \in Unswept(journal', now) => journal'[i] = stored'[i]
  <2>1. CASE i = k
    BY <1>1, <1>2, <2>1 DEF Unswept
  <2>2. CASE i # k
    <3>1. /\ i \in Unswept(journal', now) <=> i \in Unswept(journal, now)
          /\ i \in Unswept(stored', now) <=> i \in Unswept(stored, now)
      BY <1>2, <2>2 DEF Unswept
    <3>2. /\ i \in DOMAIN journal => journal'[i] = journal[i]
          /\ i \in DOMAIN stored => stored'[i] = stored[i]
      BY <1>2, <2>2
    <3> QED
      BY <3>1, <3>2 DEF SameUnswept, Unswept
  <2> QED
    BY <2>1, <2>2
<1> QED
  BY <1>3 DEF SameUnswept

LEMMA SweepKeepsReplay ==
  ASSUME StoreTypeOK, SameUnswept(journal, stored, now), now \in Nat, now' = now,
         StateIngestSweep
  PROVE  SameUnswept(journal, stored, now)'
<1>1. stored' = SweepClosed(stored, now) /\ journal' \in {stored', journal}
  BY DEF StateIngestSweep
<1>2. CASE journal' = stored'
  BY <1>2, SameIsSame DEF SameUnswept
<1>3. CASE journal' = journal
  <2>1. /\ Unswept(stored', now) = Unswept(stored, now)
        /\ \A k \in Unswept(stored, now) : stored'[k] = stored[k]
    BY <1>1, SweptTwice DEF StoreTypeOK
  <2> QED
    BY <1>3, <2>1 DEF SameUnswept
<1> QED
  BY <1>1, <1>2, <1>3

LEMMA CrashMakesReplay ==
  ASSUME NEW notices, NEW at, StoreCrash(notices, at)
  PROVE  SameUnswept(journal, stored, now)'
  BY DEF StoreCrash, SameUnswept

-----------------------------------------------------------------------------
(* Requests that report global incidents.                                   *)

\* What a request is about to ingest, and when it began.
RequestsOK ==
  /\ now \in Nat
  /\ now <= MaxTime
  /\ write \in [Requests -> NoticeType]
  /\ \A r \in Requests :
       /\ stamp[r] <= now
       /\ phase[r] = "new" => write[r].events = {}

GlobalInv == GlobalTypeOK /\ RequestsOK /\ SameUnswept(journal, stored, now)

LEMMA GlobalInvInit == GlobalInit => GlobalInv
<1> SUFFICES ASSUME GlobalInit
             PROVE  GlobalInv
  OBVIOUS
<1>1. NoWrite \in NoticeType /\ KeyOf(NoWrite) \in Key /\ NoWrite.events = {}
  BY DEF NoWrite, NoticeType, KeyOf, Key
<1>2. GlobalTypeOK
  BY <1>1, ClockAssumption DEF GlobalInit, StoreInit, NoIncidents, GlobalTypeOK, StoreTypeOK
<1>3. RequestsOK
  BY <1>1, ClockAssumption DEF GlobalInit, ClockInit, RequestsOK
<1> QED
  BY <1>2, <1>3, SameIsSame DEF GlobalInv, GlobalInit, StoreInit

\* A request begins, with nothing yet to ingest or with a new incident.
LEMMA BeginKeepsInv ==
  ASSUME GlobalInv, NEW r \in Requests, NEW next \in {"reading", "writing"}, Begin(r, next),
         NEW w \in NoticeType, w.events \subseteq {now'},
         write' \in {write, [write EXCEPT ![r] = w]},
         UNCHANGED storeVars
  PROVE  GlobalInv'
<1> USE DEF GlobalInv
<1>1. /\ now' = now + 1 /\ now' <= MaxTime /\ now \in Nat /\ now' \in Nat
      /\ phase' = [phase EXCEPT ![r] = next]
      /\ stamp' = [stamp EXCEPT ![r] = now']
      /\ phase[r] = "new"
  BY ClockAssumption DEF Begin, Advance, RequestsOK
<1>2. StoreTypeOK'
  BY DEF GlobalTypeOK, StoreTypeOK, storeVars
<1>3. /\ phase' \in [Requests -> {"new", "reading", "writing", "done", "failed"}]
      /\ stamp' \in [Requests -> 0..MaxTime]
      /\ write' \in [Requests -> NoticeType]
  BY <1>1, ClockAssumption DEF GlobalTypeOK, RequestsOK
<1>4. \A q \in Requests :
        /\ stamp'[q] <= now'
        /\ write'[q].events \subseteq {stamp'[q]}
        /\ phase'[q] = "new" => write'[q].events = {}
  <2> SUFFICES ASSUME NEW q \in Requests
               PROVE  /\ stamp'[q] <= now'
                      /\ write'[q].events \subseteq {stamp'[q]}
                      /\ phase'[q] = "new" => write'[q].events = {}
    OBVIOUS
  <2>1. /\ stamp[q] \in Nat /\ stamp[q] <= now
        /\ write[q].events \subseteq {stamp[q]}
        /\ phase[q] = "new" => write[q].events = {}
    BY ClockAssumption DEF GlobalTypeOK, RequestsOK
  <2>2. CASE q = r
    BY <1>1, <2>1, <2>2 DEF GlobalTypeOK, RequestsOK
  <2>3. CASE q # r
    BY <1>1, <2>1, <2>3 DEF GlobalTypeOK, RequestsOK
  <2> QED
    BY <2>2, <2>3
<1>5. \A q \in Requests : KeyOf(write'[q]) \in Key
  BY <1>3 DEF KeyOf, Key, NoticeType
<1>6. GlobalTypeOK' /\ RequestsOK'
  BY <1>1, <1>2, <1>3, <1>4, <1>5 DEF GlobalTypeOK, RequestsOK
<1>7. SameUnswept(journal, stored, now)'
  BY <1>1, ClockKeepsReplay DEF GlobalTypeOK
<1> QED
  BY <1>6, <1>7

\* A request reads what it will write.
LEMMA ReadKeepsInv ==
  ASSUME GlobalInv, NEW r \in Requests, NEW k \in DOMAIN stored,
         NEW closes \in BOOLEAN, NEW says \in BOOLEAN, Read(r, k, closes, says)
  PROVE  GlobalInv'
<1> USE DEF GlobalInv
<1> DEFINE w == [id |-> k.id, createdAt |-> k.createdAt,
                 status |-> IF closes THEN "closed" ELSE stored[k].status,
                 events |-> IF closes \/ says THEN {stamp[r]} ELSE {}]
<1>1. stamp[r] \in Nat /\ k \in Key /\ stored[k] \in StoredIncident
  BY ClockAssumption DEF GlobalTypeOK, StoreTypeOK
<1>2. w \in NoticeType /\ w.events \subseteq {stamp[r]}
  BY <1>1 DEF NoticeType, Key, StoredIncident
<1>3. /\ write' = [write EXCEPT ![r] = w]
      /\ phase' = [phase EXCEPT ![r] = "writing"]
      /\ UNCHANGED <<now, storeVars, stamp, reported>>
  BY DEF Read
<1> HIDE DEF w
<1>4. /\ write' \in [Requests -> NoticeType]
      /\ phase' \in [Requests -> {"new", "reading", "writing", "done", "failed"}]
  BY <1>2, <1>3 DEF GlobalTypeOK, RequestsOK
<1>5. \A q \in Requests :
        /\ KeyOf(write'[q]) \in Key
        /\ write'[q].events \subseteq {stamp[q]}
        /\ phase'[q] = "new" => write'[q].events = {}
  <2> SUFFICES ASSUME NEW q \in Requests
               PROVE  /\ KeyOf(write'[q]) \in Key
                      /\ write'[q].events \subseteq {stamp[q]}
                      /\ phase'[q] = "new" => write'[q].events = {}
    OBVIOUS
  <2>1. CASE q = r
    BY <1>2, <1>3, <2>1 DEF GlobalTypeOK, RequestsOK, KeyOf, Key, NoticeType
  <2>2. CASE q # r
    BY <1>3, <2>2 DEF GlobalTypeOK, RequestsOK
  <2> QED
    BY <2>1, <2>2
<1>6. GlobalTypeOK' /\ RequestsOK'
  BY <1>3, <1>4, <1>5 DEF GlobalTypeOK, RequestsOK, StoreTypeOK, storeVars
<1>7. SameUnswept(journal, stored, now)'
  BY <1>3 DEF storeVars, SameUnswept, Unswept
<1> QED
  BY <1>6, <1>7

\* Steps that leave stamps and writes alone, and begin no request anew.
LEMMA OthersKeepRequests ==
  ASSUME GlobalInv, UNCHANGED <<stamp, write>>, now' \in Nat, now <= now', now' <= MaxTime,
         phase' \in [Requests -> {"new", "reading", "writing", "done", "failed"}],
         \A r \in Requests : phase'[r] = "new" => phase[r] = "new",
         StoreTypeOK'
  PROVE  GlobalTypeOK' /\ RequestsOK'
<1>1. \A r \in Requests : stamp[r] \in Nat /\ now \in Nat
  BY ClockAssumption DEF GlobalInv, GlobalTypeOK, RequestsOK
<1> QED
  BY <1>1 DEF GlobalInv, GlobalTypeOK, RequestsOK

LEMMA WriteKeepsInv ==
  ASSUME GlobalInv, NEW r \in Requests, Write(r)
  PROVE  GlobalInv'
<1> USE DEF GlobalInv
<1>1. /\ {write[r]} \in SUBSET NoticeType
      /\ stamp[r] \in Nat /\ stamp[r] <= now /\ now \in Nat
      /\ IngestEscalations({write[r]}, stamp[r])
      /\ phase' = [phase EXCEPT ![r] = "done"]
      /\ UNCHANGED <<now, stamp, write>>
  BY ClockAssumption DEF Write, GlobalTypeOK, RequestsOK
<1>2. StoreTypeOK'
  BY <1>1, IngestType DEF GlobalTypeOK
<1>3. SameUnswept(journal, stored, now)'
  BY <1>1, IngestKeepsReplay DEF GlobalTypeOK
<1>4. /\ phase' \in [Requests -> {"new", "reading", "writing", "done", "failed"}]
      /\ \A q \in Requests : phase'[q] = "new" => phase[q] = "new"
      /\ now <= now /\ now <= MaxTime
  BY <1>1 DEF GlobalTypeOK, RequestsOK
<1> QED
  BY <1>1, <1>2, <1>3, <1>4, OthersKeepRequests

LEMMA CrashKeepsInv ==
  ASSUME GlobalInv, GlobalCrash
  PROVE  GlobalInv'
<1> USE DEF GlobalInv
<1>0. PICK part \in SUBSET NoticeType, at \in Nat : StoreCrash(part, at)
  <2>1. ASSUME StoreCrash({}, now)
        PROVE  \E part \in SUBSET NoticeType, at \in Nat : StoreCrash(part, at)
    BY <2>1 DEF RequestsOK
  <2>2. ASSUME NEW r \in Requests, StoreCrash({write[r]}, stamp[r])
        PROVE  \E part \in SUBSET NoticeType, at \in Nat : StoreCrash(part, at)
    <3>1. {write[r]} \in SUBSET NoticeType /\ stamp[r] \in Nat
      BY ClockAssumption DEF GlobalTypeOK, RequestsOK
    <3> QED
      BY <2>2, <3>1
  <2> QED
    BY <2>1, <2>2 DEF GlobalCrash
<1>1. StoreTypeOK'
  BY <1>0, CrashType DEF GlobalTypeOK, RequestsOK
<1>2. SameUnswept(journal, stored, now)'
  BY <1>0, CrashMakesReplay
<1>3. /\ UNCHANGED <<now, stamp, write>>
      /\ phase' = [r \in Requests |->
                     IF phase[r] \in {"reading", "writing"} THEN "failed" ELSE phase[r]]
  BY DEF GlobalCrash
<1>4. /\ phase' \in [Requests -> {"new", "reading", "writing", "done", "failed"}]
      /\ \A q \in Requests : phase'[q] = "new" => phase[q] = "new"
      /\ now \in Nat /\ now <= now /\ now <= MaxTime
  BY <1>3 DEF GlobalTypeOK, RequestsOK
<1> QED
  BY <1>1, <1>2, <1>3, <1>4, OthersKeepRequests

LEMMA OperateKeepsInv ==
  ASSUME GlobalInv, GlobalOperate
  PROVE  GlobalInv'
<1> USE DEF GlobalInv
<1>1. now \in Nat /\ now <= now /\ now <= MaxTime /\ StoreTypeOK
  BY DEF GlobalTypeOK, RequestsOK
<1>2. /\ UNCHANGED <<now, phase, stamp, write>>
      /\ (\E k \in DOMAIN stored : AcknowledgeIncident(k)) \/ StateIngestSweep
  BY DEF GlobalOperate
<1>3. StoreTypeOK' /\ SameUnswept(journal, stored, now)'
  BY <1>1, <1>2, AcknowledgeType, SweepType, AcknowledgeKeepsReplay, SweepKeepsReplay
<1> QED
  BY <1>1, <1>2, <1>3, OthersKeepRequests DEF GlobalTypeOK

LEMMA GlobalInvStep == GlobalInv /\ [GlobalNext]_globalVars => GlobalInv'
<1> SUFFICES ASSUME GlobalInv, [GlobalNext]_globalVars
             PROVE  GlobalInv'
  OBVIOUS
<1>0. now \in Nat /\ StoreTypeOK
  BY DEF GlobalInv, GlobalTypeOK, RequestsOK
<1>1. ASSUME NEW r \in Requests, BeginCreate(r)
      PROVE  GlobalInv'
  <2> DEFINE w == [id |-> now', createdAt |-> now', status |-> "open", events |-> {now'}]
  <2>1. w \in NoticeType /\ w.events \subseteq {now'}
    BY <1>0, <1>1 DEF BeginCreate, Begin, Advance, NoticeType
  <2>2. Begin(r, "writing") /\ write' = [write EXCEPT ![r] = w] /\ UNCHANGED storeVars
    BY <1>1 DEF BeginCreate
  <2> QED
    BY <2>1, <2>2, BeginKeepsInv
<1>2. ASSUME NEW r \in Requests, BeginUpdate(r)
      PROVE  GlobalInv'
  <2>1. NoWrite \in NoticeType /\ NoWrite.events \subseteq {now'}
    BY DEF NoWrite, NoticeType
  <2>2. Begin(r, "reading") /\ write' = write /\ UNCHANGED storeVars
    BY <1>2 DEF BeginUpdate
  <2> QED
    BY <2>1, <2>2, BeginKeepsInv
<1>3. ASSUME NEW r \in Requests, NotFound(r)
      PROVE  GlobalInv'
  <2>1. /\ phase' \in [Requests -> {"new", "reading", "writing", "done", "failed"}]
        /\ \A q \in Requests : phase'[q] = "new" => phase[q] = "new"
        /\ UNCHANGED <<now, storeVars, stamp, write>>
        /\ now <= now /\ now <= MaxTime
    BY <1>0, <1>3 DEF NotFound, GlobalInv, GlobalTypeOK, RequestsOK
  <2>2. StoreTypeOK' /\ SameUnswept(journal, stored, now)'
    BY <1>0, <2>1, ClockKeepsReplay DEF GlobalInv, StoreTypeOK, storeVars
  <2> QED
    BY <1>0, <2>1, <2>2, OthersKeepRequests DEF GlobalInv
<1>4. CASE GlobalTick
  <2>1. /\ now' \in Nat /\ now <= now' /\ now' <= MaxTime
        /\ UNCHANGED <<storeVars, phase, stamp, write>>
    BY <1>0, <1>4, ClockAssumption DEF GlobalTick, Advance, requestVars
  <2>2. StoreTypeOK' /\ SameUnswept(journal, stored, now)'
    BY <1>0, <2>1, ClockKeepsReplay DEF GlobalInv, StoreTypeOK, storeVars
  <2> QED
    BY <2>1, <2>2, OthersKeepRequests DEF GlobalInv, GlobalTypeOK
<1>5. CASE UNCHANGED globalVars
  BY <1>5 DEF globalVars, requestVars, storeVars, GlobalInv, GlobalTypeOK, StoreTypeOK, RequestsOK,
              SameUnswept, Unswept
<1> QED
  BY <1>1, <1>2, <1>3, <1>4, <1>5, ReadKeepsInv, WriteKeepsInv, OperateKeepsInv, CrashKeepsInv
     DEF GlobalNext

LEMMA GlobalInvariant == GlobalSpec => []GlobalInv
  BY GlobalInvInit, GlobalInvStep, PTL DEF GlobalSpec

-----------------------------------------------------------------------------
(* The theorems.                                                            *)

\* The store and the requests keep their types, and a request carries only
\* the event it dated itself (api.go:509-580).
THEOREM GlobalTypes == GlobalSpec => []GlobalTypeOK
  BY GlobalInvariant, PTL DEF GlobalInv

\* However requests, acknowledgements, sweeps and compactions interleave, a
\* crash loses no incident and revives none.
THEOREM JournalReplaysGlobals == GlobalSpec => []ReplayEqualsLive
<1>1. GlobalInv => ReplayEqualsLive
  BY ReplayIsSame DEF GlobalInv, GlobalTypeOK
<1> QED
  BY <1>1, GlobalInvariant, PTL

-----------------------------------------------------------------------------
(* Annotations.                                                             *)

\* A finite set of numbers, not empty, has a greatest.
LEMMA HasGreatest ==
  ASSUME NEW D \in SUBSET Nat, IsFiniteSet(D), D # {}
  PROVE  \E m \in D : \A d \in D : d <= m
<1> DEFINE Above(d) == {f \in D : f > d}
           T == {Above(d) : d \in D}
<1>1. T \subseteq FiniteSubsetsOf(D)
  <2>1. ASSUME NEW d \in D PROVE Above(d) \in FiniteSubsetsOf(D)
    <3>1. Above(d) \in SUBSET D
      OBVIOUS
    <3> QED BY <3>1, FS_Subset DEF FiniteSubsetsOf
  <2> QED BY <2>1
<1>2. T # {}
  OBVIOUS
<1>3. IsWellFoundedOn(StrictSubsetOrdering(D), FiniteSubsetsOf(D))
  BY FS_StrictSubsetOrderingWellFounded
<1> HIDE DEF T
<1>4. \E x \in T : \A y \in T : ~ (<<y, x>> \in StrictSubsetOrdering(D))
  BY <1>1, <1>2, <1>3, WFMin
<1>5. PICK m \in D : \A y \in T : ~ (<<y, Above(m)>> \in StrictSubsetOrdering(D))
  BY <1>4 DEF T
<1>6. ASSUME NEW d \in D, ~ (d <= m) PROVE FALSE
  <2>1. d \in Nat /\ m \in Nat /\ d > m
    BY <1>6
  <2>2. Above(d) \subseteq Above(m)
    <3>1. ASSUME NEW f \in D, f > d PROVE f > m
      <4>1. f \in Nat
        OBVIOUS
      <4> QED BY <2>1, <3>1, <4>1
    <3> QED BY <3>1
  <2>3. d \in Above(m) /\ d \notin Above(d)
    BY <2>1
  <2>4. <<Above(d), Above(m)>> \in StrictSubsetOrdering(D)
    BY <2>2, <2>3 DEF StrictSubsetOrdering
  <2>5. Above(d) \in T
    BY DEF T
  <2> QED BY <1>5, <2>4, <2>5
<1> QED BY <1>6

\* An event is among events, or as many newer ones as an incident keeps.
Holds(events, seq) ==
  seq \in events \/ Cardinality({f \in events : f > seq}) >= EventCap

\* Keeping the newest events only, one that was among them is still, or enough
\* newer ones are.
LEMMA NewestHolds ==
  ASSUME NEW A \in SUBSET Nat, IsFiniteSet(A), NEW seq \in Nat, Holds(A, seq)
  PROVE  Holds(Newest(A), seq)
<1> DEFINE B == {f \in A : f > seq}
           C == {f \in Newest(A) : f > seq}
           D == B \ Newest(A)
<1>1. /\ Newest(A) \in SUBSET A /\ B \in SUBSET A /\ C \in SUBSET A /\ D \in SUBSET A
      /\ D \in SUBSET Nat
  BY DEF Newest
<1>2. IsFiniteSet(B) /\ IsFiniteSet(C) /\ IsFiniteSet(D)
  BY <1>1, FS_Subset
<1>3. Cardinality(B) \in Nat /\ Cardinality(C) \in Nat /\ EventCap \in Nat
  BY <1>2, FS_CardinalityType, IncidentStoreAssumption
<1>4. CASE Cardinality(B) < EventCap
  <2>1. seq \in A
    BY <1>3, <1>4 DEF Holds
  <2> QED BY <1>4, <2>1 DEF Holds, Newest
<1>5. CASE ~ (Cardinality(B) < EventCap) /\ D = {}
  <2>1. B \in SUBSET C
    BY <1>5
  <2> HIDE DEF B, C
  <2>2. Cardinality(B) <= Cardinality(C)
    BY <1>2, <2>1, FS_Subset
  <2>3. Cardinality(C) >= EventCap
    BY <1>3, <1>5, <2>2
  <2> QED BY <2>3 DEF Holds, C
<1>6. CASE D # {}
  <2>1. PICK m \in D : \A d \in D : d <= m
    BY <1>1, <1>2, <1>6, HasGreatest
  <2> DEFINE E == {f \in A : f > m}
  <2>2. m \in A /\ m \in Nat /\ m > seq /\ m \notin Newest(A)
    BY <1>1, <2>1
  <2>3. ~ (Cardinality(E) < EventCap)
    BY <2>2 DEF Newest
  <2>4. E \in SUBSET C
    <3>1. ASSUME NEW f \in A, f > m PROVE f \in Newest(A) /\ f > seq
      <4>1. f \in Nat /\ f > seq
        BY <2>2, <3>1
      <4>2. f \notin D
        BY <2>1, <2>2, <3>1, <4>1
      <4> QED BY <4>1, <4>2
    <3> QED BY <3>1
  <2>5. E \in SUBSET A
    OBVIOUS
  <2>6. IsFiniteSet(E)
    BY <2>5, FS_Subset
  <2> HIDE DEF E, C
  <2>7. Cardinality(E) <= Cardinality(C) /\ Cardinality(E) \in Nat
    BY <1>2, <2>4, <2>6, FS_Subset, FS_CardinalityType
  <2>8. Cardinality(C) >= EventCap
    BY <1>3, <2>3, <2>7
  <2> QED BY <2>8 DEF Holds, C
<1> QED BY <1>4, <1>5, <1>6

\* Nor does an event vanish when others are added.
LEMMA MoreHold ==
  ASSUME NEW A \in SUBSET Nat, NEW B \in SUBSET Nat, IsFiniteSet(B), A \subseteq B,
         NEW seq \in Nat, Holds(A, seq)
  PROVE  Holds(B, seq)
<1> DEFINE a == {f \in A : f > seq}
           b == {f \in B : f > seq}
<1>1. a \in SUBSET b /\ b \in SUBSET B
  OBVIOUS
<1>2. IsFiniteSet(b)
  BY <1>1, FS_Subset
<1> HIDE DEF a, b
<1>3. /\ Cardinality(a) <= Cardinality(b) /\ Cardinality(a) \in Nat /\ Cardinality(b) \in Nat
      /\ EventCap \in Nat
  BY <1>1, <1>2, FS_Subset, FS_CardinalityType, IncidentStoreAssumption
<1>4. Cardinality(a) >= EventCap => Cardinality(b) >= EventCap
  BY <1>3
<1> QED BY <1>4 DEF Holds, a, b

AllEventsOf(incs, k) == IF k \in DOMAIN incs THEN incs[k].events ELSE {}

FiniteEvents(incs) == \A k \in DOMAIN incs : IsFiniteSet(incs[k].events)

\* What was reported of what is stored is there, or enough that is newer.
AnnotationsKept ==
  /\ FiniteEvents(stored) /\ FiniteEvents(journal)
  /\ \A e \in reported :
       /\ e.incident \in DOMAIN stored /\ e.seq \in Nat
       /\ Holds(stored[e.incident].events, e.seq)

AnnotationsInv == GlobalInv /\ AnnotationsKept

\* The events that an ingest, whole or in part, leaves in an incident: those it
\* had, or the newest of those and of what was added.
Added(events, k, more) ==
  \/ k \in DOMAIN stored /\ events = stored[k].events
  \/ \E new \in SUBSET more : events = Newest(AllEventsOf(stored, k) \cup new)

\* All the events of some notices are among more.
Within(notices, more) == \A n \in notices : n.events \subseteq more

LEMMA AddedHolds ==
  ASSUME StoreTypeOK, FiniteEvents(stored), NEW k, NEW more \in SUBSET Nat, IsFiniteSet(more),
         NEW events, Added(events, k, more)
  PROVE  /\ IsFiniteSet(events)
         /\ k \in DOMAIN stored =>
              \A seq \in Nat : Holds(stored[k].events, seq) => Holds(events, seq)
<1>1. AllEventsOf(stored, k) \in SUBSET Nat /\ IsFiniteSet(AllEventsOf(stored, k))
  <2>1. CASE k \in DOMAIN stored
    BY <2>1 DEF AllEventsOf, FiniteEvents, StoreTypeOK, StoredIncident
  <2>2. CASE k \notin DOMAIN stored
    BY <2>2, FS_EmptySet DEF AllEventsOf
  <2> QED BY <2>1, <2>2
<1>2. CASE k \in DOMAIN stored /\ events = stored[k].events
  BY <1>2 DEF FiniteEvents
<1>3. ASSUME NEW new \in SUBSET more, events = Newest(AllEventsOf(stored, k) \cup new)
      PROVE  /\ IsFiniteSet(events)
             /\ k \in DOMAIN stored =>
                  \A seq \in Nat : Holds(stored[k].events, seq) => Holds(events, seq)
  <2> DEFINE all == AllEventsOf(stored, k) \cup new
  <2>1. all \in SUBSET Nat
    BY <1>1
  <2>2. IsFiniteSet(new)
    BY FS_Subset
  <2>3. IsFiniteSet(all)
    BY <1>1, <2>2, FS_Union
  <2>4. events \in SUBSET all
    BY <1>3 DEF Newest
  <2>5. AllEventsOf(stored, k) \subseteq all
    OBVIOUS
  <2> HIDE DEF all
  <2>6. IsFiniteSet(events)
    BY <2>3, <2>4, FS_Subset
  <2>7. ASSUME k \in DOMAIN stored, NEW seq \in Nat, Holds(stored[k].events, seq)
        PROVE  Holds(events, seq)
    <3>1. Holds(AllEventsOf(stored, k), seq)
      BY <2>7 DEF AllEventsOf
    <3>2. Holds(all, seq)
      BY <1>1, <2>1, <2>3, <2>5, <3>1, MoreHold
    <3>3. events = Newest(all)
      BY <1>3 DEF all
    <3> QED BY <2>1, <2>3, <3>2, <3>3, NewestHolds
  <2> QED BY <2>6, <2>7
<1> QED BY <1>2, <1>3 DEF Added

\* What one notice makes of an incident that is being merged.
LEMMA MergedEvents ==
  ASSUME NEW base, NEW notices, NEW at, NEW more, Within(notices, more),
         NEW merged, merged = Merge(base, stored, notices, at)
  PROVE  \A k \in DOMAIN merged :
           Added(merged[k].events, k, more) \/ (k \in DOMAIN base /\ merged[k] = base[k])
<1> SUFFICES ASSUME NEW k \in DOMAIN merged
             PROVE  Added(merged[k].events, k, more) \/ (k \in DOMAIN base /\ merged[k] = base[k])
  OBVIOUS
<1>1. CASE \E n \in notices : KeyOf(n) = k
  <2> DEFINE n == CHOOSE m \in notices : KeyOf(m) = k
  <2>1. n \in notices /\ KeyOf(n) = k
    BY <1>1
  <2>2. merged[k] = Upsert(stored, n, at)
    BY <1>1 DEF Merge
  <2> HIDE DEF n
  <2>3. Upsert(stored, n, at).events = Newest(AllEventsOf(stored, k) \cup n.events)
    BY <2>1 DEF Upsert, AllEventsOf
  <2>4. n.events \in SUBSET more
    BY <2>1 DEF Within
  <2> QED BY <2>2, <2>3, <2>4 DEF Added
<1>2. CASE ~ \E n \in notices : KeyOf(n) = k
  BY <1>2 DEF Merge
<1> QED BY <1>1, <1>2

\* A step that only adds to incidents, and annotations it leaves where they belong.
OnlyAdds(more) == \A k \in DOMAIN stored' : Added(stored'[k].events, k, more)

IsThere(told) ==
  \A e \in told : e.incident \in DOMAIN stored' =>
    e.seq \in Nat /\ Holds(stored'[e.incident].events, e.seq)

\* Annotations stay, through any step of the store that only adds to incidents.
LEMMA AddedKeeps ==
  ASSUME AnnotationsInv, NEW more \in SUBSET Nat, IsFiniteSet(more),
         OnlyAdds(more), FiniteEvents(journal'),
         NEW told, reported' = StillStored(reported \cup told), IsThere(told)
  PROVE  AnnotationsKept'
<1>1. /\ StoreTypeOK /\ FiniteEvents(stored)
      /\ \A e \in reported :
           /\ e.incident \in DOMAIN stored /\ e.seq \in Nat
           /\ Holds(stored[e.incident].events, e.seq)
  BY DEF AnnotationsInv, AnnotationsKept, GlobalInv, GlobalTypeOK
<1>2. FiniteEvents(stored')
  BY <1>1, AddedHolds DEF FiniteEvents, OnlyAdds
<1>3. ASSUME NEW e \in reported'
      PROVE  /\ e.incident \in DOMAIN stored' /\ e.seq \in Nat
             /\ Holds(stored'[e.incident].events, e.seq)
  <2>1. e \in reported \cup told /\ e.incident \in DOMAIN stored'
    BY DEF StillStored
  <2>2. CASE e \in told
    BY <2>1, <2>2 DEF IsThere
  <2>3. CASE e \in reported
    BY <1>1, <2>1, <2>3, AddedHolds DEF OnlyAdds
  <2> QED BY <2>1, <2>2, <2>3
<1> QED BY <1>2, <1>3 DEF AnnotationsKept

\* A document of one notice, merged, adds to an incident of the store.
LEMMA MergeAdds ==
  ASSUME AnnotationsInv, NEW base, FiniteEvents(base), NEW notices, NEW at,
         NEW more \in SUBSET Nat, IsFiniteSet(more), Within(notices, more)
  PROVE  FiniteEvents(Merge(base, stored, notices, at))
<1> DEFINE m == Merge(base, stored, notices, at)
<1>1. StoreTypeOK /\ FiniteEvents(stored)
  BY DEF AnnotationsInv, AnnotationsKept, GlobalInv, GlobalTypeOK
<1>2. ASSUME NEW k \in DOMAIN m PROVE IsFiniteSet(m[k].events)
  <2>1. CASE Added(m[k].events, k, more)
    <3> HIDE DEF m
    <3> QED BY <1>1, <2>1, AddedHolds
  <2>2. CASE k \in DOMAIN base /\ m[k] = base[k]
    BY <2>2 DEF FiniteEvents
  <2>3. \/ Added(m[k].events, k, more)
        \/ k \in DOMAIN base /\ m[k] = base[k]
    <3>1. m = Merge(base, stored, notices, at)
      OBVIOUS
    <3> HIDE DEF m
    <3> QED BY <3>1, MergedEvents
  <2> HIDE DEF m
  <2> QED BY <2>1, <2>2, <2>3
<1> QED BY <1>2 DEF FiniteEvents

LEMMA SweptIs ==
  ASSUME NEW incs, NEW at, NEW k \in DOMAIN SweepClosed(incs, at)
  PROVE  k \in DOMAIN incs /\ k \in Unswept(incs, at) /\ SweepClosed(incs, at)[k] = incs[k]
BY DEF SweepClosed, Unswept

LEMMA WriteKeepsAnnotations ==
  ASSUME AnnotationsInv, NEW r \in Requests, Write(r)
  PROVE  AnnotationsKept'
<1> DEFINE w == write[r]
           m == Merge(stored, stored, {w}, stamp[r])
           j == Merge(journal, stored, {w}, stamp[r])
           told == {[incident |-> KeyOf(w), seq |-> e] : e \in w.events}
<1>1. /\ StoreTypeOK /\ FiniteEvents(stored) /\ FiniteEvents(journal)
      /\ stamp[r] \in Nat /\ w.events \in SUBSET {stamp[r]}
  BY ClockAssumption DEF AnnotationsInv, AnnotationsKept, GlobalInv, GlobalTypeOK
<1>2. w.events \in SUBSET Nat /\ IsFiniteSet(w.events)
  BY <1>1, FS_Singleton, FS_Subset
<1>3. /\ stored' = SweepClosed(m, stamp[r]) /\ journal' \in {stored', j}
      /\ reported' = StillStored(reported \cup told)
  BY DEF Write, IngestEscalations
<1> HIDE DEF w, told
<1>4. FiniteEvents(m) /\ FiniteEvents(j)
  <2>1. Within({w}, w.events)
    BY DEF Within
  <2> QED BY <1>1, <1>2, <2>1, MergeAdds
<1>5. FiniteEvents(journal')
  <2>1. FiniteEvents(stored')
    <3> HIDE DEF m
    <3> QED BY <1>3, <1>4, SweptIs DEF FiniteEvents
  <2> QED BY <1>3, <1>4, <2>1
<1>6. ASSUME NEW k \in DOMAIN stored' PROVE Added(stored'[k].events, k, w.events)
  <2>1. k \in DOMAIN m /\ stored'[k] = m[k]
    <3> HIDE DEF m
    <3> QED BY <1>3, SweptIs
  <2>2. \/ Added(m[k].events, k, w.events)
        \/ k \in DOMAIN stored /\ m[k] = stored[k]
    <3>1. Within({w}, w.events)
      BY DEF Within
    <3>2. m = Merge(stored, stored, {w}, stamp[r])
      OBVIOUS
    <3> HIDE DEF m
    <3> QED BY <2>1, <3>1, <3>2, MergedEvents
  <2> HIDE DEF m
  <2> QED BY <2>1, <2>2 DEF Added
<1>7. ASSUME NEW e \in told, e.incident \in DOMAIN stored'
      PROVE  e.seq \in Nat /\ Holds(stored'[e.incident].events, e.seq)
  <2> DEFINE all == AllEventsOf(stored, KeyOf(w)) \cup w.events
  <2>1. e.incident = KeyOf(w) /\ e.seq \in w.events
    BY DEF told
  <2>2. KeyOf(w) \in DOMAIN m /\ stored'[KeyOf(w)] = m[KeyOf(w)]
    <3> HIDE DEF m
    <3> QED BY <1>3, <1>7, <2>1, SweptIs
  <2>3. m[KeyOf(w)] = Upsert(stored, w, stamp[r])
    BY <2>2 DEF Merge
  <2>4. Upsert(stored, w, stamp[r]).events = Newest(all)
    BY DEF Upsert, AllEventsOf
  <2>5. AllEventsOf(stored, KeyOf(w)) \in SUBSET Nat /\ IsFiniteSet(AllEventsOf(stored, KeyOf(w)))
    <3>1. CASE KeyOf(w) \in DOMAIN stored
      BY <1>1, <3>1 DEF AllEventsOf, FiniteEvents, StoreTypeOK, StoredIncident
    <3>2. CASE KeyOf(w) \notin DOMAIN stored
      BY <3>2, FS_EmptySet DEF AllEventsOf
    <3> QED BY <3>1, <3>2
  <2>6. all \in SUBSET Nat /\ IsFiniteSet(all)
    BY <1>2, <2>5, FS_Union
  <2>7. Holds(all, e.seq) /\ e.seq \in Nat
    BY <1>2, <2>1 DEF Holds
  <2> HIDE DEF all, m
  <2> QED BY <2>1, <2>2, <2>3, <2>4, <2>6, <2>7, NewestHolds
<1>8. OnlyAdds(w.events) /\ IsThere(told)
  BY <1>6, <1>7 DEF OnlyAdds, IsThere
<1> QED BY <1>2, <1>3, <1>5, <1>8, AddedKeeps

LEMMA CrashKeepsAnnotations ==
  ASSUME AnnotationsInv, GlobalCrash
  PROVE  AnnotationsKept'
<1>1. /\ StoreTypeOK /\ FiniteEvents(stored) /\ FiniteEvents(journal)
      /\ SameUnswept(journal, stored, now) /\ reported' = StillStored(reported)
  BY DEF AnnotationsInv, AnnotationsKept, GlobalInv, GlobalTypeOK, GlobalCrash
<1>2. ASSUME NEW notices, NEW at, NEW more \in SUBSET Nat, IsFiniteSet(more),
             Within(notices, more), StoreCrash(notices, at)
      PROVE  AnnotationsKept'
  <2> DEFINE m == Merge(journal, stored, notices, at)
  <2>1. stored' = SweepClosed(m, now) /\ journal' = stored'
    BY <1>2 DEF StoreCrash
  <2>2. ASSUME NEW k \in DOMAIN stored' PROVE Added(stored'[k].events, k, more)
    <3>1. k \in DOMAIN m /\ k \in Unswept(m, now) /\ stored'[k] = m[k]
      <4> HIDE DEF m
      <4> QED BY <2>1, SweptIs
    <3>2. \/ Added(m[k].events, k, more)
          \/ k \in DOMAIN journal /\ m[k] = journal[k]
      <4>1. m = Merge(journal, stored, notices, at)
        OBVIOUS
      <4> HIDE DEF m
      <4> QED BY <1>2, <3>1, <4>1, MergedEvents
    <3> HIDE DEF m
    <3>3. CASE k \in DOMAIN journal /\ m[k] = journal[k]
      <4>1. k \in Unswept(journal, now) /\ k \in Key
        BY <1>1, <3>1, <3>3 DEF Unswept, StoreTypeOK
      <4>2. k \in DOMAIN stored /\ stored[k] = journal[k]
        BY <1>1, <4>1 DEF SameUnswept, Unswept
      <4> QED BY <3>1, <3>3, <4>2 DEF Added
    <3> QED BY <3>1, <3>2, <3>3 DEF Added
  <2>3. FiniteEvents(journal')
    <3>1. FiniteEvents(m)
      BY <1>1, <1>2, MergeAdds
    <3> HIDE DEF m
    <3> QED BY <2>1, <3>1, SweptIs DEF FiniteEvents
  <2>4. reported' = StillStored(reported \cup {})
    BY <1>1
  <2> HIDE DEF m
  <2>5. OnlyAdds(more) /\ IsThere({})
    BY <2>2 DEF OnlyAdds, IsThere
  <2> QED BY <1>2, <2>3, <2>4, <2>5, AddedKeeps
<1>3. ASSUME StoreCrash({}, now) PROVE AnnotationsKept'
  <2>1. Within({}, {})
    BY DEF Within
  <2> QED BY <1>2, <1>3, <2>1, FS_EmptySet
<1>4. ASSUME NEW r \in Requests, StoreCrash({write[r]}, stamp[r]) PROVE AnnotationsKept'
  <2>1. stamp[r] \in Nat /\ write[r].events \subseteq {stamp[r]}
    BY ClockAssumption DEF AnnotationsInv, GlobalInv, GlobalTypeOK
  <2>2. {stamp[r]} \in SUBSET Nat /\ IsFiniteSet({stamp[r]}) /\ Within({write[r]}, {stamp[r]})
    BY <2>1, FS_Singleton DEF Within
  <2> QED BY <1>2, <1>4, <2>1, <2>2
<1> QED BY <1>3, <1>4 DEF GlobalCrash

LEMMA OperateKeepsAnnotations ==
  ASSUME AnnotationsInv, GlobalOperate
  PROVE  AnnotationsKept'
<1>1. /\ StoreTypeOK /\ FiniteEvents(stored) /\ FiniteEvents(journal)
      /\ reported' = StillStored(reported \cup {})
  BY DEF AnnotationsInv, AnnotationsKept, GlobalInv, GlobalTypeOK, GlobalOperate
<1>2. ASSUME NEW k \in DOMAIN stored, AcknowledgeIncident(k)
      PROVE  /\ \A i \in DOMAIN stored' : i \in DOMAIN stored /\ stored'[i].events = stored[i].events
             /\ FiniteEvents(journal')
  <2> DEFINE acked == [stored[k] EXCEPT !.status = "acknowledged", !.observedAt = now]
  <2>1. acked.events = stored[k].events
    BY <1>1 DEF StoreTypeOK, StoredIncident
  <2>2. /\ stored' = [stored EXCEPT ![k] = acked]
        /\ journal' = [j \in DOMAIN journal \cup {k} |-> IF j = k THEN acked ELSE journal[j]]
    BY <1>2 DEF AcknowledgeIncident
  <2> HIDE DEF acked
  <2> QED BY <1>1, <2>1, <2>2 DEF FiniteEvents
<1>3. ASSUME StateIngestSweep
      PROVE  /\ \A i \in DOMAIN stored' : i \in DOMAIN stored /\ stored'[i].events = stored[i].events
             /\ FiniteEvents(journal')
  <2>1. stored' = SweepClosed(stored, now) /\ journal' \in {stored', journal}
    BY <1>3 DEF StateIngestSweep
  <2>2. \A i \in DOMAIN stored' : i \in DOMAIN stored /\ stored'[i] = stored[i]
    BY <2>1, SweptIs
  <2> QED BY <1>1, <2>1, <2>2 DEF FiniteEvents
<1>4. /\ \A i \in DOMAIN stored' : i \in DOMAIN stored /\ stored'[i].events = stored[i].events
      /\ FiniteEvents(journal')
  BY <1>2, <1>3 DEF GlobalOperate
<1>5. OnlyAdds({}) /\ IsThere({})
  BY <1>4 DEF Added, OnlyAdds, IsThere
<1> QED BY <1>1, <1>4, <1>5, FS_EmptySet, AddedKeeps

LEMMA AnnotationsStep == AnnotationsInv /\ [GlobalNext]_globalVars => AnnotationsInv'
<1> SUFFICES ASSUME AnnotationsInv, [GlobalNext]_globalVars PROVE AnnotationsKept'
  BY GlobalInvStep DEF AnnotationsInv
<1>1. CASE UNCHANGED <<storeVars, reported>>
  BY <1>1 DEF AnnotationsInv, AnnotationsKept, FiniteEvents, storeVars, Holds
<1>2. ASSUME NEW r \in Requests,
             \/ BeginCreate(r) \/ BeginUpdate(r) \/ NotFound(r)
             \/ \E k \in DOMAIN stored, closes, says \in BOOLEAN : Read(r, k, closes, says)
      PROVE  UNCHANGED <<storeVars, reported>>
  BY <1>2 DEF BeginCreate, BeginUpdate, NotFound, Read
<1>3. GlobalTick \/ UNCHANGED globalVars => UNCHANGED <<storeVars, reported>>
  BY DEF GlobalTick, globalVars, requestVars
<1> QED BY <1>1, <1>2, <1>3, WriteKeepsAnnotations, CrashKeepsAnnotations, OperateKeepsAnnotations
        DEF GlobalNext

LEMMA AnnotationsInitially == GlobalInit => AnnotationsInv
<1> SUFFICES ASSUME GlobalInit PROVE AnnotationsKept
  BY GlobalInvInit DEF AnnotationsInv
<1>1. DOMAIN NoIncidents = {}
  BY DEF NoIncidents
<1>2. stored = NoIncidents /\ journal = NoIncidents /\ reported = {}
  BY DEF GlobalInit, StoreInit
<1> QED BY <1>1, <1>2 DEF AnnotationsKept, FiniteEvents

\* The event of every request that ingested is among its incident's events, or
\* EventCap newer ones are, for any requests, cap and retention: whatever reads
\* and writes of one incident interleave, and whenever the store dies
\* (api.go:458-580, storage.go:768-857).
THEOREM NoAnnotationEverLost == GlobalSpec => []NoAnnotationLost
<1>1. AnnotationsInv => NoAnnotationLost
  BY DEF AnnotationsInv, AnnotationsKept, NoAnnotationLost, Holds
<1> QED BY <1>1, AnnotationsInitially, AnnotationsStep, PTL DEF GlobalSpec
=============================================================================
