------------------------- MODULE CurrentLayersProofs -------------------------
(****************************************************************************)
(* Proofs about the current layers: types, that nothing is outside every    *)
(* scope, that mutes are seen and survive crashes, that the fleet hash is   *)
(* current; and, when no two documents share a target (Owned), that the     *)
(* summaries agree with the details.                                        *)
(****************************************************************************)
EXTENDS CurrentLayers, TLAPS

\* Of every scope: it holds states of its document only, and their targets.
ScopesOK ==
  \A d \in DOMAIN scopes :
    /\ scopes[d].states \subseteq Reportable(d)
    /\ scopes[d].targets = TargetsOf(scopes[d].states)

\* The inductive invariant.  NothingOrphaned needs the scopes to be disjoint,
\* which ScopesOK gives; MutesAreSeen needs NothingOrphaned, since summaries
\* are not rebuilt while there is no detail.
LayersInv ==
  /\ TypeOK
  /\ ScopesOK
  /\ NothingOrphaned
  /\ MutesAreSeen
  /\ FleetHashIsCurrent
  /\ MutesSurviveCrash

\* No two documents report states of one target.
Owned ==
  \A s, r \in States :
    TargetOf[s] = TargetOf[r] /\ TargetOf[s] # NoTarget => DocOf[s] = DocOf[r]

-----------------------------------------------------------------------------
(* About the helpers.                                                       *)

\* Active, with the time as a parameter: what it is of now and of now'.
ActiveAt(ms, n) == Keep(ms, {s \in DOMAIN ms : ms[s].expiresAt > n})

LEMMA ActiveAtNow == \A ms : Active(ms) = ActiveAt(ms, now)
BY DEF Active, ActiveAt

\* It keeps the mutes that have not expired, as they are.
LEMMA ActiveIs ==
  ASSUME NEW ms, NEW n
  PROVE  /\ \A s : s \in DOMAIN ActiveAt(ms, n)
                     <=> s \in DOMAIN ms /\ ms[s].expiresAt > n
         /\ \A s \in DOMAIN ActiveAt(ms, n) : ActiveAt(ms, n)[s] = ms[s]
BY DEF ActiveAt, Keep

\* Maps of mutes of which each has the active mutes of the other sweep alike.
LEMMA ActiveAlike ==
  ASSUME NEW ms, NEW ns, NEW n,
         \A s \in DOMAIN ActiveAt(ms, n) : s \in DOMAIN ActiveAt(ns, n) /\ ns[s] = ms[s],
         \A s \in DOMAIN ActiveAt(ns, n) : s \in DOMAIN ActiveAt(ms, n)
  PROVE  ActiveAt(ms, n) = ActiveAt(ns, n)
<1> DEFINE D == DOMAIN ActiveAt(ms, n)
<1>1. DOMAIN ActiveAt(ns, n) = D
  OBVIOUS
<1>2. ActiveAt(ms, n) = [s \in D |-> ms[s]] /\ ActiveAt(ns, n) = [s \in D |-> ns[s]]
  BY <1>1 DEF ActiveAt, Keep
<1> QED
  BY <1>2

\* Sweeping twice is sweeping once.
LEMMA ActiveTwice ==
  ASSUME NEW ms, NEW n
  PROVE  ActiveAt(ActiveAt(ms, n), n) = ActiveAt(ms, n)
BY ActiveIs, ActiveAlike

\* Maps that sweep alike now sweep alike later.
LEMMA ActiveLater ==
  ASSUME NEW ms, NEW ns, NEW n \in Nat, NEW later \in Nat, later >= n,
         \A s \in DOMAIN ms : ms[s].expiresAt \in Nat,
         \A s \in DOMAIN ns : ns[s].expiresAt \in Nat,
         ActiveAt(ms, n) = ActiveAt(ns, n)
  PROVE  ActiveAt(ms, later) = ActiveAt(ns, later)
<1>1. \A s \in DOMAIN ActiveAt(ms, later) : s \in DOMAIN ActiveAt(ns, later) /\ ns[s] = ms[s]
  <2> SUFFICES ASSUME NEW s \in DOMAIN ms, ms[s].expiresAt > later
               PROVE  s \in DOMAIN ns /\ ns[s].expiresAt > later /\ ns[s] = ms[s]
    BY ActiveIs
  <2>1. ms[s].expiresAt > n
    <3>1. ms[s].expiresAt \in Nat
      OBVIOUS
    <3> QED
      BY <3>1, SMT
  <2>2. s \in DOMAIN ActiveAt(ms, n) /\ ActiveAt(ms, n)[s] = ms[s]
    BY <2>1, ActiveIs
  <2> QED
    BY <2>2, ActiveIs
<1>2. \A s \in DOMAIN ActiveAt(ns, later) : s \in DOMAIN ActiveAt(ms, later)
  <2> SUFFICES ASSUME NEW s \in DOMAIN ns, ns[s].expiresAt > later
               PROVE  s \in DOMAIN ms /\ ms[s].expiresAt > later
    BY ActiveIs
  <2>1. ns[s].expiresAt > n
    <3>1. ns[s].expiresAt \in Nat
      OBVIOUS
    <3> QED
      BY <3>1, SMT
  <2>2. s \in DOMAIN ActiveAt(ns, n) /\ ActiveAt(ns, n)[s] = ns[s]
    BY <2>1, ActiveIs
  <2> QED
    BY <2>2, ActiveIs
<1> QED
  BY <1>1, <1>2, ActiveAlike

\* Targets of fewer states are fewer.
LEMMA TargetsOfIs ==
  ASSUME NEW ss, ss \subseteq States
  PROVE  /\ TargetsOf(ss) \subseteq Targets
         /\ \A t : t \in TargetsOf(ss) <=> t # NoTarget /\ \E s \in ss : TargetOf[s] = t
BY LayersAssumption DEF TargetsOf

\* Summaries hold, of each target, its states in the details given.
LEMMA SummariesAre ==
  ASSUME NEW ds, NEW ms
  PROVE  /\ DOMAIN Summaries(ds, ms) = TargetsOf(DOMAIN ds)
         /\ \A t \in TargetsOf(DOMAIN ds) :
              /\ DOMAIN Summaries(ds, ms)[t] = {r \in DOMAIN ds : TargetOf[r] = t}
              /\ \A s \in DOMAIN Summaries(ds, ms)[t] :
                   Summaries(ds, ms)[t][s] = Seen(s, ds[s], ms)
BY DEF Summaries

\* What is seen of a state: the detail given, and its mute if it is active.
LEMMA SeenIs ==
  ASSUME NEW s, NEW detail, NEW ms
  PROVE  /\ Seen(s, detail, ms).detail = detail
         /\ s \in DOMAIN ActiveAt(ms, now) => Seen(s, detail, ms).mute = ms[s]
         /\ s \notin DOMAIN ActiveAt(ms, now) => Seen(s, detail, ms).mute = NoMute
BY ActiveAtNow DEF Seen
\* A map of mutes.
IsMutes(ms) == DOMAIN ms \subseteq States /\ \A s \in DOMAIN ms : ms[s] \in Mute

\* Types of what is seen.
LEMMA SummariesTypes ==
  ASSUME NEW ds, DOMAIN ds \subseteq States, \A s \in DOMAIN ds : ds[s] \in Detail,
         NEW ms, IsMutes(ms),
         NEW t \in TargetsOf(DOMAIN ds)
  PROVE  /\ t \in Targets
         /\ DOMAIN Summaries(ds, ms)[t] \subseteq States
         /\ \A s \in DOMAIN Summaries(ds, ms)[t] : Summaries(ds, ms)[t][s] \in SeenState
<1>1. t \in Targets
  BY TargetsOfIs
<1>2. DOMAIN Summaries(ds, ms)[t] \subseteq DOMAIN ds
  BY SummariesAre
<1>3. ASSUME NEW s \in DOMAIN Summaries(ds, ms)[t]
      PROVE  Summaries(ds, ms)[t][s] \in SeenState
  <2>1. Summaries(ds, ms)[t][s] = Seen(s, ds[s], ms)
    BY SummariesAre
  <2>2. s \in DOMAIN ActiveAt(ms, now) => ms[s] \in Mute
    BY ActiveIs DEF IsMutes
  <2>3. ds[s] \in Detail
    BY <1>2
  <2>4. Seen(s, ds[s], ms) \in SeenState
    BY <2>2, <2>3, ActiveAtNow DEF Seen, SeenState
  <2> QED
    BY <2>1, <2>4
<1> QED
  BY <1>1, <1>2, <1>3

-----------------------------------------------------------------------------
(* Steps.                                                                   *)

\* An ingest changes no mute that is active, and writes none.
LEMMA IngestMutes ==
  ASSUME LayersInv, NEW d \in Docs, NEW reported \in SUBSET Reportable(d),
         NEW at \in Nat, IngestDocument(d, reported, at)
  PROVE  /\ now' = now
         /\ mutes' = ActiveAt(mutes, now)
         /\ ActiveAt(mutes', now') = ActiveAt(mutes, now)
         /\ MutesSurviveCrash'
<1>1. now' = now /\ mutes' = ActiveAt(mutes, now) /\ muteLog' \in {muteLog, ActiveAt(mutes, now)}
  BY ActiveAtNow DEF IngestDocument
<1>2. ActiveAt(muteLog, now) = ActiveAt(mutes, now)
  BY ActiveAtNow DEF LayersInv, MutesSurviveCrash
<1>3. ActiveAt(mutes', now') = ActiveAt(mutes, now)
  BY <1>1, ActiveTwice
<1>4. ActiveAt(muteLog', now') = ActiveAt(mutes', now')
  BY <1>1, <1>2, <1>3, ActiveTwice
<1>5. MutesSurviveCrash'
  BY <1>4 DEF MutesSurviveCrash, Active, ActiveAt
<1> QED
  BY <1>1, <1>3, <1>5

\* The details, targets and scopes an ingest leaves, entry by entry.
Left(d, reported, at) ==
  /\ DOMAIN details' = (DOMAIN details \cup reported)
                         \ (Gone(d, reported) \cup Evicted(d, at))
  /\ \A s \in DOMAIN details' :
       details'[s] = IF s \in reported THEN actual[s] ELSE details[s]
  /\ DOMAIN targets' = (DOMAIN targets \cup TargetsOf(reported))
                         \ TargetsLost(d, reported, at)
  /\ \A t \in DOMAIN targets' :
       targets'[t] = IF t \in TargetsOf(reported)
                     THEN IngestSummaries(reported)[t] ELSE targets[t]
  /\ DOMAIN scopes' = (DOMAIN scopes \cup {d}) \ Silent(d, at)
  /\ \A e \in DOMAIN scopes' :
       scopes'[e] = IF e = d THEN Rescoped(d, reported, at) ELSE scopes[e]
  /\ d \notin Silent(d, at)

LEMMA IngestLeaves ==
  ASSUME NEW d, NEW reported, NEW at, IngestDocument(d, reported, at)
  PROVE  Left(d, reported, at)
<1>1. DOMAIN IngestSummaries(reported) = TargetsOf(reported)
  BY SummariesAre DEF IngestSummaries
<1> QED
  BY <1>1 DEF IngestDocument, Silent, Left

\* Types through an ingest.
LEMMA IngestTypes ==
  ASSUME LayersInv, NEW d \in Docs, NEW reported \in SUBSET Reportable(d),
         NEW at \in Nat, IngestDocument(d, reported, at)
  PROVE  TypeOK' /\ ScopesOK'
<1>0. Left(d, reported, at)
  BY IngestLeaves
<1> USE DEF LayersInv
<1>1. reported \subseteq States /\ TargetsOf(reported) \subseteq Targets
  BY TargetsOfIs DEF Reportable
<1>2. ScopeOf(d).lastSeen \in Nat /\ ScopeOf(d).interval \in Nat
  BY DEF TypeOK, ScopeOf, Scope, NoScope
<1>3. Rescoped(d, reported, at) \in Scope
  <2>1. CASE d \in DOMAIN scopes /\ at > scopes[d].lastSeen
    <3>1. scopes[d].lastSeen \in Nat
      BY <2>1 DEF TypeOK, Scope
    <3>2. at - scopes[d].lastSeen \in Nat
      BY <2>1, <3>1
    <3> QED
      BY <1>1, <2>1, <3>2 DEF Rescoped, Scope
  <2>2. CASE ~ (d \in DOMAIN scopes /\ at > scopes[d].lastSeen)
    BY <1>1, <1>2, <2>2 DEF Rescoped, Scope
  <2> QED
    BY <2>1, <2>2
<1>4. DOMAIN details' \subseteq States /\ \A s \in DOMAIN details' : details'[s] \in Detail
  BY <1>0, <1>1 DEF TypeOK, Left
<1>5. DOMAIN scopes' \subseteq Docs /\ \A e \in DOMAIN scopes' : scopes'[e] \in Scope
  BY <1>0, <1>3 DEF TypeOK, Left
<1>6. DOMAIN mutes' \subseteq States /\ \A s \in DOMAIN mutes' : mutes'[s] \in Mute
  BY IngestMutes, ActiveIs DEF TypeOK
<1>7. muteLog' \in {muteLog, ActiveAt(mutes, now)}
  BY ActiveAtNow DEF IngestDocument
<1>8. DOMAIN muteLog' \subseteq States /\ \A s \in DOMAIN muteLog' : muteLog'[s] \in Mute
  BY <1>7, ActiveIs DEF TypeOK
<1>9. now' = now /\ actual' = actual
  BY DEF IngestDocument
<1>10. ASSUME NEW t \in DOMAIN targets'
       PROVE  /\ t \in Targets /\ DOMAIN targets'[t] \subseteq States
              /\ \A s \in DOMAIN targets'[t] : targets'[t][s] \in SeenState
  <2>1. CASE t \in TargetsOf(reported)
    <3> DEFINE ds == [s \in reported |-> actual[s]]
    <3>1. DOMAIN ds = reported /\ \A s \in DOMAIN ds : ds[s] \in Detail
      BY <1>1 DEF TypeOK
    <3>2. IsMutes(mutes)
      BY DEF TypeOK, IsMutes
    <3>3. targets'[t] = Summaries(ds, mutes)[t]
      BY <1>0, <1>10, <2>1 DEF IngestSummaries, Left
    <3> HIDE DEF ds
    <3> QED
      BY <1>1, <2>1, <3>1, <3>2, <3>3, SummariesTypes
  <2>2. CASE t \notin TargetsOf(reported)
    BY <1>0, <1>10, <2>2 DEF Left, TypeOK
  <2> QED
    BY <2>1, <2>2
<1>11. TypeOK'
  BY <1>4, <1>5, <1>6, <1>8, <1>9, <1>10 DEF TypeOK
<1>12. ScopesOK'
  <2> SUFFICES ASSUME NEW e \in DOMAIN scopes'
               PROVE  /\ scopes'[e].states \subseteq Reportable(e)
                      /\ scopes'[e].targets = TargetsOf(scopes'[e].states)
    BY DEF ScopesOK, Reportable, TargetsOf
  <2> QED
    BY <1>0 DEF ScopesOK, Rescoped, Left
<1> QED
  BY <1>11, <1>12

\* A state is in the scope of its own document or in none.
LEMMA ScopesDisjoint ==
  ASSUME ScopesOK, NEW e \in DOMAIN scopes, NEW s \in scopes[e].states
  PROVE  s \in States /\ DocOf[s] = e
BY DEF ScopesOK, Reportable

\* Which details an ingest leaves, by the scopes they are in.
LEMMA IngestDetails ==
  ASSUME LayersInv, NEW d \in Docs, NEW reported \in SUBSET Reportable(d),
         NEW at \in Nat, IngestDocument(d, reported, at), NEW s
  PROVE  s \in DOMAIN details'
           <=> \/ s \in reported
               \/ \E e \in DOMAIN scopes \ (Silent(d, at) \cup {d}) : s \in scopes[e].states
<1>0. Left(d, reported, at)
  BY IngestLeaves
<1> USE DEF LayersInv
<1>1. Silent(d, at) \subseteq DOMAIN scopes /\ d \notin Silent(d, at)
  BY DEF Silent
<1>2. ASSUME s \in reported
      PROVE  s \notin Gone(d, reported) /\ s \notin Evicted(d, at)
  <2>1. DocOf[s] = d
    BY <1>2 DEF Reportable
  <2> QED
    BY <1>1, <1>2, <2>1, ScopesDisjoint DEF Gone, Evicted
<1>3. ASSUME NEW e \in DOMAIN scopes \ (Silent(d, at) \cup {d}), s \in scopes[e].states
      PROVE  s \in DOMAIN details /\ s \notin Gone(d, reported) /\ s \notin Evicted(d, at)
  <2>1. s \in DOMAIN details /\ DocOf[s] = e
    BY <1>3, ScopesDisjoint DEF NothingOrphaned
  <2>2. s \notin ScopeOf(d).states
    BY <2>1, ScopesDisjoint DEF ScopeOf, NoScope
  <2>3. s \notin Evicted(d, at)
    BY <1>1, <2>1, ScopesDisjoint DEF Evicted
  <2> QED
    BY <2>1, <2>2, <2>3 DEF Gone
<1>4. ASSUME s \in DOMAIN details, s \notin reported, s \notin Gone(d, reported),
             s \notin Evicted(d, at)
      PROVE  \E e \in DOMAIN scopes \ (Silent(d, at) \cup {d}) : s \in scopes[e].states
  <2>1. PICK e \in DOMAIN scopes : s \in scopes[e].states
    BY <1>4 DEF NothingOrphaned
  <2>2. e # d
    BY <1>4, <2>1 DEF Gone, ScopeOf
  <2>3. e \notin Silent(d, at)
    BY <1>4, <2>1 DEF Evicted
  <2> QED
    BY <2>1, <2>2, <2>3
<1> QED
  BY <1>0, <1>2, <1>3, <1>4 DEF Left

\* After an ingest nothing is outside every scope.
LEMMA IngestOrphansNothing ==
  ASSUME LayersInv, NEW d \in Docs, NEW reported \in SUBSET Reportable(d),
         NEW at \in Nat, IngestDocument(d, reported, at)
  PROVE  NothingOrphaned'
<1>0. Left(d, reported, at)
  BY IngestLeaves
<1> USE DEF LayersInv
<1> DEFINE Others == DOMAIN scopes \ (Silent(d, at) \cup {d})
<1>1. /\ DOMAIN scopes' = Others \cup {d}
      /\ scopes'[d] = Rescoped(d, reported, at)
      /\ \A e \in Others : scopes'[e] = scopes[e]
  BY <1>0 DEF Left
<1>2. scopes'[d].states = reported /\ scopes'[d].targets = TargetsOf(reported)
  BY <1>1 DEF Rescoped
<1>3. \A s : s \in DOMAIN details' <=> s \in reported \/ \E e \in Others : s \in scopes[e].states
  BY IngestDetails
<1>4. DOMAIN details' = UNION {scopes'[e].states : e \in DOMAIN scopes'}
  <2>1. ASSUME NEW s \in DOMAIN details'
        PROVE  \E e \in DOMAIN scopes' : s \in scopes'[e].states
    BY <1>1, <1>2, <1>3, <2>1
  <2>2. ASSUME NEW e \in DOMAIN scopes', NEW s \in scopes'[e].states
        PROVE  s \in DOMAIN details'
    BY <1>1, <1>2, <1>3, <2>2
  <2> QED
    BY <2>1, <2>2
<1>5. ASSUME NEW t \in DOMAIN targets'
      PROVE  \E e \in DOMAIN scopes' : t \in scopes'[e].targets
  <2>1. CASE t \in TargetsOf(reported)
    BY <1>1, <1>2, <2>1
  <2>2. CASE t \notin TargetsOf(reported)
    <3>1. t \in DOMAIN targets /\ t \notin TargetsLost(d, reported, at)
      BY <1>0, <1>5, <2>2 DEF Left
    <3>2. PICK e \in DOMAIN scopes : t \in scopes[e].targets
      BY <3>1 DEF NothingOrphaned
    <3>3. e # d /\ e \notin Silent(d, at)
      BY <2>2, <3>1, <3>2 DEF TargetsLost, ScopeOf
    <3> QED
      BY <1>1, <3>2, <3>3
  <2> QED
    BY <2>1, <2>2
<1> QED
  BY <1>4, <1>5 DEF NothingOrphaned

\* After an ingest the mutes are seen.
LEMMA IngestShowsMutes ==
  ASSUME LayersInv, NEW d \in Docs, NEW reported \in SUBSET Reportable(d),
         NEW at \in Nat, IngestDocument(d, reported, at)
  PROVE  MutesAreSeen'
<1>0. Left(d, reported, at)
  BY IngestLeaves
<1> USE DEF LayersInv
<1> DEFINE Shown(t, s, seen) ==
             IF s \in DOMAIN ActiveAt(mutes, now)
             THEN seen.mute = mutes[s] ELSE seen.mute.expiresAt <= now
<1>1. \A t \in DOMAIN targets : \A s \in DOMAIN targets[t] : Shown(t, s, targets[t][s])
  BY ActiveAtNow DEF MutesAreSeen
<1>2. ASSUME NEW t \in DOMAIN targets', NEW s \in DOMAIN targets'[t]
      PROVE  Shown(t, s, targets'[t][s])
  <2>1. CASE t \in TargetsOf(reported)
    <3> DEFINE ds == [r \in reported |-> actual[r]]
    <3>1. targets'[t] = Summaries(ds, mutes)[t] /\ DOMAIN ds = reported
      BY <1>0, <2>1 DEF IngestSummaries, Left
    <3>2. targets'[t][s] = Seen(s, ds[s], mutes)
      BY <2>1, <3>1, SummariesAre
    <3>3. now \in Nat /\ NoMute.expiresAt <= now
      BY DEF TypeOK, NoMute
    <3> QED
      BY <3>2, <3>3, SeenIs
  <2>2. CASE t \notin TargetsOf(reported)
    BY <1>0, <1>1, <1>2, <2>2 DEF Left
  <2> QED
    BY <2>1, <2>2
<1>3. /\ now' = now
      /\ ActiveAt(mutes', now') = ActiveAt(mutes, now)
      /\ \A s \in DOMAIN ActiveAt(mutes, now) : mutes'[s] = mutes[s]
  BY IngestMutes, ActiveIs
<1>4. Active(mutes)' = ActiveAt(mutes, now)
  BY <1>3 DEF Active, ActiveAt
<1> QED
  BY <1>2, <1>3, <1>4 DEF MutesAreSeen

\* An ingest keeps the whole invariant.
LEMMA IngestStep ==
  ASSUME LayersInv, NEW d \in Docs, NEW reported \in SUBSET Reportable(d),
         NEW at \in Nat, IngestDocument(d, reported, at)
  PROVE  LayersInv'
<1>1. TypeOK' /\ ScopesOK'
  BY IngestTypes
<1>2. NothingOrphaned'
  BY IngestOrphansNothing
<1>3. MutesAreSeen'
  BY IngestShowsMutes
<1>4. MutesSurviveCrash'
  BY IngestMutes
<1>5. FleetHashIsCurrent'
  BY DEF IngestDocument, FleetHashIsCurrent, NoHash
<1> QED
  BY <1>1, <1>2, <1>3, <1>4, <1>5 DEF LayersInv

\* A rebuild over the active ones of some mutes keeps the invariant, when the
\* journal keeps up with the mutes.
LEMMA RebuildStep ==
  ASSUME LayersInv, NEW ms, IsMutes(ms), Rebuild(ActiveAt(ms, now)),
         IsMutes(muteLog'), ActiveAt(muteLog', now) = ActiveAt(ms, now)
  PROVE  LayersInv'
<1> USE DEF LayersInv
<1>1. /\ now' = now /\ actual' = actual /\ details' = details /\ scopes' = scopes
      /\ mutes' = ActiveAt(ms, now)
      /\ targets' = Rebuilt(ActiveAt(ms, now))
      /\ fleetHash' = IF details = None THEN fleetHash ELSE {targets'}
  BY DEF Rebuild
<1>2. TypeOK'
  <2>1. IsMutes(mutes')
    BY <1>1, ActiveIs DEF IsMutes
  <2>2. ASSUME NEW t \in DOMAIN targets'
        PROVE  /\ t \in Targets /\ DOMAIN targets'[t] \subseteq States
               /\ \A s \in DOMAIN targets'[t] : targets'[t][s] \in SeenState
    <3>1. CASE targets' = targets
      BY <2>2, <3>1 DEF TypeOK
    <3>2. CASE targets' = Summaries(details, ActiveAt(ms, now))
      <4>1. t \in TargetsOf(DOMAIN details)
        BY <2>2, <3>2, SummariesAre
      <4>2. DOMAIN details \subseteq States /\ \A s \in DOMAIN details : details[s] \in Detail
        BY DEF TypeOK
      <4>3. IsMutes(ActiveAt(ms, now))
        BY ActiveIs DEF IsMutes
      <4> QED
        BY <3>2, <4>1, <4>2, <4>3, SummariesTypes
    <3> QED
      BY <1>1, <3>1, <3>2 DEF Rebuilt
  <2> QED
    BY <1>1, <2>1, <2>2 DEF TypeOK, IsMutes
<1>3. ScopesOK'
  BY <1>1 DEF ScopesOK, Reportable, TargetsOf
<1>4. details = None => DOMAIN targets' = {}
  <2> SUFFICES ASSUME details = None
               PROVE  DOMAIN targets' = {}
    OBVIOUS
  <2>1. DOMAIN details = {}
    BY DEF None
  <2>2. \A e \in DOMAIN scopes : scopes[e].states = {}
    BY <2>1 DEF NothingOrphaned
  <2>3. \A e \in DOMAIN scopes : scopes[e].targets = {}
    BY <2>2 DEF ScopesOK, TargetsOf
  <2>4. DOMAIN targets = {}
    <3>1. UNION {scopes[e].targets : e \in DOMAIN scopes} = {}
      BY <2>3
    <3> QED
      BY <3>1 DEF NothingOrphaned
  <2> QED
    BY <1>1, <2>4 DEF Rebuilt
<1>5. details # None => targets' = Summaries(details, ActiveAt(ms, now))
  BY <1>1 DEF Rebuilt
<1>6. NothingOrphaned'
  <2>1. \A t \in DOMAIN targets' : \E e \in DOMAIN scopes : t \in scopes[e].targets
    <3>1. CASE details = None
      BY <1>4, <3>1
    <3>2. CASE details # None
      <4> SUFFICES ASSUME NEW t \in DOMAIN targets'
                   PROVE  \E e \in DOMAIN scopes : t \in scopes[e].targets
        OBVIOUS
      <4>1. t \in TargetsOf(DOMAIN details)
        BY <1>5, <3>2, SummariesAre
      <4>2. PICK s \in DOMAIN details : t # NoTarget /\ TargetOf[s] = t
        BY <4>1 DEF TargetsOf
      <4>3. PICK e \in DOMAIN scopes : s \in scopes[e].states
        BY DEF NothingOrphaned
      <4> QED
        BY <4>2, <4>3 DEF ScopesOK, TargetsOf
    <3> QED
      BY <3>1, <3>2
  <2>2. DOMAIN details' = UNION {scopes'[e].states : e \in DOMAIN scopes'}
    BY <1>1 DEF NothingOrphaned
  <2> QED
    BY <1>1, <2>1, <2>2 DEF NothingOrphaned
<1>7. Active(mutes)' = ActiveAt(ms, now)
  <2>1. Active(mutes)' = ActiveAt(mutes', now)
    BY <1>1 DEF Active, ActiveAt
  <2> QED
    BY <1>1, <2>1, ActiveTwice
<1>8. MutesAreSeen'
  <2>1. CASE details = None
    BY <1>4, <2>1 DEF MutesAreSeen
  <2>2. CASE details # None
    <3> SUFFICES ASSUME NEW t \in DOMAIN targets', NEW s \in DOMAIN targets'[t]
                 PROVE  IF s \in DOMAIN ActiveAt(ms, now)
                        THEN targets'[t][s].mute = mutes'[s]
                        ELSE targets'[t][s].mute.expiresAt <= now
      BY <1>1, <1>7 DEF MutesAreSeen
    <3>1. targets'[t][s] = Seen(s, details[s], ActiveAt(ms, now))
      BY <1>5, <2>2, SummariesAre
    <3>2. ActiveAt(ActiveAt(ms, now), now) = ActiveAt(ms, now)
      BY ActiveTwice
    <3>3. now \in Nat /\ NoMute.expiresAt <= now
      BY DEF TypeOK, NoMute
    <3> QED
      BY <1>1, <3>1, <3>2, <3>3, SeenIs
  <2> QED
    BY <2>1, <2>2
<1>9. FleetHashIsCurrent'
  <2>1. CASE details = None
    BY <1>1, <2>1 DEF FleetHashIsCurrent, Rebuilt
  <2>2. CASE details # None
    BY <1>1, <2>2 DEF FleetHashIsCurrent, NoHash
  <2> QED
    BY <2>1, <2>2
<1>10. MutesSurviveCrash'
  <2>1. Active(muteLog)' = ActiveAt(muteLog', now)
    BY <1>1 DEF Active, ActiveAt
  <2> QED
    BY <1>7, <2>1 DEF MutesSurviveCrash
<1> QED
  BY <1>2, <1>3, <1>6, <1>8, <1>9, <1>10

\* The operations on mutes, and the refresh.
LEMMA UpsertStep ==
  ASSUME LayersInv, NEW s \in States, NEW mute \in Mute, UpsertMute(s, mute)
  PROVE  LayersInv'
<1> DEFINE muted(ms) == [r \in DOMAIN ms \cup {s} |-> IF r = s THEN mute ELSE ms[r]]
<1>1. IsMutes(mutes) /\ IsMutes(muteLog) /\ ActiveAt(muteLog, now) = ActiveAt(mutes, now)
  BY ActiveAtNow DEF LayersInv, TypeOK, MutesSurviveCrash, IsMutes
<1>2. IsMutes(muted(mutes)) /\ IsMutes(muted(muteLog))
  BY <1>1 DEF IsMutes
<1>3. /\ Rebuild(ActiveAt(muted(mutes), now))
      /\ mutes' = ActiveAt(muted(mutes), now)
      /\ muteLog' \in {muted(muteLog), mutes'}
  BY ActiveAtNow DEF UpsertMute, Rebuild
<1>4. ActiveAt(muted(muteLog), now) = ActiveAt(muted(mutes), now)
  <2>1. \A r : r \in DOMAIN ActiveAt(muteLog, now)
               => r \in DOMAIN ActiveAt(mutes, now) /\ muteLog[r] = mutes[r]
    BY <1>1, ActiveIs
  <2>2. \A r : r \in DOMAIN ActiveAt(mutes, now) => r \in DOMAIN ActiveAt(muteLog, now)
    BY <1>1
  <2>3. \A r \in DOMAIN ActiveAt(muted(muteLog), now) :
          r \in DOMAIN ActiveAt(muted(mutes), now) /\ muted(mutes)[r] = muted(muteLog)[r]
    BY <2>1, ActiveIs
  <2>4. \A r \in DOMAIN ActiveAt(muted(mutes), now) : r \in DOMAIN ActiveAt(muted(muteLog), now)
    BY <2>1, <2>2, ActiveIs
  <2> HIDE DEF muted
  <2> QED
    BY <2>3, <2>4, ActiveAlike
<1> HIDE DEF muted
<1>5. IsMutes(mutes')
  BY <1>2, <1>3, ActiveIs DEF IsMutes
<1>6. ActiveAt(muteLog', now) = ActiveAt(muted(mutes), now)
  BY <1>3, <1>4, ActiveTwice
<1> QED
  BY <1>2, <1>3, <1>5, <1>6, RebuildStep

LEMMA DeleteStep ==
  ASSUME LayersInv, NEW s \in States, DeleteMute(s)
  PROVE  LayersInv'
<1> DEFINE rest == Keep(mutes, DOMAIN mutes \ {s})
<1>1. IsMutes(rest)
  BY DEF LayersInv, TypeOK, IsMutes, Keep
<1>2. Rebuild(ActiveAt(rest, now)) /\ muteLog' = ActiveAt(rest, now)
  BY ActiveAtNow DEF DeleteMute, Rebuild
<1> HIDE DEF rest
<1>3. IsMutes(muteLog')
  BY <1>1, <1>2, ActiveIs DEF IsMutes
<1> QED
  BY <1>1, <1>2, <1>3, ActiveTwice, RebuildStep

LEMMA RefreshStep ==
  ASSUME LayersInv, Refresh
  PROVE  LayersInv' \/ UNCHANGED vars
<1>1. CASE Rebuild(Active(mutes)) /\ muteLog' = mutes'
  <2>1. IsMutes(mutes)
    BY DEF LayersInv, TypeOK, IsMutes
  <2>2. Rebuild(ActiveAt(mutes, now)) /\ muteLog' = ActiveAt(mutes, now)
    BY <1>1, ActiveAtNow DEF Rebuild
  <2>3. IsMutes(muteLog')
    BY <2>1, <2>2, ActiveIs DEF IsMutes
  <2> QED
    BY <2>1, <2>2, <2>3, ActiveTwice, RebuildStep
<1> QED
  BY <1>1 DEF Refresh

\* A crash: what the journal replays to is what was active.
LEMMA CrashStep ==
  ASSUME LayersInv, Crash
  PROVE  LayersInv'
<1>1. /\ now' = now /\ actual' = actual /\ details' = None /\ targets' = None
      /\ scopes' = None /\ fleetHash' = NoHash
      /\ mutes' = ActiveAt(muteLog, now) /\ muteLog' = mutes'
  BY ActiveAtNow DEF Crash
<1>2. IsMutes(mutes')
  BY <1>1, ActiveIs DEF LayersInv, TypeOK, IsMutes
<1>3. TypeOK'
  BY <1>1, <1>2 DEF LayersInv, TypeOK, None, IsMutes
<1>4. ScopesOK' /\ NothingOrphaned' /\ MutesAreSeen'
  BY <1>1 DEF ScopesOK, NothingOrphaned, MutesAreSeen, None
<1>5. FleetHashIsCurrent' /\ MutesSurviveCrash'
  BY <1>1 DEF FleetHashIsCurrent, MutesSurviveCrash, Active
<1> QED
  BY <1>3, <1>4, <1>5 DEF LayersInv

\* Time passes, or a state changes in its program: mutes may lapse.
LEMMA EnvironmentStep ==
  ASSUME LayersInv, Environment
  PROVE  LayersInv'
<1> USE DEF LayersInv
<1>1. /\ details' = details /\ targets' = targets /\ scopes' = scopes
      /\ mutes' = mutes /\ muteLog' = muteLog /\ fleetHash' = fleetHash
  BY DEF Environment, Tick, Change, layersVars
<1>2. now \in Nat /\ now' \in Nat /\ now' >= now
  BY DEF Environment, Tick, Change, Advance, TypeOK
<1>3. actual' \in [States -> Detail]
  <2>1. CASE Tick
    BY <2>1 DEF Tick, layersVars, TypeOK
  <2>2. ASSUME NEW s \in States, NEW status \in 1..Worst, Change(s, status)
        PROVE  actual' \in [States -> Detail]
    BY <2>2 DEF Change, TypeOK, Detail
  <2> QED
    BY <2>1, <2>2 DEF Environment
<1>4. TypeOK'
  BY <1>1, <1>2, <1>3 DEF TypeOK
<1>5. ScopesOK' /\ NothingOrphaned' /\ FleetHashIsCurrent'
  BY <1>1 DEF ScopesOK, NothingOrphaned, FleetHashIsCurrent, Reportable, TargetsOf
<1>6. MutesAreSeen'
  <2> SUFFICES ASSUME NEW t \in DOMAIN targets, NEW s \in DOMAIN targets[t]
               PROVE  IF s \in DOMAIN ActiveAt(mutes, now')
                      THEN targets[t][s].mute = mutes[s]
                      ELSE targets[t][s].mute.expiresAt <= now'
    BY <1>1 DEF MutesAreSeen, Active, ActiveAt
  <2>1. IF s \in DOMAIN ActiveAt(mutes, now)
        THEN targets[t][s].mute = mutes[s]
        ELSE targets[t][s].mute.expiresAt <= now
    BY ActiveAtNow DEF MutesAreSeen
  <2>2. CASE s \in DOMAIN ActiveAt(mutes, now)
    <3>1. s \in DOMAIN mutes /\ mutes[s].expiresAt \in Nat
      BY <2>2, ActiveIs DEF TypeOK, Mute
    <3> QED
      BY <1>2, <2>1, <2>2, <3>1, ActiveIs
  <2>3. CASE s \notin DOMAIN ActiveAt(mutes, now)
    <3>1. s \notin DOMAIN ActiveAt(mutes, now')
      <4> SUFFICES ASSUME s \in DOMAIN mutes, mutes[s].expiresAt > now'
                   PROVE  FALSE
        BY ActiveIs
      <4>1. mutes[s].expiresAt \in Nat
        BY DEF TypeOK, Mute
      <4> QED
        BY <1>2, <2>3, <4>1, ActiveIs
    <3>2. targets[t][s].mute.expiresAt \in Nat
      BY DEF TypeOK, SeenState, Mute, NoMute
    <3> QED
      BY <1>2, <2>1, <2>3, <3>1, <3>2
  <2> QED
    BY <2>2, <2>3
<1>7. MutesSurviveCrash'
  <2>1. ActiveAt(muteLog, now) = ActiveAt(mutes, now)
    BY ActiveAtNow DEF MutesSurviveCrash
  <2>2. /\ \A s \in DOMAIN mutes : mutes[s].expiresAt \in Nat
        /\ \A s \in DOMAIN muteLog : muteLog[s].expiresAt \in Nat
    BY DEF TypeOK, Mute
  <2>3. ActiveAt(muteLog, now') = ActiveAt(mutes, now')
    BY <1>2, <2>1, <2>2, ActiveLater
  <2> QED
    BY <1>1, <2>3 DEF MutesSurviveCrash, Active, ActiveAt
<1> QED
  BY <1>4, <1>5, <1>6, <1>7

-----------------------------------------------------------------------------
(* Summaries and details, when no two documents share a target.             *)

\* No target that an ingest of d deletes, and none that d reports, is one of
\* a state of another document that is left.
LEMMA OthersKeepTheirTargets ==
  ASSUME Owned, LayersInv, NEW d \in Docs, NEW reported \in SUBSET Reportable(d),
         NEW at \in Nat,
         NEW e \in DOMAIN scopes \ (Silent(d, at) \cup {d}), NEW s \in scopes[e].states,
         TargetOf[s] # NoTarget
  PROVE  TargetOf[s] \notin TargetsLost(d, reported, at) /\ TargetOf[s] \notin TargetsOf(reported)
<1> USE DEF LayersInv
<1>1. s \in States /\ DocOf[s] = e
  BY ScopesDisjoint
<1>2. ASSUME NEW f \in DOMAIN scopes, f # e
      PROVE  TargetOf[s] \notin scopes[f].targets
  <2>1. \A r \in scopes[f].states : r \in States /\ DocOf[r] = f
    BY ScopesDisjoint
  <2>2. \A r \in scopes[f].states : TargetOf[r] # TargetOf[s]
    BY <1>1, <1>2, <2>1 DEF Owned
  <2> QED
    BY <2>2 DEF ScopesOK, TargetsOf
<1>3. TargetOf[s] \notin ScopeOf(d).targets
  BY <1>2 DEF ScopeOf, NoScope
<1>4. \A f \in Silent(d, at) : TargetOf[s] \notin scopes[f].targets
  BY <1>2 DEF Silent
<1>5. TargetOf[s] \notin TargetsOf(reported)
  <2>1. \A r \in reported : r \in States /\ DocOf[r] = d
    BY DEF Reportable
  <2>2. \A r \in reported : TargetOf[r] # TargetOf[s]
    BY <1>1, <2>1 DEF Owned
  <2> QED
    BY <2>2 DEF TargetsOf
<1> QED
  BY <1>3, <1>4, <1>5 DEF TargetsLost

\* No target that d reports is deleted by its ingest.
LEMMA ReportedTargetsStay ==
  ASSUME Owned, LayersInv, NEW d \in Docs, NEW reported \in SUBSET Reportable(d),
         NEW at \in Nat, NEW t \in TargetsOf(reported)
  PROVE  t \notin TargetsLost(d, reported, at)
<1>1. PICK r \in reported : TargetOf[r] = t /\ t # NoTarget
  BY DEF TargetsOf
<1>2. r \in States /\ DocOf[r] = d
  BY DEF Reportable
<1>3. ASSUME NEW f \in Silent(d, at)
      PROVE  t \notin scopes[f].targets
  <2>1. f \in DOMAIN scopes /\ f # d
    BY DEF Silent
  <2>2. \A q \in scopes[f].states : q \in States /\ DocOf[q] = f
    BY <2>1, ScopesDisjoint DEF LayersInv
  <2>3. \A q \in scopes[f].states : TargetOf[q] # t
    BY <1>1, <1>2, <2>1, <2>2 DEF Owned
  <2> QED
    BY <2>1, <2>3 DEF LayersInv, ScopesOK, TargetsOf
<1> QED
  BY <1>3 DEF TargetsLost

\* An ingest keeps summaries and details in agreement.
LEMMA IngestAgrees ==
  ASSUME Owned, LayersInv, SummariesAgree, NEW d \in Docs,
         NEW reported \in SUBSET Reportable(d), NEW at \in Nat,
         IngestDocument(d, reported, at)
  PROVE  SummariesAgree'
<1> DEFINE Others == DOMAIN scopes \ (Silent(d, at) \cup {d})
           Others_(s) == \E e \in Others : s \in scopes[e].states
<1>0. Left(d, reported, at)
  BY IngestLeaves
<1>1. \A s : s \in DOMAIN details' <=> s \in reported \/ Others_(s)
  BY IngestDetails
<1>2. \A s : Others_(s) => s \in DOMAIN details
  BY DEF LayersInv, NothingOrphaned
<1>3. \A s : Others_(s) /\ TargetOf[s] # NoTarget =>
        /\ TargetOf[s] \notin TargetsLost(d, reported, at)
        /\ TargetOf[s] \notin TargetsOf(reported)
  BY OthersKeepTheirTargets
<1>4. \A s \in reported : TargetOf[s] # NoTarget => TargetOf[s] \in TargetsOf(reported)
  BY DEF TargetsOf
<1>5. \A t \in TargetsOf(reported) : t \notin TargetsLost(d, reported, at)
  BY ReportedTargetsStay
<1>6. ASSUME NEW t \in DOMAIN targets, t \notin TargetsLost(d, reported, at),
             t \notin TargetsOf(reported),
             NEW s \in DOMAIN details, TargetOf[s] = t
      PROVE  Others_(s)
  <2>1. PICK e \in DOMAIN scopes : s \in scopes[e].states
    BY DEF LayersInv, NothingOrphaned
  <2>2. t # NoTarget
    BY LayersAssumption DEF LayersInv, TypeOK
  <2>3. t \in scopes[e].targets
    BY <1>6, <2>1, <2>2 DEF LayersInv, ScopesOK, TargetsOf
  <2>4. e # d /\ e \notin Silent(d, at)
    BY <1>6, <2>1, <2>3 DEF TargetsLost, ScopeOf
  <2> QED
    BY <2>1, <2>4
<1> HIDE DEF Others_
<1>7. ASSUME NEW t \in DOMAIN targets'
      PROVE  /\ t \in TargetsOf(DOMAIN details')
             /\ DOMAIN targets'[t] = {s \in DOMAIN details' : TargetOf[s] = t}
             /\ \A s \in DOMAIN targets'[t] : targets'[t][s].detail = details'[s]
  <2>1. CASE t \in TargetsOf(reported)
    <3> DEFINE ds == [s \in reported |-> actual[s]]
    <3>1. targets'[t] = Summaries(ds, mutes)[t] /\ DOMAIN ds = reported
      BY <1>0, <1>7, <2>1 DEF IngestSummaries, Left
    <3>2. DOMAIN targets'[t] = {s \in reported : TargetOf[s] = t}
      BY <2>1, <3>1, SummariesAre
    <3>3. \A s \in DOMAIN targets'[t] : targets'[t][s] = Seen(s, ds[s], mutes)
      BY <2>1, <3>1, SummariesAre
    <3>4. t # NoTarget /\ t \in TargetsOf(DOMAIN details')
      BY <1>1, <2>1 DEF TargetsOf
    <3>5. \A s \in DOMAIN details' : TargetOf[s] = t => s \in reported
      BY <1>1, <1>3, <2>1, <3>4
    <3>6. DOMAIN targets'[t] = {s \in DOMAIN details' : TargetOf[s] = t}
      BY <1>1, <3>2, <3>5
    <3>7. \A s \in DOMAIN targets'[t] : details'[s] = ds[s]
      BY <1>0, <3>2, <3>6 DEF Left
    <3>8. \A s \in DOMAIN targets'[t] : targets'[t][s].detail = ds[s]
      BY <3>3, SeenIs
    <3> HIDE DEF ds
    <3> QED
      BY <3>1, <3>4, <3>6, <3>7, <3>8
  <2>2. CASE t \notin TargetsOf(reported)
    <3>1. t \in DOMAIN targets /\ t \notin TargetsLost(d, reported, at) /\ targets'[t] = targets[t]
      BY <1>0, <1>7, <2>2 DEF Left
    <3>2. /\ t \in TargetsOf(DOMAIN details)
          /\ DOMAIN targets[t] = {s \in DOMAIN details : TargetOf[s] = t}
          /\ \A s \in DOMAIN targets[t] : targets[t][s].detail = details[s]
      BY <3>1 DEF SummariesAgree
    <3>3. t # NoTarget
      BY <3>2 DEF TargetsOf
    <3>4. \A s \in DOMAIN details : TargetOf[s] = t => Others_(s)
      BY <1>6, <2>2, <3>1
    <3>5. \A s \in reported : TargetOf[s] # t
      BY <1>4, <2>2, <3>3
    <3>6. \A s : s \in DOMAIN details' /\ TargetOf[s] = t <=> s \in DOMAIN details /\ TargetOf[s] = t
      BY <1>1, <1>2, <3>4, <3>5
    <3>7. \A s \in DOMAIN details' : TargetOf[s] = t => details'[s] = details[s]
      BY <1>0, <3>5 DEF Left
    <3>8. t \in TargetsOf(DOMAIN details')
      BY <3>2, <3>6 DEF TargetsOf
    <3>9. DOMAIN targets[t] = {s \in DOMAIN details' : TargetOf[s] = t}
      BY <3>2, <3>6
    <3> QED
      BY <3>1, <3>2, <3>7, <3>8, <3>9
  <2> QED
    BY <2>1, <2>2
<1>8. ASSUME NEW s \in DOMAIN details', TargetOf[s] # NoTarget
      PROVE  TargetOf[s] \in DOMAIN targets'
  <2>1. CASE s \in reported
    BY <1>0, <1>4, <1>5, <1>8, <2>1 DEF Left
  <2>2. CASE Others_(s)
    <3>1. TargetOf[s] \in DOMAIN targets
      BY <1>2, <1>8, <2>2 DEF SummariesAgree, TargetsOf
    <3> QED
      BY <1>0, <1>3, <1>8, <2>2, <3>1 DEF Left
  <2> QED
    BY <1>1, <2>1, <2>2
<1>9. DOMAIN targets' = TargetsOf(DOMAIN details')
  <2>1. DOMAIN targets' \subseteq TargetsOf(DOMAIN details')
    BY <1>7
  <2>2. ASSUME NEW t \in TargetsOf(DOMAIN details')
        PROVE  t \in DOMAIN targets'
    <3>1. PICK s \in DOMAIN details' : TargetOf[s] = t /\ t # NoTarget
      BY <2>2 DEF TargetsOf
    <3> QED
      BY <1>8, <3>1
  <2> QED
    BY <2>1, <2>2
<1> QED
  BY <1>7, <1>9 DEF SummariesAgree, TargetsOf

\* So does a rebuild.
LEMMA RebuildAgrees ==
  ASSUME SummariesAgree, NEW ms, Rebuild(ms)
  PROVE  SummariesAgree'
<1>1. details' = details /\ targets' = Rebuilt(ms)
  BY DEF Rebuild
<1>2. CASE details = None
  BY <1>1, <1>2 DEF Rebuilt, SummariesAgree, TargetsOf
<1>3. CASE details # None
  <2>1. targets' = Summaries(details, ms)
    BY <1>1, <1>3 DEF Rebuilt
  <2>2. DOMAIN targets' = TargetsOf(DOMAIN details)
    BY <2>1, SummariesAre
  <2>3. ASSUME NEW t \in DOMAIN targets'
        PROVE  /\ DOMAIN targets'[t] = {s \in DOMAIN details : TargetOf[s] = t}
               /\ \A s \in DOMAIN targets'[t] : targets'[t][s].detail = details[s]
    BY <2>1, <2>2, SummariesAre, SeenIs
  <2> QED
    BY <1>1, <2>2, <2>3 DEF SummariesAgree, TargetsOf
<1> QED
  BY <1>2, <1>3

-----------------------------------------------------------------------------
(* Theorems.                                                                *)

\* The inductive invariant holds of every state of every execution.
THEOREM LayersInvariant == Spec => []LayersInv
<1>1. Init => LayersInv
  <2> SUFFICES ASSUME Init
               PROVE  LayersInv
    OBVIOUS
  <2>1. now \in Nat /\ actual \in [States -> Detail]
    BY LayersAssumption, ClockAssumption DEF Init, ClockInit, Detail
  <2> QED
    BY <2>1 DEF Init, LayersInv, TypeOK, ScopesOK, NothingOrphaned, MutesAreSeen,
       FleetHashIsCurrent, MutesSurviveCrash, None
<1>2. LayersInv /\ [Next]_vars => LayersInv'
  <2> SUFFICES ASSUME LayersInv, [Next]_vars
               PROVE  LayersInv'
    OBVIOUS
  <2>1. CASE Environment
    BY <2>1, EnvironmentStep
  <2>2. ASSUME NEW d \in Docs, NEW lag \in Lags, NEW reported \in SUBSET Reportable(d),
               lag <= now, IngestDocument(d, reported, now - lag)
        PROVE  LayersInv'
    <3>1. now - lag \in Nat
      BY <2>2, LayersAssumption DEF LayersInv, TypeOK
    <3> QED
      BY <2>2, <3>1, IngestStep
  <2>3. ASSUME NEW s \in States, NEW cap \in Caps, NEW time \in MuteTimes,
               UpsertMute(s, [cap |-> cap, expiresAt |-> now + time])
        PROVE  LayersInv'
    <3>1. [cap |-> cap, expiresAt |-> now + time] \in Mute
      BY LayersAssumption DEF LayersInv, TypeOK, Mute
    <3> QED
      BY <2>3, <3>1, UpsertStep
  <2>4. ASSUME NEW s \in States, DeleteMute(s)
        PROVE  LayersInv'
    BY <2>4, DeleteStep
  <2>5. CASE UNCHANGED vars
    BY <2>5 DEF vars, layersVars, LayersInv, TypeOK, ScopesOK, NothingOrphaned, MutesAreSeen,
       FleetHashIsCurrent, MutesSurviveCrash, Active, Reportable, TargetsOf
  <2>6. CASE Refresh
    BY <2>5, <2>6, RefreshStep
  <2>7. CASE Crash
    BY <2>7, CrashStep
  <2> QED
    BY <2>1, <2>2, <2>3, <2>4, <2>5, <2>6, <2>7 DEF Next, Store
<1> QED
  BY <1>1, <1>2, PTL DEF Spec

\* Type correctness of the layers.
THEOREM LayersTypes == Spec => []TypeOK
BY LayersInvariant, PTL DEF LayersInv

\* No detail and no summary is ever outside every scope, so every one of them
\* goes when its document stops reporting it or falls silent.
THEOREM NeverOrphaned == Spec => []NothingOrphaned
BY LayersInvariant, PTL DEF LayersInv

\* Every active mute is seen in its summary, and no other.
THEOREM MutesAreAlwaysSeen == Spec => []MutesAreSeen
BY LayersInvariant, PTL DEF LayersInv

\* The fleet hash is that of the summaries there are.
THEOREM FleetHashAlwaysCurrent == Spec => []FleetHashIsCurrent
BY LayersInvariant, PTL DEF LayersInv

\* A crash at any moment keeps every active mute and no deleted one.
THEOREM MutesAlwaysSurvive == Spec => []MutesSurviveCrash
BY LayersInvariant, PTL DEF LayersInv

\* When no two documents report states of one target, the summaries agree with
\* the details, whatever ingests, evictions, mutes and crashes there were.
THEOREM SummariesAlwaysAgree ==
  ASSUME Owned
  PROVE  Spec => []SummariesAgree
<1>1. Init => SummariesAgree
  BY DEF Init, SummariesAgree, None, TargetsOf
<1>2. LayersInv /\ SummariesAgree /\ [Next]_vars => SummariesAgree'
  <2> SUFFICES ASSUME LayersInv, SummariesAgree, [Next]_vars
               PROVE  SummariesAgree'
    OBVIOUS
  <2>1. CASE Environment \/ UNCHANGED vars
    <3>1. details' = details /\ targets' = targets
      BY <2>1 DEF Environment, Tick, Change, vars, layersVars
    <3> QED
      BY <3>1 DEF SummariesAgree, TargetsOf
  <2>2. ASSUME NEW d \in Docs, NEW lag \in Lags, NEW reported \in SUBSET Reportable(d),
               lag <= now, IngestDocument(d, reported, now - lag)
        PROVE  SummariesAgree'
    <3>1. now - lag \in Nat
      BY <2>2, LayersAssumption DEF LayersInv, TypeOK
    <3> QED
      BY <2>2, <3>1, IngestAgrees
  <2>3. ASSUME NEW ms, Rebuild(ms)
        PROVE  SummariesAgree'
    BY <2>3, RebuildAgrees
  <2>4. CASE Crash
    BY <2>4 DEF Crash, SummariesAgree, None, TargetsOf
  <2>5. ASSUME NEW s, NEW mute, UpsertMute(s, mute)
        PROVE  SummariesAgree'
    BY <2>3, <2>5 DEF UpsertMute
  <2>6. ASSUME NEW s, DeleteMute(s)
        PROVE  SummariesAgree'
    BY <2>3, <2>6 DEF DeleteMute
  <2>7. CASE Refresh
    BY <2>1, <2>3, <2>7 DEF Refresh
  <2> QED
    BY <2>1, <2>2, <2>4, <2>5, <2>6, <2>7 DEF Next, Store
<1> QED
  BY <1>1, <1>2, LayersInvariant, PTL DEF Spec


\* When no two documents report states of one target, the layers keep their types,
\* have every entry in a scope and agree with one another (layers.go:5-7).
THEOREM LayersAlwaysAgree ==
  ASSUME Owned
  PROVE  Spec => []LayersAgree
<1>1. Spec => []SummariesAgree
  BY SummariesAlwaysAgree
<1> QED BY <1>1, LayersTypes, NeverOrphaned, PTL DEF LayersAgree
=============================================================================
