---------------------------- MODULE CurrentLayers ----------------------------
(****************************************************************************)
(* The current layers of the store (storage/storage.go, storage/layers.go): *)
(* the raw detail of every state, the cached target summaries built from    *)
(* the details and the mutes, the scope of every document, which is what    *)
(* its next ingest or its eviction takes away again, and the fleet hash.    *)
(*                                                                          *)
(* A state's identity contains the label path of its document, so it        *)
(* belongs to one document (DocOf); its target comes from where it was      *)
(* scraped (TargetOf).  A summary is the function from the target's states  *)
(* to what is seen of them: its counts and worst status are functions of    *)
(* that, and its material hash, taken over all of it, is the function       *)
(* itself.  Observation times and data are left out of the hash by the      *)
(* code, or stand beside the status in it, and are left out here.  The      *)
(* other parts of an ingest, transitions and the sweep of incidents, touch  *)
(* none of this and are in TransitionRings and IncidentStore.               *)
(****************************************************************************)
EXTENDS Clock, Integers

CONSTANTS
  States,        \* identities of states
  Docs,          \* document keys
  Targets,       \* target keys
  NoTarget,      \* the key of a state that was not scraped from anywhere
  DocOf,         \* state -> the document that reports it
  TargetOf,      \* state -> its target, or NoTarget
  Worst,         \* the worst status: statuses are the ranks 1 (pass) to Worst
  Caps,          \* the statuses to which mutes may cap
  MuteTimes,     \* how long mutes may last
  Lags,          \* how long after its observation a document may be stored
  Factor,        \* evictionIntervalFactor
  Fallback       \* evictionFallback

ASSUME LayersAssumption ==
  /\ NoTarget \notin Targets
  /\ DocOf \in [States -> Docs]
  /\ TargetOf \in [States -> Targets \cup {NoTarget}]
  /\ Worst \in Nat \ {0}
  /\ Caps \subseteq 1..Worst
  /\ MuteTimes \subseteq Nat \ {0}
  /\ Lags \subseteq Nat
  /\ Factor \in Nat \ {0} /\ Fallback \in Nat \ {0}

VARIABLES
  actual,      \* the states as their programs have them: outside the store
  details,     \* state -> raw detail (L2)
  targets,     \* target -> summary (L1)
  scopes,      \* document -> its states and targets, when and how often it is seen
  mutes,       \* state -> mute
  muteLog,     \* state -> mute, what the journal would replay to
  fleetHash    \* {the summaries it was taken of}, or NoHash before the first

layersVars == <<actual, details, targets, scopes, mutes, muteLog, fleetHash>>
vars == <<now, layersVars>>

Detail == [status : 1..Worst, changedAt : Nat]

Mute == [cap : 1..Worst, expiresAt : Nat]

NoMute == [cap |-> 0, expiresAt |-> 0]

SeenState == [detail : Detail, mute : Mute \cup {NoMute}]

Scope == [states : SUBSET States, targets : SUBSET Targets, lastSeen : Nat, interval : Nat]

NoScope == [states |-> {}, targets |-> {}, lastSeen |-> 0, interval |-> 0]

None == [x \in {} |-> {}]

NoHash == {}

-----------------------------------------------------------------------------

Keep(f, S) == [x \in DOMAIN f \cap S |-> f[x]]

\* sweepExpiredMutes
Active(ms) == Keep(ms, {s \in DOMAIN ms : ms[s].expiresAt > now})

\* muteView: what is seen of a state.
Seen(s, detail, ms) ==
  [detail |-> detail, mute |-> IF s \in DOMAIN Active(ms) THEN ms[s] ELSE NoMute]

\* capStatus
SeenStatus(seen) ==
  IF seen.mute # NoMute /\ seen.mute.cap < seen.detail.status
  THEN seen.mute.cap ELSE seen.detail.status

TargetsOf(ss) == {TargetOf[s] : s \in ss} \ {NoTarget}

\* buildTargetSummaries, of the raw details given.
Summaries(ds, ms) ==
  [t \in TargetsOf(DOMAIN ds) |->
     [s \in {r \in DOMAIN ds : TargetOf[r] = t} |-> Seen(s, ds[s], ms)]]

\* rebuildCurrentLayersLocked: without details the summaries stay as they are.
Rebuilt(ms) == IF details = None THEN targets ELSE Summaries(details, ms)

ScopeOf(d) == IF d \in DOMAIN scopes THEN scopes[d] ELSE NoScope

\* sweepExpiredScopes: the documents not seen for Factor of their intervals.
Silent(d, at) ==
  {e \in DOMAIN scopes \ {d} :
     at > scopes[e].lastSeen +
          (IF scopes[e].interval > 0 THEN scopes[e].interval * Factor ELSE Fallback)}

-----------------------------------------------------------------------------
(* Operations.                                                              *)

Init ==
  /\ ClockInit
  /\ actual = [s \in States |-> [status |-> 1, changedAt |-> 0]]
  /\ details = None
  /\ targets = None
  /\ scopes = None
  /\ mutes = None
  /\ muteLog = None
  /\ fleetHash = NoHash

Tick == Advance /\ UNCHANGED layersVars

\* A state changes in its program; the clock tells any two changes apart.
Change(s, status) ==
  /\ actual[s].status # status
  /\ actual[s].changedAt < now
  /\ actual' = [actual EXCEPT ![s] = [status |-> status, changedAt |-> now]]
  /\ UNCHANGED <<now, details, targets, scopes, mutes, muteLog, fleetHash>>

\* The states that an ingest of d takes away: those d no longer reports.
Gone(d, reported) == ScopeOf(d).states \ reported

\* And those of documents gone silent.
Evicted(d, at) == UNION {scopes[e].states : e \in Silent(d, at)}

\* The scope that an ingest leaves; only a positive interval is taken.
Rescoped(d, reported, at) ==
  LET delta == IF d \in DOMAIN scopes /\ at > scopes[d].lastSeen
               THEN at - scopes[d].lastSeen ELSE ScopeOf(d).interval
  IN  [states |-> reported, targets |-> TargetsOf(reported),
       lastSeen |-> at, interval |-> delta]

\* Mutant: an eviction leaves the target summaries behind.
TargetsLost_None(d, reported, at) == {}

\* The targets an ingest deletes: of the document's old scope those that it no
\* longer reports, and, after the new ones are in, those of silent scopes.
TargetsLost(d, reported, at) ==
  (ScopeOf(d).targets \ TargetsOf(reported))
    \cup UNION {scopes[e].targets : e \in Silent(d, at)}

\* Mutant: targets take the details without the mutes.
IngestSummaries_Unmuted(reported) ==
  Summaries([s \in reported |-> actual[s]], None)

\* The summaries an ingest builds, of this document's states only.
IngestSummaries(reported) == Summaries([s \in reported |-> actual[s]], mutes)

\* IngestDocument: document d reports some of its states, observed at at.
IngestDocument(d, reported, at) ==
  LET new  == IngestSummaries(reported)
      left == (DOMAIN details \cup reported) \ (Gone(d, reported) \cup Evicted(d, at))
  IN  /\ mutes' = Active(mutes)
      /\ details' = [s \in left |-> IF s \in reported THEN actual[s] ELSE details[s]]
      /\ targets' =
           [t \in (DOMAIN targets \cup DOMAIN new) \ TargetsLost(d, reported, at) |->
              IF t \in DOMAIN new THEN new[t] ELSE targets[t]]
      /\ scopes' =
           [e \in (DOMAIN scopes \cup {d}) \ Silent(d, at) |->
              IF e = d THEN Rescoped(d, reported, at) ELSE scopes[e]]
      /\ fleetHash' = {targets'}
      /\ muteLog' \in {muteLog, Active(mutes)}
      /\ UNCHANGED <<now, actual>>

\* Mutant: the hash is left as it was.
Rebuild_NoRollup(ms) ==
  /\ mutes' = ms
  /\ targets' = Rebuilt(ms)
  /\ UNCHANGED <<now, actual, details, scopes, fleetHash>>

\* What every change of a mute ends with: summaries and hash are rebuilt from
\* all details.
Rebuild(ms) ==
  /\ mutes' = ms
  /\ targets' = Rebuilt(ms)
  /\ fleetHash' = IF details = None THEN fleetHash ELSE {targets'}
  /\ UNCHANGED <<now, actual, details, scopes>>

UpsertMute(s, mute) ==
  LET muted(ms) == [r \in DOMAIN ms \cup {s} |-> IF r = s THEN mute ELSE ms[r]]
  IN  /\ mute.expiresAt > now
      /\ Rebuild(Active(muted(mutes)))
      /\ muteLog' \in {muted(muteLog), mutes'}

\* Mutant: the deletion of a mute is left to the next compaction.
DeleteMute_NotCompacted(s) ==
  /\ s \in DOMAIN mutes
  /\ Rebuild(Active(Keep(mutes, DOMAIN mutes \ {s})))
  /\ UNCHANGED muteLog

\* A deletion has no line of its own: the journal is rewritten.
DeleteMute(s) ==
  /\ s \in DOMAIN mutes
  /\ Rebuild(Active(Keep(mutes, DOMAIN mutes \ {s})))
  /\ muteLog' = mutes'

\* refreshExpiredMutes, with which every read of the layers begins.
Refresh ==
  IF Active(mutes) = mutes
  THEN UNCHANGED vars
  ELSE Rebuild(Active(mutes)) /\ muteLog' = mutes'

\* The store's process dies: only journaled mutes come back.
Crash ==
  /\ details' = None
  /\ targets' = None
  /\ scopes' = None
  /\ mutes' = Active(muteLog)
  /\ muteLog' = mutes'
  /\ fleetHash' = NoHash
  /\ UNCHANGED <<now, actual>>

Reportable(d) == {s \in States : DocOf[s] = d}

Store ==
  \/ \E d \in Docs, lag \in Lags : \E reported \in SUBSET Reportable(d) :
       lag <= now /\ IngestDocument(d, reported, now - lag)
  \/ \E s \in States, cap \in Caps, time \in MuteTimes :
       UpsertMute(s, [cap |-> cap, expiresAt |-> now + time])
  \/ \E s \in States : DeleteMute(s)

Environment == Tick \/ \E s \in States, status \in 1..Worst : Change(s, status)

Next == Environment \/ Store \/ Refresh \/ Crash

Spec == Init /\ [][Next]_vars

-----------------------------------------------------------------------------
(* Properties.                                                              *)

\* Every variable holds a value of its kind.
TypeOK ==
  /\ now \in Nat
  /\ actual \in [States -> Detail]
  /\ DOMAIN details \subseteq States /\ \A s \in DOMAIN details : details[s] \in Detail
  /\ DOMAIN targets \subseteq Targets
  /\ \A t \in DOMAIN targets :
       DOMAIN targets[t] \subseteq States /\ \A s \in DOMAIN targets[t] : targets[t][s] \in SeenState
  /\ DOMAIN scopes \subseteq Docs /\ \A d \in DOMAIN scopes : scopes[d] \in Scope
  /\ DOMAIN mutes \subseteq States /\ \A s \in DOMAIN mutes : mutes[s] \in Mute
  /\ DOMAIN muteLog \subseteq States /\ \A s \in DOMAIN muteLog : muteLog[s] \in Mute

\* Everything the layers hold is in the scope of a document, so that its next
\* ingest or its eviction takes it away: a detail or a summary outside every
\* scope would stay for ever.
NothingOrphaned ==
  /\ DOMAIN details = UNION {scopes[d].states : d \in DOMAIN scopes}
  /\ DOMAIN targets \subseteq UNION {scopes[d].targets : d \in DOMAIN scopes}

\* The summaries agree with the details (layers.go:5-7), whatever order of
\* ingests, evictions and mutes built them: every detail with a target is
\* listed by it as it is, and nothing else is.
SummariesAgree ==
  /\ DOMAIN targets = TargetsOf(DOMAIN details)
  /\ \A t \in DOMAIN targets :
       /\ DOMAIN targets[t] = {s \in DOMAIN details : TargetOf[s] = t}
       /\ \A s \in DOMAIN targets[t] : targets[t][s].detail = details[s]

\* An active mute is seen in its summary, and a mute that was deleted or
\* replaced is not, however many ingests came in between.
MutesAreSeen ==
  \A t \in DOMAIN targets : \A s \in DOMAIN targets[t] :
    IF s \in DOMAIN Active(mutes)
    THEN targets[t][s].mute = mutes[s]
    ELSE targets[t][s].mute.expiresAt <= now

\* The fleet hash, the ETag of two endpoints, is that of the summaries there
\* are: no path changes a summary and leaves the hash.
FleetHashIsCurrent == IF fleetHash = NoHash THEN targets = None ELSE fleetHash = {targets}

\* A crash at any moment loses no active mute and brings no deleted one back.
MutesSurviveCrash == Active(muteLog) = Active(mutes)

\* The three layers fit one another: no entry that no scope would take away, and
\* none that differs between the details and the summaries.
LayersAgree == TypeOK /\ NothingOrphaned /\ SummariesAgree
=============================================================================
