------------------------------ MODULE HttpMetrics ------------------------------
(****************************************************************************)
(* HTTPMetrics (collectors/http.go): per path, and over all paths, how many *)
(* requests a server had in a window of Span seconds, with errors and       *)
(* status codes, by EpochWeightedCounters.  Any number of requests finish   *)
(* and any number of readers ask at the same time.                          *)
(*                                                                          *)
(* Each of them reads the clock and then waits for the lock, so that those  *)
(* who read it first may come last.  Every request takes Took.  The tables  *)
(* of error and unknown URLs are selections from the counts by path and     *)
(* code, rates and averages are quotients of what is shown.                 *)
(****************************************************************************)
EXTENDS Clock, EpochCounters, FiniteSets, FiniteSetsExt

CONSTANTS
  Calls,         \* the requests the server handles
  Readers,       \* those who ask for snapshots
  Paths,
  Global,        \* httpMetricsGlobalPath, "-"
  Codes, ErrorCodes,
  Took,          \* what a request takes
  Refresh        \* snapshotRefresh

ASSUME HttpAssumption ==
  /\ Global \notin Paths
  /\ ErrorCodes \subseteq Codes
  /\ Refresh \in Nat /\ Took \in Nat
  /\ IsFiniteSet(Calls)

VARIABLES
  calls,       \* call -> what it waits with for the lock, what it has recorded, or NoCall
  asks,        \* reader -> {the time it read and waits with}, or {}
  paths,       \* path -> its counters
  cache,       \* {the snapshot kept}, or {}
  latest,      \* history: the latest time that anyone came to the lock with
  overtaken    \* history: has anyone come with a time of an earlier bucket?

vars == <<now, calls, asks, paths, cache, latest, overtaken>>

Call == [path : Paths, code : Codes, at : Nat, recorded : BOOLEAN, recordedAt : Nat]

NoCall == {}

Slots == {"requests", "errors", "duration"}

None == [x \in {} |-> {}]

-----------------------------------------------------------------------------

Get(f, x, default) == IF x \in DOMAIN f THEN f[x] ELSE default

Put(f, x, value) == [y \in DOMAIN f \cup {x} |-> IF y = x THEN value ELSE f[y]]

\* What a request adds to the counters of a path.
Observation(call) ==
  [requests |-> 1, errors |-> IF call.code \in ErrorCodes THEN 1 ELSE 0, duration |-> Took]

\* observePathLocked
Observed(ps, path, call) ==
  LET old    == Get(ps, path, [totals |-> NewCounters(call.at, Slots), statuses |-> None])
      status == Get(old.statuses, call.code, NewCounters(call.at, {"requests"}))
  IN  Put(ps, path,
          [totals   |-> Added(old.totals, call.at, Observation(call)),
           statuses |-> Put(old.statuses, call.code,
                            Added(status, call.at, [i \in {"requests"} |-> 1]))])

Idle(totals, at) == \A i \in DOMAIN totals.curr : WindowValue(totals, at)[i] = 0

\* What a snapshot leaves of the counters: those that count nothing go.
Visited(at) ==
  [path \in {p \in DOMAIN paths : ~ Idle(paths[p].totals, at)} |->
     [totals   |-> Rotated(paths[path].totals, at),
      statuses |->
        [code \in {k \in DOMAIN paths[path].statuses : ~ Idle(paths[path].statuses[k], at)} |->
           Rotated(paths[path].statuses[code], at)]]]

\* What it shows.
Shown(at) ==
  LET visited == Visited(at)
  IN  [path \in DOMAIN visited |->
         [totals |-> WindowValue(visited[path].totals, at),
          codes  |-> [code \in DOMAIN visited[path].statuses |->
                        WindowValue(visited[path].statuses[code], at)["requests"]]]]

\* Someone comes to the lock with a time it has read.
Comes(at) ==
  /\ overtaken' = (overtaken \/ BucketStart(at) < BucketStart(latest))
  /\ latest' = Max({latest, at})

-----------------------------------------------------------------------------
(* Operations.                                                              *)

Init ==
  /\ ClockInit
  /\ calls = [c \in Calls |-> NoCall]
  /\ asks = [r \in Readers |-> {}]
  /\ paths = None
  /\ cache = {}
  /\ latest = 0 /\ overtaken = FALSE

Tick == Advance /\ UNCHANGED <<calls, asks, paths, cache, latest, overtaken>>

\* A request finishes: observe begins and reads the clock.
Finish(c, path, code) ==
  /\ calls[c] = NoCall
  /\ calls' = [calls EXCEPT ![c] =
       {[path |-> path, code |-> code, at |-> now, recorded |-> FALSE, recordedAt |-> 0]}]
  /\ UNCHANGED <<now, asks, paths, cache, latest, overtaken>>

\* Mutant: the request is counted for its own path only.
Observe_PathOnly(c) ==
  \E call \in calls[c] :
    /\ ~ call.recorded
    /\ paths' = Observed(paths, call.path, call)
    /\ calls' = [calls EXCEPT ![c] = {[call EXCEPT !.recorded = TRUE, !.recordedAt = now]}]
    /\ Comes(call.at)
    /\ UNCHANGED <<now, asks, cache>>

\* observe has the lock.
Observe(c) ==
  \E call \in calls[c] :
    /\ ~ call.recorded
    /\ paths' = Observed(Observed(paths, Global, call), call.path, call)
    /\ calls' = [calls EXCEPT ![c] = {[call EXCEPT !.recorded = TRUE, !.recordedAt = now]}]
    /\ Comes(call.at)
    /\ UNCHANGED <<now, asks, cache>>

\* Snapshot begins and reads the clock.
Ask(r) ==
  /\ asks[r] = {}
  /\ asks' = [asks EXCEPT ![r] = {now}]
  /\ UNCHANGED <<now, calls, paths, cache, latest, overtaken>>

\* Mutant: the snapshot kept is taken one second longer.
Kept_Longer(at) == {snap \in cache : at - snap.at <= Refresh}

\* The snapshot kept, if it is young enough for one who asks at at.
Kept(at) == {snap \in cache : Refresh > 0 /\ at - snap.at < Refresh}

\* Snapshot has the lock; its answer is the one then kept.
Answer(r) ==
  \E at \in asks[r] :
    /\ IF Kept(at) # {}
       THEN UNCHANGED <<paths, cache, latest, overtaken>>
       ELSE /\ paths' = Visited(at)
            /\ cache' = {[at |-> at, shown |-> Shown(at)]}
            /\ Comes(at)
    /\ asks' = [asks EXCEPT ![r] = {}]
    /\ UNCHANGED <<now, calls>>

Next ==
  \/ Tick
  \/ \E c \in Calls, path \in Paths, code \in Codes : Finish(c, path, code)
  \/ \E c \in Calls : Observe(c)
  \/ \E r \in Readers : Ask(r) \/ Answer(r)

Spec == Init /\ [][Next]_vars

-----------------------------------------------------------------------------
(* Properties.                                                              *)

CounterOK(c, slots) ==
  /\ c.start \in Nat
  /\ c.curr \in [slots -> Nat] /\ c.prev \in [slots -> Nat]

\* Every variable holds a value of its kind.
TypeOK ==
  /\ now \in Nat
  /\ \A c \in Calls : calls[c] \subseteq Call
  /\ asks \in [Readers -> SUBSET Nat]
  /\ DOMAIN paths \subseteq Paths \cup {Global}
  /\ \A p \in DOMAIN paths :
       /\ CounterOK(paths[p].totals, Slots)
       /\ DOMAIN paths[p].statuses \subseteq Codes
       /\ \A k \in DOMAIN paths[p].statuses : CounterOK(paths[p].statuses[k], {"requests"})
  /\ \A snap \in cache : snap.at \in Nat
  /\ latest \in Nat /\ overtaken \in BOOLEAN

\* The calls recorded of a path, all of them for Global, with one of codes, in
\* a bucket, and not after some time.
Recorded(path, codes, start, until) ==
  {c \in Calls : \E call \in calls[c] :
     /\ call.recorded /\ call.recordedAt <= until
     /\ path \in {Global, call.path} /\ call.code \in codes
     /\ BucketStart(call.at) = start}

CodesOf(slot) == IF slot = "errors" THEN ErrorCodes ELSE Codes

\* Whatever comes late, a request is counted once at most, in its own bucket,
\* and as what it was: no error ratio above what there was.
NothingInvented ==
  \A p \in DOMAIN paths : \A i \in {"requests", "errors"} :
    LET totals == paths[p].totals
        count(start) == Cardinality(Recorded(p, CodesOf(i), start, now))
    IN  /\ totals.curr[i] <= count(totals.start)
        /\ totals.prev[i] <= count(totals.start - Span)
        /\ totals.curr["errors"] <= totals.curr["requests"]
        /\ totals.prev["errors"] <= totals.prev["requests"]

\* The estimate of the window, from the calls themselves.
Estimate(path, codes, at, until) ==
  LET count(start) == Cardinality(Recorded(path, codes, start, until))
  IN  count(BucketStart(at)) + Faded(count(BucketStart(at) - Span), at)

ShownOf(snap, path, slot) ==
  IF path \in DOMAIN snap.shown THEN snap.shown[path].totals[slot] ELSE 0

\* Who asks is answered with all requests that were recorded Refresh ago or
\* earlier, and none that were not recorded (README.md:85: "Snapshots are
\* cached for one second by default"), as long as nobody came to the lock with
\* the time of a bucket that was over: a request that does is not counted, and
\* a reader that does takes away the counts of all paths that have moved on.
\* Without a cache a request may be missing: of two readers in one bucket the
\* later takes away a path with nothing left, of which the earlier, if it has
\* the lock last, should still tell.
AnswersAreExact ==
  [][\A r \in Readers : \A at \in asks[r] :
       asks'[r] = {} /\ ~ overtaken' =>
         \A snap \in cache' : \A p \in Paths \cup {Global} : \A i \in {"requests", "errors"} :
           /\ Refresh > 0 => ShownOf(snap, p, i) >= Estimate(p, CodesOf(i), snap.at, at - Refresh)
           /\ ShownOf(snap, p, i) <= Estimate(p, CodesOf(i), snap.at, now)]_vars

\* The paths, and the codes of a path, add up to no more than the whole.
SnapAddsUp(snap) ==
  LET shown(p) == snap.shown[p]
      sum(p, codes) == MapThenSumSet(LAMBDA k : shown(p).codes[k], DOMAIN shown(p).codes \cap codes)
  IN  /\ \A i \in Slots :
           MapThenSumSet(LAMBDA p : shown(p).totals[i], DOMAIN snap.shown \ {Global})
             <= ShownOf(snap, Global, i)
      /\ \A p \in DOMAIN snap.shown :
           /\ sum(p, Codes) <= shown(p).totals["requests"]
           /\ sum(p, ErrorCodes) <= shown(p).totals["errors"]

\* "Snapshot returns a coherent copy", "the path "-" is the aggregate across all
\* paths" (http.go): as long as nobody came late, a snapshot adds up, and codes
\* and slots agree on errors.
Coherent == ~ overtaken => \A snap \in cache : SnapAddsUp(snap)

\* Paths come from URLs, so that there is no end to them: a path is kept no
\* longer than its requests count, once someone asks.
OnlyActivePaths ==
  \A snap \in cache : \A p \in DOMAIN paths : \E c \in Calls : \E call \in calls[c] :
    /\ call.recorded /\ p \in {Global, call.path}
    /\ BucketStart(call.at) >= BucketStart(snap.at) - Span \/ call.recordedAt >= snap.at

\* A snapshot adds up, and nothing is in it or kept for it without a reason.
SnapshotIsRight == TypeOK /\ Coherent /\ OnlyActivePaths
=============================================================================
