# A verification project for statekit

statekit is a Go library for the operational state of programs. An instrumented
process registers *states* (up, warn, down, with a reason), metrics and
*escalations* in a `Registry` and serves them over HTTP. A *scraper* collects
those documents from many processes and pushes them into a *store*, which keeps
the current picture of the fleet, its history and its incidents, survives a
restart through a journal, and serves it all to dashboards.

The modules here are translated from the Go source. TLC checks them on small
instances, TLAPS proves the main results for every value of the constants.
`PROJECT.json` lists the runs, the mutants that show that each property can
fail, the source lines of every definition, the findings, and the hazards of
the code with the properties that watch them.

To repeat a run: `tlc -config MCEscalationPull.cfg MCEscalationPull.tla`; to
repeat the proofs: `tlapm EscalationPullProofs.tla`.

## 1. The system

| Component | State it keeps | Operations | Talks to |
|---|---|---|---|
| Escalation source (`escalation.go`) | incidents with buffered events, two counters, the epoch of its cursors | `Start`, `AddLog`/`AddData`, `Close`, `EscalationDisplay` | polled over HTTP; the one endpoint both acknowledges and delivers |
| Escalation puller (`scraper/escalations.go`) | a watermark | one tick: poll, store, advance | source and store |
| Incident store (`storage/storage.go`) | incidents by id and creation time | `IngestEscalations`, `AcknowledgeIncident`, sweeps | written by puller, HTTP API, operators |
| Journal (`storage/journal.go`) | a file of incidents, transitions, mutes | append, compact, replay | every write of the store |
| Global incidents (`storage/api.go`) | none: read, modify, ingest | create, annotate, close | incident store, from concurrent requests |
| Current layers (`storage.go`, `layers.go`) | documents, targets, the index of states, mutes, the fleet rollup | `IngestDocument`, mutes and their expiry, eviction of silent documents, reads | scraper writes, API reads with ETags |
| Transition rings (`storage.go`) | a bounded ring per state | append without duplicates, backstop eviction | fed by every document |
| State trackers (`state*.go`) | status, reason, history of ten | `set`, `snapshot` | registry snapshots |
| Aggregates and health (`state_aggregate.go`, `registry*.go`) | children, a tracker for the result | `Snapshot`, `Register` | concurrent readers |
| Fail map, fail ratio (`state_fail*.go`) | keys that fail; weighted counts | `Pass`, `Fail`, `Snapshot` | epoch weighted counters |
| Epoch weighted counters (`util/`) | two windows of buckets, `uint32` | `Add`, `CurrentValue` | fail ratio, collectors |
| HTTP metrics (`collectors/http.go`) | per path and over all, weighted counts by slot and status code; the last snapshot | a request finishes, `Snapshot` | requests and readers of one server, at the same time |
| Liveness and mirrors (`scraper/liveness.go`, `scraper/aggregate.go`) | failures in a row, last success | `recordSuccess`, `recordFailure`, `Snapshot` | scraper ticks |
| Scraped metrics (`scraper/metrics.go`) | the last parsed samples | tick, `Collect` | store of metrics |
| Metrics store (`storage/metrics.go`) | series of points, constant runs, a dictionary of strings | `IngestMetrics`, `Metrics` | scraper writes, API reads |
| Charts (`storage/chart.go`, `chart_file.go`) | a ring of minutes; segments of files | `Record`, `Range`, `Close`, replay | every document ingested |
| Prometheus page (`registry_prometheus.go`, `metric_counter.go`) | descriptions, vectors of counters | look up, add, render | callers and readers at the same time |
| Checks (`collectors/*_state.go`) | samples of a trend, the last status of memory | `Snapshot`: measure, judge, set | readers of the document |
| Storage state (`storage/observability.go`) | statistics kept for a second | `Snapshot`, `CollectPrometheus` | the errors of journal and chart files |

What is hard in them: requests and answers are lost, late or repeated; both
sides of a collection restart, each forgetting what it knew and the source
giving out the same ids again; the store's process dies between two lines of
its journal; HTTP requests interleave with a lock released in the middle of a
read-modify-write; concurrent snapshots commit out of order; everything that
grows is capped or swept, and what is dropped may come back; cached rollups and
hashes must not outlive what they summarise.

What makes each correct:

- *escalation source*: a reader is shown what it was not given yet, whatever
  other readers do; what is pruned was acknowledged; the budget holds;
- *collection*: no event is lost, every event arrives, the store ends up
  agreeing with the source;
- *incident store and journal*: a crash changes nothing; no annotation is lost;
  what is over is at last dropped;
- *current layers*: the cached targets, index, rollup and hash are those of the
  documents and mutes that are live;
- *rings*: what was stored stays in order, no duplicates, capped;
- *trackers, aggregates, health*: the status is that of the children as of some
  moment of the snapshot, the history that of the changes;
- *counters, HTTP metrics*: a window counts what happened in it, once, whoever
  records and reads at the same time; what is idle is forgotten;
- *liveness*: down after enough failures, up only after a success;
- *metrics and charts*: what is compacted, cut or replayed reads back as what
  was written, or an error tells that it will not;
- *page and counters*: no addition is lost, no row is missing or twice.

## 2. The modules

```
Clock  <-  Escalations   <---------------------- EscalationPull ...implements EscalationHandoff
       <-  IncidentStore <-  GlobalIncidents       |
                         <-------------------------+
       <-  CurrentLayers <-  LayerReads
       <-  StateTrackers <-  TransitionRings
Clock, EpochCounters  <-  HttpMetrics
       EpochCounters  <-  FailRatio
MetricsStore  <-  ScrapedMetrics ...implements SeriesStore
JournalFile   <-  StorageHealth
Scraping, ChartStores, ProgramStates, Exposition, FailMap, TrendCheck, HeapProfiles
```

A module EXTENDS the ones it composes, so the composed module has the actions
of its parts under their own names, with `UNCHANGED` for the rest. The store is
cut in three: its layers, its rings and its incidents share a mutex and a
journal file, but no property relates one's data to another's. Each has the
part of `IngestDocument`, of the journal and of the crash that touches its own
variables.

### Clock
Time is a natural number bounded by `MaxTime`. A tick stands for any delay that
the code compares with a TTL. It never goes backwards.

### Escalations (`escalation.go`)
`incidents` is `Escalations.byID`, `nextID` and `nextSeq` its counters, `epoch`
the creation time that prefixes every cursor. An event is its sequence number:
nothing depends on its text. `Start`, `StartRefused` (over budget: the expiry
has happened all the same), `AddLog`, `Close` and `Serve` are the operations,
each one critical section of the code's mutex. `Serve(ack)` is the state change
of `EscalationDisplay` (expire, acknowledge), `Document(after, ack)` the answer
it gives in the same critical section. `SourceSpec` puts the source among any
number of readers, each at any cursor this process or an earlier one gave out.

### IncidentStore (`storage/storage.go`, `storage/journal.go`)
`stored` is `MemoryStore.incidents`, keyed by id and creation time as in
`incidentIdentity`. `journal` is what the file would replay to: replay keeps the
last line of a key, so the function from keys to last lines is all that matters.
`IngestEscalations` merges every incident of a document, caps its events,
journals, sweeps closed incidents, and may compact; `CompactionDue` is what the
size test of the file may answer. `StoreCrash` is death with a prefix of an
ingest journaled, then replay, sweep and compaction.

### EscalationPull (`scraper/escalations.go`, composed)
One source, one scraper, the network, the store. `Poll`, `ServePoll`, `Ingest`
are the three parts of a tick; the network may drop a request or an answer
(`Abandon`), and a request given up on may still be served later
(`ServeLate`). `Restart` replaces the source process, `Crash` the scraper's.
`Operate` is an operator's acknowledgement or the sweep of a state document.
`logged` and `delivered` are history variables.

### EscalationHandoff (abstract)
What collection promises, without cursors or requests: an event is held from
the moment it is logged, and let go only when delivered or when its incident
ends. `EscalationPull` implements it with `open` read as the incidents of the
source and `held` as its buffers.

### GlobalIncidents (`storage/api.go`)
Concurrent `POST /escalations/global` requests. An update is two store calls,
`Read` and `Write`, with the lock released in between, the response computed
from the copy. The observation time of an ingest is when the request began.

### CurrentLayers (`storage/storage.go`, `storage/layers.go`)
`details` and `targets` are the maps of the same names in `MemoryStore` (L2 and
L1), `scopes` gathers `docScopeIdentities`, `docScopeTargets`, the last time a
document was seen and its interval; `mutes` and `fleetHash` are as in the code.
`actual` stands for the programs, so that a document reports what is the case.
A target summary is the function from the target's states to what is seen of
them. Its counts and its worst status are functions of that, and its material
hash is that function itself: the model has no collisions, and leaves out of
the hash what the code leaves out. `IngestDocument(d, reported, at)` is the
whole critical section in its order: sweep of mutes, what the old scope loses,
the new details and summaries (of this document's states only), the new scope
with its interval, eviction of silent documents, the rollup. `UpsertMute` and
`DeleteMute` end with `Rebuild`, which rebuilds from all details; `Refresh` is
`refreshExpiredMutes`, with which every read begins. `muteLog` is what the
mutes in the journal replay to; `Crash` brings back the mutes and nothing else.

### LayerReads (`storage/api.go`)
One console that polls `GET /state/summary` with its ETag. `GetSummary` is
`Refresh` and an answer in one step, as `Summary` is one critical section.

### StateTrackers, TransitionRings (`state_tracker.go`, `storage/storage.go`)
`trackers` has each state's status, time of change and bounded history;
`Change` is `stateTracker.set` when it is a change (it touches nothing else that
is modelled when it is not). A document is collected (`Collect`), stays under
way, and is stored late, again, or never. An ingest holds the store's lock while
it stores one state after the other (`BeginIngest`, `AppendTransitions`,
`EndIngest`), one journal line at a time, and `Crash` may come between any two.
The rings together are a set of transitions: a ring is ordered by time and its
transitions differ in time. `total` is `transitionTotal`, kept beside the rings
by the code and here. The journal is the set of its lines, since replay orders
each ring by itself. Which states a document loses or an eviction takes is
CurrentLayers' subject, and free here (`gone`, `evicted`). `unseen` and `due`
are history variables: the changes that no stored document told of, and those
that a state's ring must therefore have.

### Scraping (`scraper/liveness.go`, `scraper/aggregate.go`)
One target seen by one scraper. `cur`, `shown`, `failCount`, `passCount`,
`updateAge` are the fields of `livenessState`, `scraped` and `fetchAge` those of
`remoteStateMirror`. `Probe` sends a request which the target answers as it then
is; `Record` is the rest of the tick: a late answer is none, a slow one fails,
and `recordSuccess` or `recordFailure` counts it. `Snapshot` is what a reader's
question leaves behind when the check is stale, `Answer` what it is told.
`Fetch`, `Fetched`, `FetchFailed` are the mirror's ticks. What a probe expects
(status, headers, body) is one of three outcomes. Times are ages, saturated at
`MaxAge`, since the code only asks how long ago something was; counts are
saturated at `MaxCount`, since it only compares them with thresholds. So this
module needs no clock and no bound on how long a behaviour runs.

### EpochCounters, HttpMetrics (`util/epoch_weighted_counter.go`, `collectors/http.go`)
A counter is a value: its current bucket's start and the counts of that bucket
and of the one before. `paths` is `HTTPMetrics.paths`, with a counter of
requests, errors and duration per path and one per status code; `cache` is
`cachedAt` and `cachedSnapshot`. Both `observe` and `Snapshot` read the clock
and only then wait for the lock, so each is two actions (`Finish` and
`Observe`, `Ask` and `Answer`), and those who read the clock first may get the
lock last. `overtaken` is a history variable: someone came to the lock with the
time of a bucket that was over. Ticks are seconds. A request takes `Took`,
which matters because a path is kept while its duration, the slowest of the
three to fade, is not zero.

### ProgramStates (`state_manual.go`, `state_aggregate.go`, `registry*.go`, `collectors/*_state.go`)
The document of a program while it starts up and while its states change.
`status` is what the trackers hold, `level` what a check would measure,
`children` and `registered` the lists of the same names in the code, `setup`
what the program has still to add and register. A reader of the document is a
sequence of critical sections: `Begin` copies the states, `ReadManual` reads
one; a check is `Measure`, `SetInner`, `ReadInner`, since it measures without a
lock, sets its inner state under one and takes the snapshot under another; an
aggregate is `Enter`, its children, `Leave`; `Finish` sets the health. `seen` is
a history variable: what a state was while a reader was under way.

### Exposition (`registry.go`, `registry_prometheus.go`, `metric_counter.go`)
Registration, the counters of one vector, and the page. `RegisterCollectors` stops
at a clash and leaves what it had put in the list, as the code does. `Lookup` and
`MakeCounter` are the two locks of `GetMetricWithLabelValues`. A page is
`StartPage` (copies and checks), `CollectStates`, `CollectVec`, one
`ReadCounter` for each counter, `FinishPage`. A name is a sequence of parts so
that a suffix is a part. `Clashes` and `Conflicts` are two comparisons because
the code has two: the first leaves out the unit.

### FailMap, FailRatio (`state_fail_map.go`, `state_failratio.go`)
Both hold their lock from the clock to the end of the call, so an action is a
call. `reports` and `told` record all calls; the properties compute from them
alone what the state must say. A ratio without a window counts for ever
(`cumulative`); the wall clock of a window may step back.

### TrendCheck, HeapProfiles (`collectors/runtime_state.go`, `collectors/memory_state.go`)
What a check does between its measurement and its lock: readers may use their
readings in another order. `samples` and `lastStatus` are the fields of those
names; `used` is the history of readings, `judged.overtaken` counts those that
another overtook.

### MetricsStore, ScrapedMetrics (`storage/metrics.go`, `scraper/metrics.go`)
`dict`, `keys`, `descs`, `lastCompact` are the fields of `MemoryMetricsStore`: a
dictionary of strings, a tree of keys, metrics and postings (all of them ids),
and for each series two columns and the length of the run of equal values at
their end. `Ingest` and `Query` are `IngestMetrics` and `Metrics` as a whole:
selection of the largest samples, interning, the cap, trimming, and compaction,
which gives every string a new id in an order that Go's maps leave open. `Tick`
is the scraper's: all paths are got, marked and filtered, shown in the
collector, and one call for each path of scraping (`pending`) goes to the store,
at a time that the wall clock gave and may take back.

### SeriesStore (abstract)
What that store promises, without ids, dictionary or columns: of every series
the value of each second, those that are not too old, and no more series than
the cap. `ScrapedMetrics` implements it with `points` and `described` read
through the dictionary (`Points`, `Described`).

### ChartStores (`storage/chart.go`, `storage/chart_file.go`)
`slots` is the ring, `segments` the files by day, `torn` the days whose file ends
in the middle of a line. A record comes when the ingest has let go of the
store's lock (`Ingested`), goes to the ring (`RecordMemory`) and, under another
lock, to the file (`RecordFile`, `RecordFails`). `Crash` ends the process with a
line half written, perhaps, and replays: the lines that can be read and are new
enough (`Replayable`) are folded into an empty ring in the order of days and lines
(`Replayed`). A display bucket is computed as in
`Range`, with its rounding. `observed`, `unsaved`, `leftTorn`, `spoilt` are history.

### JournalFile, StorageHealth (`storage/journal.go`, `storage/observability.go`)
The journal as a file, for the one thing that the modules of the store take for
granted: that a write succeeds. A line may be refused, cut, or cut before its
newline; an entry may be impossible to encode; a compaction may stop before the
file is replaced, or after it and before it is open again; a start may be unable
to read the file and appends to it nevertheless. An entry is a version of a thing
and the last one counts, as in the replays of the other modules. `StorageHealth`
adds the state that tells of it: readers get statistics that are kept for a
second (`AskStats`) and set the state later (`SetHealth`).

## 3. The runs

| Run | Instance | What it shows |
|---|---|---|
| `pull_delivery` | budget 2, 2 events, 2 instants, 1 crash, 1 late request, lost answers without end | nothing is lost; the hand-off is implemented; every event is at last delivered |
| `pull_store` | event cap 1, closed TTL 1, compaction at will, operators | store agrees with source, journal with store; buffers and positions agree, the display hides nothing, the budget holds |
| `global_incidents` | 3 requests, event cap 2, closed TTL 1, 5 instants | no annotation is lost |
| `layers` | 2 documents of one state and target each, one mute cap, lag 0 or 1, 4 instants | summaries, scopes, mutes, hash and mute journal agree with the details |
| `rings` | 2 states, ring cap 2, backstop 3, 3 instants | count, bounds, journal agree with the rings; no change missed |
| `rings_late` | 1 state, history and ring of 2, 2 documents under way, 5 instants | the same when a history is cut and documents come out of order |
| `scraping` | thresholds 2, expiration 1, timeout 1, any time | what is said of a target is recent, follows the policy, and is at last true |
| `http_windows` | 2 requests, 2 readers, 2 paths, 2 codes, buckets of 2 s, 5 instants | windows count what happened, once; answers are exact while nobody is overtaken across a bucket's end |
| `metrics` | a target of two paths and an upstream scraper, 3 ticks, cap 1, retention 2, compaction every 2, the seconds 1, 2 and 4 | the store implements `SeriesStore`; what it answers is what was measured, constant if and only if it is; compaction leaves exactly the strings in use |
| `charts` | 2 documents, ring of 2 buckets, days of 2, 3 records, 1 failed write, 1 crash | the chart and its timelines show what was triggering, also after a restart; what would be lost is told |
| `collectors` | seven parts, each on its own (below) | pages, counters, documents, fail maps, fail ratios, trends, profiles, the journal's file and the storage state |
| `reads_summary` | 2 states, one without a target, 1 document | violation: the summary changes and its ETag does not |

`collectors` is the union of seven instances that share nothing: the variable
`part` says of which one a behaviour is, and the others stay as they begin. That
is one run of TLC for modules that are each too small for one of their own:

| Part | Instance | Properties |
|---|---|---|
| page | 4 collectors (two of one name, one with another unit), a state that is one too, 2 callers, 2 labels, 2 additions | `NoAdditionLost`, `ExpositionIsRight` |
| program | 2 manual states (one informational), a check, an aggregate, 2 readers, 2 changes, start-up in progress | `DocumentIsRight`, `AtLastAgree` |
| map | 2 items, 2 reasons, 3 calls, 3 instants | `FailMapIsRight` |
| ratio | window of 2 s or none, both policies, 3 calls at seconds 1, 2, 3, 5 in any order | `RatioIsRight` |
| trend | 2 readers, interval 2, window 4, 3 samples needed, 4 readings, 6 instants | `TrendIsRight` |
| profiles | 2 readers, 3 levels, 3 measurements | `ProfilesPerRise` |
| storage | 2 things (one cannot be encoded), compaction above one line, 1 fault, 1 restart, one reader of the state | `RestartKeepsAll`, `HealthTypeOK`, `HealthFollows` |

Where several invariants are about one thing, a run checks them together, under
a name that is their conjunction, and the parts keep their own comments and, if
they are proved, their own theorems:

| Property | Parts |
|---|---|
| `SourceIsRight` | `BufferMatchesAck`, `NothingHidden`, `NeverAckedWithinBudget` |
| `LayersAgree` | `TypeOK`, `NothingOrphaned`, `SummariesAgree` |
| `RingsAreKept` | `TypeOK`, `Bounded`, `RingsAreJournaled` |
| `TransitionsArrive` | `HistoryAgrees`, `NoTransitionMissed` |
| `SnapshotIsRight` | `TypeOK`, `Coherent`, `OnlyActivePaths` |
| `StoreIsRight` | `TypeOK`, `DocumentsAreRight` |
| `ChartsAreRight` | `TypeOK`, `ChartIsRight`, `TimelineIsRight` |
| `ExpositionIsRight` | `ExpositionTypeOK`, `PageIsRight`, `RefusedForConflict` |
| `DocumentIsRight` | `ProgramTypeOK`, `DocumentAgrees`, `SeenDuringCall` |
| `FailMapIsRight` | `MapTypeOK`, `FailuresAreRight`, `StateFollowsItems` |
| `RatioIsRight` | `RatioTypeOK`, `RatioIsExact`, `BadForAReason` |
| `TrendIsRight` | `TrendTypeOK`, `SamplesAreRight`, `TrendIsSeen` |

The types of `EscalationPull`, `GlobalIncidents` and `Scraping`, and that a crash
loses nothing among global incidents, are theorems and not checked by a run.

Why the bounds are enough for the cases that matter. *Escalations*: two events
are what it takes for a position to fall between them; two instants make a TTL
of one expire; one late request is what it takes to reorder acknowledgements;
one crash suffices because a crash leaves nothing behind but the journal, which
is part of the state. An event cap and a closed TTL of one make the cap and the
sweep bite in almost every behaviour. *Layers*: an interval needs two ingests of
a document, and an eviction by it one of the other document two instants
later, so the clock runs to 3; a lag of 1 stores documents out of the order
they were observed in; a mute of 1 lapses between any two steps. *Rings*: a
history of two and a ring of two are cut by the third change, a backstop of
three is below two full rings; `rings_late` lets the clock run to 4 so that a
history is cut while two documents collected before are still under way.
*Scraping*: ages beyond `Expiration + Timeout` are alike for every guard, which
an assumption of the module demands, and two is the least threshold at which a
count can be reset half way.

*HTTP metrics*: five instants of two-second buckets make three buckets, so that
one can be skipped; an instant in the middle of a bucket is where counts fade.
Two requests make a bucket's count fade to something, one to nothing.

*Metrics*: a cap of one is exceeded by the second series of a metric; a retention
of two among the seconds 1, 2 and 4 lets series die while others live, so that compaction
renames ids in use; the three ticks make a run of equal values that is cut at its
beginning, replaced at its end and ended. *Charts*: a window of two wraps round at
the third bucket, lags of 2 and -1 bring records from before the window and from
the future, days of two buckets make the segment change and the sweep bite; one
crash suffices since it forgets all but the files. *Program*: two readers are what
it takes to set a state in the wrong order; the second of two changes is what the
older one then hides. *Ratio*: seconds 1, 2, 3, 5 are in three buckets, with one
skipped between 1 and 5. *Trend*: an interval of two merges readings, a window of
four drops the first of three. *Storage*: one line above the limit compacts at the
second change, on a disk that has just failed or not yet.

Only `global_incidents` and `http_windows` use symmetry (requests, readers and
paths are interchangeable). Deadlock is not checked in `metrics`, `charts` and
`collectors`, where behaviours end when the bounds on ticks, records or calls are
reached. Every other run checks it: the clock stops at `MaxTime`, and then
operations are still possible.

### Fairness
`pull_delivery`, `scraping` and `collectors` need it. `WF(Poll)`, `WF(Probe)`: the task loop
of the scraper (`scraper.go:126`) ticks for as long as its process lives.
`WF(Record)`: the context of a request ends it, so that a tick ends.
`SF(ServePoll)` and `SF(Ingest)`: a poll that is sent again and again is at
last served, and an answer at last arrives; the network may drop any finite
number of them. There is no fairness on the source's own operations, on what
happens to a target, on restarts, or on time. `Recovers` and `Notices` say what
follows if the target stays as it is and the scraper keeps up; a target that
comes and goes is shown as either.

`ProgramFairness` is weak fairness of the readers of a document: somebody polls
it again and again (the scraper's loop), and a call, which waits for nothing but
locks held for a moment, comes to its end. `HealthFairness` says the same of the
readers of the storage state and of the metrics page, and that a second passes.
`AtLastAgree` and `HealthFollows` hold under these; nothing is assumed of the
program's changes, of the disk or of restarts.

## 4. The proofs

tlapm checks every theorem for all values of the constants under the `ASSUME`s
of the modules: TTLs, caps, spans and thresholds positive, bounds natural numbers,
`CompactionDue` a non-empty set of Booleans, `MaxAge` and `MaxCount` above what they
are compared with, the sets of states, checks and readers finite where their members
are counted, leaves, aggregates and "none" apart, and no identity in two documents
of a chart.

- `EscalationPullProofs`, the source. The invariant `SourceInv` is the type invariant together
  with `BufferMatchesAck`, which is inductive: `AddLog` on an acknowledged
  incident is the case that needs its last conjunct but one (the newest event
  is buffered unless everything is acknowledged), since the display skips an
  incident by comparing counters and never looks into the buffer.
  `NothingIsHidden`, `AckIsMonotone` and `BudgetHolds` follow from it.
  `SourceAlwaysRight`, and its like in the other modules (`LayersAlwaysAgree`,
  `RingsAlwaysKept`, `FailMapAlwaysRight`), puts together what a run checks
  together.
- `IncidentStoreProofs`. What a sweep keeps of the journal and of memory is the
  same (`SameUnswept`), at any time from now on; each operation keeps that.
  Memory and journal are not equal: memory has been swept, the journal not.
- `EscalationPullProofs`, collection. `PullInv` adds three things to `SourceInv`:
  `NumbersOK` (ids, epochs and counters tell apart the events of every process
  that ever ran), `HistoryOK`, and `CursorsOK`: every cursor under way, whether
  the watermark, the answer's, or a late request's, acknowledges only events
  that are delivered or, for the answer's, that arrive with it. That is the
  argument why pruning is safe when requests are late and processes restart.
  `CollectionIsHandoff` maps every step to a step of `EscalationHandoff` or a
  stutter, case by case.
  `StoreAgreesWhenCaughtUp` and `AcknowledgementStands` rest on `FollowsInv`: once
  the newest event of an incident is delivered, the store has the incident with the
  status of the source (or an operator's acknowledgement), or swept it after its
  close; and a document under way that has this event, or comes after it, carries
  that status. A document shows no incident that it has no event of.
- `IncidentStoreProofs`, the requests. Types and the exactness of replay under any set of
  concurrent requests, and that no annotation is lost: `AnnotationsInv` says of every
  event reported of an incident that is stored that it is among the incident's
  events, or as many as are kept are newer. Keeping the newest of more events
  preserves that (`Holds`), in any order in which they come.
- `CurrentLayersProofs`. `ScopesOK` says that a document's scope holds states of
  that document only, which makes the scopes disjoint, and `NothingOrphaned`
  inductive. `MutesAreSeen` needs `NothingOrphaned`: mutes are not rebuilt
  into the summaries while there is no detail, and then there is no summary
  either. `FleetHashIsCurrent` and `MutesSurviveCrash` are inductive with the
  types. `SummariesAlwaysAgree` has the hypothesis `Owned`, that no two
  documents report states of one target; it is false without (see the hazard
  at `storage.go:510`).
- `TransitionRingsProofs`. `RingsInv` is `TrackersInv` (times ascend in a
  history that ends with the present), `StoreInv` (all times in rings and
  journal have passed, the count is the cardinality, the bounds hold) and
  `DocumentsInv` (so do all times in a document under way). `Bounded` rests on
  lemmas on what may be left when the oldest are dropped. `NoTransitionMissed` and
  `TransitionsArrive` need `ArrivalInv`: what is known of a state, in its tracker, in
  documents, in the rings and in the journal, is told apart by its time and is no
  newer than the tracker's last change; a transition no stored document was
  collected after is still in the history, or the history is full of newer ones;
  and a document on its way tells all that must not be missed if it arrives.
- `ScrapingProofs`. `ScrapingInv` is the types and three parts: the counts count
  the newest outcomes; what is shown as pass counts as pass; an answer is no
  younger than what it is about. The last one bounds what is shown by
  expiration and timeout, through late answers and any number of readers.
  Of the page that is scraped: `CountersInv`: every label has a counter of its own,
  and who has found one holds that of its label; the second look under the write
  lock (`Made`) is what makes it inductive. `ExpositionInv` adds what is registered,
  in which order and under which description (`RegistryInv`), and what a page under
  way has and still has to read (`PageInv`): whatever was registered when it was
  asked for is in the one or the other.
- `HttpMetricsProofs`. A counter is seen from a bucket (`CountOf`): what it has of it and
  of the one before, so that rotating changes nothing as seen from its own bucket or
  a later one. `SoundInv` bounds that by the requests recorded, whoever came late.
  The rest holds while nobody did. `InTime`: no counter is ahead of the latest time,
  and seen from there the counts of any finite set of paths, or codes, are together
  no more than the whole; what is truncated one by one is then less than what is
  truncated together (`WindowOfTotal`). `Exact`: what is counted is the tally of the
  requests recorded, except where a snapshot dropped a path and found that nothing
  of the bucket before was left. From then on nothing is left of it either (`FadesOn`),
  as long as later snapshots have later times, which only the cache sees to: hence
  `Refresh > 0` in `AnswersAreExact`.

- `CollectorsProofs`. One invariant for each part, which share nothing.
  `StateInv` (with `FailuresInv`): every failing item has a first and a last
  report, and the state's change is that of the least report since which something
  failed all the time; the two `Min` and `Max` of the properties are introduced only
  at the end. `FileInv`: a journal that is open and tells no error has no tail and
  holds all that can be encoded. That is all that a start needs to bring back
  everything, whatever the disk did, and it is why the error must be kept until a
  compaction has written the whole file. `StoreTyped`: all versions in the store and
  the file, also of the cut line behind its last newline, were accepted before, or at
  the moment the program went; only so has what a start reads its kind. `ProfilesInv`: there is a history
  that gives every reading judged a status and how often memory had got worse by
  then, of which every profile tried has its rise, or its reading was overtaken.
  `RatioInv`: the start is the bucket
  of the newest outcome, and each of the two counts is a cardinality of outcomes of
  its bucket; a step back of the clock and an expired window are the cases that need
  the start to be the newest. `ProgramInv`: for every reader under way, what every
  leaf is, and what *any* reader has found of a check, is among what this reader may
  see. Without the latter it is not inductive, since a check is read back after
  somebody else has set it. `TrendInv`: some increasing numbering picks the samples
  from the readings, namely those that last; adding a reading may take the last
  number away, pruning the first ones. `ChartInv`: of every slot that nothing went
  wrong with, the ring shows what was observed (`RingRight`), and of each identity
  the last line in the file of the day says the same, unless a call with it is on
  its way (`Durable`). That a record which equals the last one written need not be
  written again is sound because what is taken for written last still is what the
  file says (`LastStands`), and that in turn because identities belong to one
  document. `ReplayShown` says what a replay makes of any files, one line after the
  other from the last one down, by the smallest subset of lines for which it would
  not; with `Durable` it is what was observed (`ReplayedRight`). For the timelines,
  `DisplayHolds` relates the rounded quotient of `Range` to the limits of a display
  bucket. `LossesTold`: while no write has failed, each cut line that there was at
  the start is still there or has cost one record.

  What a sum over a finite set returns is proved without induction over an operator:
  `MapThenSumSet` is a function on the subsets chosen by its equation, a function of
  ours satisfies the equation (`CountsAddUp` has cardinalities, and `TotalsAreSums` of
  `HttpMetricsProofs` the number of the pairs that the summands make), and a smallest
  subset on which two solutions differ, which `WFMin` gives, cannot be
  (`SumsAreOne`).

- `MetricsProofs`. `StoreInv` says that every id in use is one of the dictionary
  (`IdOK`, `DescsOK`), that the postings of a series are those of a label set, names
  ascending, so that two series never mean the same (`MeantOnce`), and that the
  columns of a series are sorted, of one length, with the run of equal values that
  ends them (`SeriesOK`). No operation is looked at by its ids: each is reduced to
  what it does to the points, a set of series, seconds and values (`StatePoints`).
  Interning one more string leaves what ids mean as it is (`Extends`); a compaction,
  by any walk through the maps, changes every id and none of the points
  (`CompactedIs`), and has met every string in use, and no other, when it is done:
  hence `OnlyUsedStringsStay`. That a fold over samples, or over metrics, adds what
  each of its steps adds is proved by the least prefix for which it would not.
  `DocumentsTellWhatWasMeasured` needs the run of equal values at the end of a column
  to be the longest one (`RunBefore`), since a document tells from it alone whether
  a window is constant; and counting series and points by ids is counting them as
  what they mean only because none has two ids (`CountsAreRight`).

  `StoreKeepsWhatWasMeasured` is the refinement of `SeriesStore`, step by step. A call
  goes through its metrics in some order; each of them (`MetricStep`) adds its chosen
  samples one by one and caps its own series. The samples come from the largest to the
  smallest, so that the last one said of a series is the smallest that was said of it,
  as `SeriesStore` has it (`SamplesMeasure`); what is added and capped depends on the
  points of that metric alone (`MetricIsLocal`) and leaves the others as they are
  (`OthersStay`), so that the order does not matter and one abstract step is the whole
  call (`ChainIs`, `ChainChooses`, `ChainKeeps`). Descriptions follow the same chain
  (`ChainDescribes`). A tick is a `Request`, or nothing, if it has no samples.

Only model-checked: the liveness properties `EventuallyDelivered`, `Recovers`,
`Notices`, `AtLastAgree`, `HealthFollows` (liveness is out of the prover's reach).

## 5. Findings

- *The summary's ETag is not its own* (`storage/storage.go:909`): it is taken of
  the targets, the counts of all states. Run `reads_summary`.

Disagreements of the code with what it says of itself, met while modelling and
without a run of their own:

- an annotation may reopen an incident that was closed meanwhile
  (`storage/api.go:442,547`): the status written back is the one that was read
  before the lock was released (`openapi.yaml:436` has a close that is final);
- a lapsed mute stays in a summary (`storage/storage.go:478`): the ingest of one
  document drops all lapsed mutes and rebuilds its own summaries only; the others
  go on showing a mute that `refreshExpiredMutes` (`storage.go:614`) finds no more;
- a stale check that was recovering is not shown as down (`scraper/liveness.go:57`
  looks at what the check counts as, `scraper/README.md:246` promises down);
- acknowledged incidents never age (`storage/storage.go:857` looks for closed
  only, `storage.go:13` says that everything that grows is bounded);
- a list of targets may be sent under the hash of another (`storage/api.go:173`
  reads the two in two critical sections);
- a stale mirror shows nothing (`scraper/aggregate.go:72`), where the scraper's
  README speaks of a wrapper that goes down (lines 124-127, 246-249);
- failed probes count as contact: `expiration` is the time without any probe
  recorded (`liveness.go:115`), where the README says without a successful
  scrape;
- a reader of HTTP metrics that is overtaken across the end of a bucket erases
  the window (`collectors/http.go:236,260`): it takes every counter that has
  moved on for idle and deletes it, the aggregate of all paths with it;
  `AnswersAreExact` is false without `~ overtaken'`;
- without a cache (`collectors/http.go:233` offers it) the same happens inside a
  bucket, to what is left of the one before: a reader that read the clock earlier
  and gets the lock later misses a path that has faded out meanwhile.
  `AnswersAreExact` promises completeness for `Refresh > 0` only;
- once the backstop evicts, scrapes without a change journal old transitions
  again (`storage/storage.go:692`);
- a registration that is refused leaves its state or collector in the list
  (`registry.go:79,97`), and from then on every page is refused; units are
  compared by the page (`registry_prometheus.go:149`) and not by the registration
  (`registry.go:164`);
- an entry of the journal that cannot be encoded is skipped by the next
  compaction, which clears the error all the same (`storage/journal.go:200,239`);
  a journal that cannot be read at start leaves the store empty, and the next
  compaction replaces the history with that (`storage/storage.go:371-377`);
- a line cut at the end of a chart's segment swallows the first record after the
  restart, without an error (`storage/chart_file.go:126-147,177-196`): the bound
  in `UnsavedIsTold`; two documents that take turns are written again each time
  (lines 232-234 say that a bucket that is unchanged is not);
- a record from outside the window clears the slot of a bucket inside
  (`storage/chart.go:93`): the exception in `ChartIsRight`;
- readings that come faster than the sample interval keep replacing the last
  sample, so that a trend is never seen while they do (`runtime_state.go:171`);
- a heap profile that could not be written is not tried again until memory gets
  worse once more (`memory_state.go:170`);
- the estimates of a window are truncated one by one, so that the policy for
  "all failed" may find that of two with one pass (3 of which 2 become 1 and 1);
  a ratio whose clock stepped back counts nothing until the clock is back.

## 6. Not modelled, and why

- Reasons, data, labels, annotations and all formatting: they are carried along
  and decide nothing. (The data of a fail map, a ratio and of health, and the
  labels of metrics, are modelled, since properties are about them.)
- Gauges and histograms: atomics like the counters. YAML, the local format, the
  display: text computed from a snapshot.
- Parsing of Prometheus text, of documents and of configuration.
- Console, info pages, embedded UI, examples: no state that changes.
- The document cache: a wrapper of a library's map.
- Sizes and counts among the statistics of the store.
- What the collectors measure of the runtime and of the operating system. Of the
  HTTP metrics, the two cumulative totals.
- The registry's merge of several escalation sources: one cursor is passed to
  each, and the answers are concatenated.
- Reads of targets, timelines and metrics over HTTP: one call of the store each,
  which the store's modules have, and an encoding.
- Two documents that report states of one target (`storage.go:510`): summaries
  are then those of the document that came last; `layers` and the proof of
  `SummariesAlwaysAgree` exclude it.
- Failures of the journal in the modules of its owners: `JournalFile` says what a
  start brings back when nothing was told; after an error the store may restart
  with less, and no more can be said.
- A wall clock that steps back, but in `FailRatio` and `ScrapedMetrics`; in the
  others time is what Go's monotonic clock says, or the time a document was
  observed at. A record of a chart is not delayed for as long as the whole window.

## 7. What could follow

A run that composes `JournalFile` with the incident store; the composition of a scraper's tick
with the layers and the charts of one document.
