----------------------------- MODULE ScrapedMetrics -----------------------------
(****************************************************************************)
(* The metrics task of the scraper (scraper/metrics.go): each tick gets the *)
(* metrics of a target from all of its paths, marks where they come from,   *)
(* shows them on the scraper's own metrics page (collector) and hands them  *)
(* to the metrics store, one call for every path of scraping.               *)
(*                                                                          *)
(* A tick shares nothing while it gets and marks: that is one step with the *)
(* collector's update.  Its calls of IngestMetrics are steps of their own,  *)
(* with ticks of other targets and reads of the store in between.  Each of  *)
(* them reads the wall clock, which may have been set back.                 *)
(****************************************************************************)
EXTENDS MetricsStore

CONSTANTS
  Exposed,           \* target -> path -> what it may show: sets of [samples, descs]
  TargetLabels,      \* target -> labels that are configured for it
  StateAggregated,   \* the targets whose states are mirrored
  DropScrapePath,    \* the targets without the label scrape_path
  Times,             \* bound of the model: the seconds there are
  MaxTicks           \* bound of the model

Targets == DOMAIN Exposed

VARIABLES
  collected,      \* collector.samples: target -> its samples
  collectedDescs, \* collector.descs: name -> the description shown of it
  ticks           \* how many ticks there were

vars == <<dict, keys, descs, lastCompact, pending, collected, collectedDescs, ticks>>

-----------------------------------------------------------------------------

Label(labels, name) == IF name \in DOMAIN labels THEN labels[name] ELSE ""

FirstGiven(a, b) == IF a # "" THEN a ELSE b

\* Whom a sample was scraped from: its own label, the configured one, the target.
ScrapedFrom(t, own) ==
  FirstGiven(Label(own, "scraped_from"), FirstGiven(Label(TargetLabels[t] @@ own, "scraped_from"), t))

\* The path of scraping, from the last scraper's target to the first.
ScrapePath(t, own) ==
  LET upstream == FirstGiven(Label(own, "scrape_path"), Label(TargetLabels[t] @@ own, "scrape_path"))
  IN  IF upstream # "" THEN t \o " > " \o upstream
      ELSE IF ScrapedFrom(t, own) # t THEN t \o " > " \o ScrapedFrom(t, own)
      ELSE t

\* A sample with its marks; configured labels take the place of its own.
Marked(t, sample) ==
  LET labels == [scraped_from |-> ScrapedFrom(t, sample.labels)] @@ TargetLabels[t] @@ sample.labels
  IN  [sample EXCEPT !.labels =
        IF t \in DropScrapePath THEN Restrict(labels, DOMAIN labels \ {"scrape_path"})
        ELSE [scrape_path |-> ScrapePath(t, sample.labels)] @@ labels]

\* What a path shows are samples with a name, whose marks make them one of the
\* label sets there may be, and descriptions.
ASSUME ExposedAssumption ==
  /\ Times \subseteq Int /\ MaxTicks \in Nat
  /\ \A t \in Targets :
       /\ Exposed[t] \in Seq(Range(Exposed[t]))
       /\ \A p \in DOMAIN Exposed[t] : \A page \in Exposed[t][p] :
            LET samples == page.samples
                given == page.descs
            IN  /\ samples \in Seq(Range(samples)) /\ given \in Seq(Range(given))
                /\ \A i \in DOMAIN given : given[i].text \in STRING
                /\ \A i \in DOMAIN samples :
                     /\ DOMAIN samples[i] = {"name", "labels", "value"}
                     /\ samples[i].name \in STRING /\ samples[i].value \in Int
                     /\ LabelsOf(Marked(t, samples[i])) \in Range(Canonical)
                     /\ ScrapePath(t, samples[i].labels) \in STRING \ {NoString}

\* filterStateMetrics, filterStateMetricDescs
StateMetricNames == {"state_level", "state_time_in_state_seconds"}

WithoutStateMetrics(t, list) ==
  Picked(list, {i \in DOMAIN list : t \in StateAggregated => list[i].name \notin StateMetricNames})

-----------------------------------------------------------------------------

Init ==
  /\ InitStore
  /\ collected = <<>> /\ collectedDescs = <<>>
  /\ ticks = 0

\* update, for descriptions: the first one of a name stays.
ShownDescs(given) ==
  LET named(name) == {i \in DOMAIN given : given[i].name = name}
  IN  collectedDescs @@ [name \in {given[i].name : i \in DOMAIN given} |-> given[Min(named(name))]]

\* What the paths of a target may answer: nothing, when they fail.
Answers(t) ==
  LET one(p) == Exposed[t][p] \cup {[samples |-> <<>>, descs |-> <<>>]}
  IN  {got \in [DOMAIN Exposed[t] -> UNION {one(p) : p \in DOMAIN Exposed[t]}] :
         \A p \in DOMAIN got : got[p] \in one(p)}

\* tick: all that the paths gave takes the place of what the target had, and goes
\* to the store under the paths it was scraped by.
Tick(t, at) ==
  /\ ticks < MaxTicks /\ ticks' = ticks + 1
  /\ \A call \in pending : call.target # t
  /\ \E got \in Answers(t) :
       LET samples == WithoutStateMetrics(t, FlattenSeq([p \in DOMAIN got |-> got[p].samples]))
           given == WithoutStateMetrics(t, FlattenSeq([p \in DOMAIN got |-> got[p].descs]))
           path(i) == ScrapePath(t, samples[i].labels)
           marked == [i \in DOMAIN samples |-> Marked(t, samples[i])]
           of(key) == Picked(marked, {i \in DOMAIN samples : path(i) = key})
       IN  /\ collected' = [u \in DOMAIN collected \cup {t} |-> IF u = t THEN marked ELSE collected[u]]
           /\ collectedDescs' = ShownDescs(given)
           /\ pending' = pending \cup
                {[target |-> t, key |-> key, samples |-> of(key), descs |-> given, at |-> at] :
                   key \in {path(i) : i \in DOMAIN samples}}
  /\ UNCHANGED <<dict, keys, descs, lastCompact>>

\* IngestMetrics
Ingests(call) == Ingest(call) /\ UNCHANGED <<collected, collectedDescs, ticks>>

\* Somebody reads the store.
Queries(now) == Query(now) /\ UNCHANGED <<collected, collectedDescs, ticks>>

Next ==
  \/ \E t \in Targets, at \in Times : Tick(t, at)
  \/ \E call \in pending : Ingests(call)
  \/ \E now \in Times : Queries(now)

Spec == Init /\ [][Next]_vars

-----------------------------------------------------------------------------
(* Properties.                                                              *)

AllSeries == UNION {UNION {Range(keys[k][n]) : n \in DOMAIN keys[k]} : k \in DOMAIN keys}

\* Every variable holds a value of its kind; the tree of series has no empty
\* branches, and the columns of a series have one length, which is not zero.
TypeOK ==
  /\ dict \in Seq(STRING) /\ IsInjective(dict)
  /\ \A k \in DOMAIN keys : DOMAIN keys[k] # {} /\ \A n \in DOMAIN keys[k] : DOMAIN keys[k][n] # {}
  /\ \A s \in AllSeries : DOMAIN s.timestamps = DOMAIN s.values /\ s.values # <<>>
  /\ \A n \in DOMAIN descs : descs[n] \in 0..Len(dict)
  /\ DOMAIN collected \subseteq Targets
  /\ \A call \in pending : call.target \in Targets /\ call.at \in Times
  /\ ticks \in 0..MaxTicks /\ lastCompact \in Times \cup {0}

SeriesStore == INSTANCE SeriesStore WITH points <- Points, described <- Described

\* The store keeps of every series the values that were measured, under the right
\* key, metric and labels, forgets what is too old and has no more series than the
\* cap allows: ids, postings, columns, the dictionary and its compaction in the
\* midst of calls and reads change nothing of that (storage/README.md:50-52).
KeepsSeries == SeriesStore!Spec

\* However points were appended, replaced, late, trimmed and read: a series says
\* constant of a window if and only if its values there are all the same, and the
\* points it shows are those of the window, in order of time; nothing is kept, or
\* counted in the statistics, twice.
DocumentsAreRight ==
  LET points == Points
      described == Described
      shown(key, from, to) == UNION {{<<m.name, m.help, s>> : s \in m.series} : m \in Document(key, from, to)}
      window(s, from, to) == {<<x[2], x[3]>> : x \in {x \in points : x[1] = s /\ x[2] \in from..to}}
      due(key, from, to) == {s \in {x[1] : x \in points} : s[1] = key /\ window(s, from, to) # {}}
      isOf(x, s, from, to) ==
        LET times == x[3].timestamps
        IN  /\ x[1] = s[2] /\ x[2] = described[s[2]] /\ x[3].labels = s[3]
            /\ \A i, j \in DOMAIN times : i < j => times[i] < times[j]
            /\ {<<times[i], x[3].values[i]>> : i \in DOMAIN times} = window(s, from, to)
            /\ x[3].constant <=> Cardinality({point[2] : point \in window(s, from, to)}) = 1
  IN  /\ \A key \in {x[1][1] : x \in points} : \A to \in Times : \A from \in {t \in Times : t < to} :
           LET entries == shown(key, from, to)
           IN  /\ \A x \in entries : \E s \in due(key, from, to) : isOf(x, s, from, to)
               /\ \A s \in due(key, from, to) : \E x \in entries : isOf(x, s, from, to)
      /\ MetricsStats.series = Cardinality({x[1] : x \in points})
      /\ MetricsStats.points = Cardinality(points)

\* What ids are in use.
UsedIds ==
  LET labels(p) == UNION {{p[i][1], p[i][2]} : i \in DOMAIN p}
  IN  ((UNION {{i[1], i[2]} \cup labels(i[3]) : i \in SeriesIds(keys)}) \cup Range(descs)) \ {0}

\* Compaction leaves the strings that something uses, and no others: those that
\* belonged to series that are gone do not pile up (metrics.go:356).
CompactionIsExact == [][lastCompact' # lastCompact => UsedIds' = DOMAIN dict']_vars

\* What the store keeps is well formed and what was measured.
StoreIsRight == TypeOK /\ DocumentsAreRight
=============================================================================
