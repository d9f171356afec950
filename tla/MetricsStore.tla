------------------------------ MODULE MetricsStore ------------------------------
(****************************************************************************)
(* The store of metrics in memory (storage/metrics.go): strings are kept    *)
(* once, in a dictionary; label sets are postings, sequences of ids; times  *)
(* and values of a series are two columns, with the length of the run of    *)
(* equal values at their end.  When series go, the dictionary is compacted  *)
(* and every id changes.                                                    *)
(*                                                                          *)
(* Each operation holds the store's lock from its beginning to its end.  Of *)
(* a description, help, type and unit are one text.                         *)
(****************************************************************************)
EXTENDS Integers, Sequences, SequencesExt, FiniteSets, FiniteSetsExt, Functions, TLC

CONSTANTS
  Cap,           \* seriesCap
  Retention,     \* retention, in seconds
  CompactEvery,  \* 60 in the code
  NameOrder,     \* the label names there may be, sorted
  Canonical,     \* the label sets there may be, in the order of their canonical form
  NaN            \* stands for every value that is not a number, or infinite

ASSUME StoreAssumption ==
  /\ {Cap, Retention, CompactEvery} \subseteq Nat \ {0}
  /\ NameOrder \in Seq(STRING) /\ IsInjective(NameOrder)
  /\ Canonical \in Seq(Range(Canonical)) /\ IsInjective(Canonical)
  /\ \A labels \in Range(Canonical) :
       labels \in [DOMAIN labels -> STRING] /\ DOMAIN labels \subseteq Range(NameOrder)

VARIABLES
  dict,         \* dict.values without the empty string, whose id is 0
  keys,         \* id of a key -> id of a metric -> postings -> series
  descs,        \* id of a metric -> id of its description
  lastCompact,
  pending       \* calls of IngestMetrics that wait for the lock

storeVars == <<dict, keys, descs, lastCompact>>

InitStore == dict = <<>> /\ keys = <<>> /\ descs = <<>> /\ lastCompact = 0 /\ pending = {}

-----------------------------------------------------------------------------
(* Order.                                                                   *)

\* The members of a set, sorted; before is the set of the pairs of them that are in order.
Ranked(set, before) ==
  [n \in 1..Cardinality(set) |->
     CHOOSE x \in set : Cardinality({y \in set : <<y, x>> \in before}) = n - 1]

\* The items of a list that are at some places, in their order.
Picked(list, places) ==
  LET order == Ranked(places, {pair \in places \X places : pair[1] < pair[2]})
  IN  [n \in DOMAIN order |-> list[order[n]]]

-----------------------------------------------------------------------------
(* Strings and labels.                                                      *)

\* The empty string has an id, 0, and is not in the dictionary.
NoString == ""

\* stringDictionary.intern
Intern(d, string) == IF string = NoString \/ Contains(d, string) THEN d ELSE Append(d, string)

InternAll(d, strings) == FoldLeft(Intern, d, strings)

Id(d, string) == IF string = NoString THEN 0 ELSE CHOOSE i \in DOMAIN d : d[i] = string

\* stringDictionary.lookup
Lookup(d, id) == IF id \in DOMAIN d THEN d[id] ELSE NoString

\* The path of scraping is the key already.
LabelsOf(sample) == Restrict(sample.labels, DOMAIN sample.labels \ {"scrape_path"})

\* Labels with their names, sorted by these.
LabelPairs(labels) ==
  LET place(name) == CHOOSE i \in DOMAIN NameOrder : NameOrder[i] = name
      pairs == (DOMAIN labels) \X (DOMAIN labels)
      names == Ranked(DOMAIN labels, {pair \in pairs : place(pair[1]) < place(pair[2])})
  IN  [i \in DOMAIN names |-> <<names[i], labels[names[i]]>>]

\* encodeLabels
Postings(d, labels) ==
  LET pairs == LabelPairs(labels)
  IN  [i \in DOMAIN pairs |-> <<Id(d, pairs[i][1]), Id(d, pairs[i][2])>>]

\* decodeLabels: of two labels of one name the later one counts.
Labels(d, postings) ==
  LET of(name) == {i \in DOMAIN postings : Lookup(d, postings[i][1]) = name}
  IN  [name \in {Lookup(d, postings[i][1]) : i \in DOMAIN postings} |-> Lookup(d, postings[Max(of(name))][2])]

\* The order of signatures, which spell the postings out.
SignatureBefore(p, q) ==
  \E n \in 0..Len(p) :
    /\ n < Len(q) /\ \A i \in 1..n : p[i] = q[i]
    /\ \/ n = Len(p) \/ p[n + 1][1] < q[n + 1][1]
       \/ p[n + 1][1] = q[n + 1][1] /\ p[n + 1][2] < q[n + 1][2]

\* metricDescriptor: the first that is about the name, or about a name derived from it.
Description(name, given) ==
  LET about == {i \in DOMAIN given : name \in given[i].covers}
  IN  IF about = {} THEN {} ELSE {given[Min(about)].text}

-----------------------------------------------------------------------------
(* Series.                                                                  *)

NewSeries == [timestamps |-> <<>>, values |-> <<>>, constantValue |-> 0, constantCount |-> 0]

\* The length of the run of equal values that ends a column.
RunOf(values) ==
  IF values = <<>> THEN 0
  ELSE Max({n \in 1..Len(values) : \A i \in (Len(values) - n + 1)..Len(values) : values[i] = Last(values)})

\* Mutant: the replaced value is taken for one more of its kind.
UpdateConstantRun_Kept(s) == [s EXCEPT !.constantValue = Last(s.values)]

\* updateConstantRun
UpdateConstantRun(s) ==
  [s EXCEPT !.constantValue = Last(s.values), !.constantCount = RunOf(s.values)]

\* A sample of second at: too late, instead of the last one, or after it.
Add(s, at, value) ==
  IF s.timestamps # <<>> /\ at < Last(s.timestamps) THEN s
  ELSE IF s.timestamps # <<>> /\ at = Last(s.timestamps)
  THEN IF Last(s.values) = value THEN s
       ELSE UpdateConstantRun([s EXCEPT !.values[Len(s.values)] = value])
  ELSE [timestamps |-> Append(s.timestamps, at), values |-> Append(s.values, value),
        constantValue |-> value,
        constantCount |-> IF s.timestamps # <<>> /\ s.constantValue = value THEN s.constantCount + 1 ELSE 1]

\* How many points are older than cutoff.
Older(s, cutoff) == Cardinality({i \in DOMAIN s.timestamps : s.timestamps[i] < cutoff})

\* The points from cutoff on; the run of equal values is no longer than these.
TrimSeries(s, cutoff) ==
  LET n == Older(s, cutoff)
  IN  [s EXCEPT !.timestamps = SubSeq(@, n + 1, Len(@)), !.values = SubSeq(@, n + 1, Len(@)),
                !.constantCount = Min({@, Len(s.values) - n})]

\* trimLocked: the tree without old points, empty series, metrics and keys.
Trimmed(tree, cutoff) ==
  LET live(s) == Older(s, cutoff) < Len(s.timestamps)
      series(all) == [p \in {p \in DOMAIN all : live(all[p])} |-> TrimSeries(all[p], cutoff)]
      metrics(all) == [n \in {n \in DOMAIN all : DOMAIN series(all[n]) # {}} |-> series(all[n])]
  IN  [k \in {k \in DOMAIN tree : DOMAIN metrics(tree[k]) # {}} |-> metrics(tree[k])]

\* Whether it removed any of them, and not only points.
TrimRemoves(tree, cutoff) ==
  \E k \in DOMAIN tree : \E n \in DOMAIN tree[k] :
    \E p \in DOMAIN tree[k][n] : Older(tree[k][n][p], cutoff) = Len(tree[k][n][p].timestamps)

\* Mutant: the smallest stay.
CappedSeries_Smallest(all) ==
  LET before(p, q) ==
        \/ Last(all[p].values) < Last(all[q].values)
        \/ (Last(all[p].values) = Last(all[q].values) /\ SignatureBefore(p, q))
  IN  Restrict(all, {p \in DOMAIN all : Cardinality({q \in DOMAIN all : before(q, p)}) < Cap})

\* enforceSeriesCapLocked: series with the largest last values stay.
CappedSeries(all) ==
  LET before(p, q) ==
        \/ Last(all[p].values) > Last(all[q].values)
        \/ (Last(all[p].values) = Last(all[q].values) /\ SignatureBefore(p, q))
  IN  Restrict(all, {p \in DOMAIN all : Cardinality({q \in DOMAIN all : before(q, p)}) < Cap})

-----------------------------------------------------------------------------
(* compactDictionaryLocked                                                  *)

\* The series by their ids.
SeriesIds(tree) ==
  UNION {UNION {{<<k, n, p>> : p \in DOMAIN tree[k][n]} : n \in DOMAIN tree[k]} : k \in DOMAIN tree}

\* The series in an order in which maps may be gone through: of one key after
\* the other, of one metric of it after the other.
Walks(tree) ==
  {walk \in SetToSeqs(SeriesIds(tree)) : \A i, j \in DOMAIN walk : \A between \in i..j :
     /\ walk[i][1] = walk[j][1] => walk[between][1] = walk[i][1]
     /\ walk[i][1] = walk[j][1] /\ walk[i][2] = walk[j][2] => walk[between][2] = walk[i][2]}

\* The strings met on such a walk.
StringsOf(state, walk) ==
  LET entry(s) == <<Lookup(state.dict, s[1]), Lookup(state.dict, s[2]),
                    Lookup(state.dict, IF s[2] \in DOMAIN state.descs THEN state.descs[s[2]] ELSE 0)>>
                  \o FlattenSeq([i \in DOMAIN s[3] |->
                       <<Lookup(state.dict, s[3][i][1]), Lookup(state.dict, s[3][i][2])>>])
  IN  FlattenSeq([i \in DOMAIN walk |-> entry(walk[i])])

\* Everything encoded by another dictionary, which has all of the strings in use.
\* Descriptions of metrics that are not kept are forgotten.
Encoded(state, new) ==
  LET To(id) == Id(new, Lookup(state.dict, id))
      From(id) == Id(state.dict, Lookup(new, id))
      ToAll(p) == [i \in DOMAIN p |-> <<To(p[i][1]), To(p[i][2])>>]
      FromAll(p) == [i \in DOMAIN p |-> <<From(p[i][1]), From(p[i][2])>>]
      metrics == UNION {DOMAIN state.keys[k] : k \in DOMAIN state.keys}
  IN  [dict |-> new,
       keys |-> [k \in {To(k) : k \in DOMAIN state.keys} |->
                  [n \in {To(n) : n \in DOMAIN state.keys[From(k)]} |->
                    [p \in {ToAll(p) : p \in DOMAIN state.keys[From(k)][From(n)]} |->
                      state.keys[From(k)][From(n)][FromAll(p)]]]],
       descs |-> [n \in {To(n) : n \in metrics} |->
                   To(IF From(n) \in DOMAIN state.descs THEN state.descs[From(n)] ELSE 0)]]

\* Mutant: the dictionary stays as it is.
Compacted_Never(state) == {state}

\* What compaction may make of the store.
Compacted(state) ==
  {Encoded(state, InternAll(<<>>, StringsOf(state, walk))) : walk \in Walks(state.keys)}

-----------------------------------------------------------------------------
(* The operations.                                                          *)

Becomes(state) == dict' = state.dict /\ keys' = state.keys /\ descs' = state.descs

\* The finite samples of one metric, those with the largest values only; of equal ones
\* the first by their labels, and then as they came.
Observed(call, name) ==
  LET finite == {i \in DOMAIN call.samples : call.samples[i].name = name /\ call.samples[i].value # NaN}
      value(i) == call.samples[i].value
      labels(i) == CHOOSE c \in DOMAIN Canonical : Canonical[c] = LabelsOf(call.samples[i])
      before(i, j) ==
        \/ value(i) > value(j)
        \/ value(i) = value(j) /\ (labels(i) < labels(j) \/ (labels(i) = labels(j) /\ i < j))
      sorted == Ranked(finite, {pair \in finite \X finite : before(pair[1], pair[2])})
  IN  [n \in 1..Min({Cap, Cardinality(finite)}) |-> call.samples[sorted[n]]]

\* One sample goes into the series of its labels.
AddSample(state, at, sample, k, n) ==
  LET d == InternAll(state.dict, FlattenSeq(LabelPairs(LabelsOf(sample))))
      p == Postings(d, LabelsOf(sample))
      all == state.keys[k][n]
      series == [q \in DOMAIN all \cup {p} |->
        IF q = p THEN Add(IF p \in DOMAIN all THEN all[p] ELSE NewSeries, at, sample.value) ELSE all[q]]
  IN  [dict |-> d, keys |-> [state.keys EXCEPT ![k][n] = series],
       descs |-> state.descs, removed |-> state.removed]

AddSamples(state, at, samples, k, n) ==
  FoldLeft(LAMBDA s, sample : AddSample(s, at, sample, k, n), state, samples)

\* The samples of one metric: its ids, its description, its series, the cap.
AddMetric(state, call, name) ==
  LET given == Description(name, call.descs)
      d == InternAll(Intern(state.dict, name), SetToSeq(given))
      k == Id(d, call.key)
      n == Id(d, name)
      tree == [j \in DOMAIN state.keys \cup {k} |->
                 IF j # k THEN state.keys[j]
                 ELSE LET old == IF k \in DOMAIN state.keys THEN state.keys[k] ELSE <<>>
                      IN  [m \in DOMAIN old \cup {n} |-> IF m \in DOMAIN old THEN old[m] ELSE <<>>]]
      named == [dict |-> d, keys |-> tree, removed |-> state.removed,
                descs |-> [m \in DOMAIN state.descs \cup (IF given = {} THEN {} ELSE {n}) |->
                             IF m = n /\ given # {} THEN Id(d, CHOOSE text \in given : TRUE)
                             ELSE state.descs[m]]]
      added == AddSamples(named, call.at, Observed(call, name), k, n)
      capped == CappedSeries(added.keys[k][n])
  IN  [dict |-> added.dict, keys |-> [added.keys EXCEPT ![k][n] = capped], descs |-> added.descs,
       removed |-> added.removed \/ DOMAIN capped # DOMAIN added.keys[k][n]]

AddMetrics(state, call, names) == FoldLeft(LAMBDA s, name : AddMetric(s, call, name), state, names)

\* IngestMetrics; metrics come in any order.
Ingest(call) ==
  LET names == {call.samples[i].name : i \in {i \in DOMAIN call.samples : call.samples[i].value # NaN}}
  IN  /\ pending' = pending \ {call}
      /\ IF names = {} THEN UNCHANGED storeVars
         ELSE \E order \in SetToSeqs(names) :
           LET first == [dict |-> Intern(dict, call.key), keys |-> keys, descs |-> descs, removed |-> FALSE]
               added == AddMetrics(first, call, order)
               cutoff == call.at - Retention
               trimmed == [dict |-> added.dict, keys |-> Trimmed(added.keys, cutoff), descs |-> added.descs]
               removed == added.removed \/ TrimRemoves(added.keys, cutoff)
           IN  IF removed /\ (lastCompact = 0 \/ call.at - lastCompact >= CompactEvery)
               THEN (\E state \in Compacted(trimmed) : Becomes(state)) /\ lastCompact' = call.at
               ELSE Becomes(trimmed) /\ UNCHANGED lastCompact

\* Metrics, for what it changes.
Query(now) ==
  LET cutoff == now - Retention
      trimmed == [dict |-> dict, keys |-> Trimmed(keys, cutoff), descs |-> descs]
  IN  /\ IF TrimRemoves(keys, cutoff)
         THEN (\E state \in Compacted(trimmed) : Becomes(state)) /\ lastCompact' = now
         ELSE Becomes(trimmed) /\ UNCHANGED lastCompact
      /\ UNCHANGED pending

\* constantRunEndingAt
ConstantRunEndingAt(s, end) ==
  IF end = Len(s.values) THEN s.constantCount ELSE RunOf(SubSeq(s.values, 1, end))

\* Metrics, for what it shows of one key from one second to another.
Document(key, from, to) ==
  LET k == Id(dict, key)
      shown(p, s) ==
        LET start == Older(s, from)
            end == Older(s, to + 1)
        IN  IF start = end THEN {}
            ELSE {[labels |-> Labels(dict, p),
                   timestamps |-> SubSeq(s.timestamps, start + 1, end),
                   values |-> SubSeq(s.values, start + 1, end),
                   constant |-> ConstantRunEndingAt(s, end) >= end - start]}
      series(n) == UNION {shown(p, keys[k][n][p]) : p \in DOMAIN keys[k][n]}
  IN  IF ~ Contains(dict, key) \/ k \notin DOMAIN keys THEN {}
      ELSE {[name |-> Lookup(dict, n), series |-> series(n),
             help |-> Lookup(dict, IF n \in DOMAIN descs THEN descs[n] ELSE 0)] :
              n \in {n \in DOMAIN keys[k] : series(n) # {}}}

\* MetricsStats
MetricsStats ==
  [keys |-> Cardinality(DOMAIN keys), strings |-> Len(dict),
   metrics |-> Cardinality(UNION {{<<k, n>> : n \in DOMAIN keys[k]} : k \in DOMAIN keys}),
   series |-> Cardinality(SeriesIds(keys)),
   points |-> Cardinality(UNION {{<<i, j>> : j \in DOMAIN keys[i[1]][i[2]][i[3]].timestamps} : i \in SeriesIds(keys)})]

-----------------------------------------------------------------------------
(* What of this is SeriesStore.                                             *)

\* What the ids of a series stand for.
Meant(i) == <<Lookup(dict, i[1]), Lookup(dict, i[2]), Labels(dict, i[3])>>

\* The points that the columns hold.
Points ==
  UNION {LET s == keys[i[1]][i[2]][i[3]]
         IN  {<<Meant(i), s.timestamps[j], s.values[j]>> : j \in DOMAIN s.timestamps} : i \in SeriesIds(keys)}

\* The descriptions of the metrics that are kept.
Described ==
  [name \in {Lookup(dict, n) : n \in UNION {DOMAIN keys[k] : k \in DOMAIN keys}} |->
     Lookup(dict, IF Id(dict, name) \in DOMAIN descs THEN descs[Id(dict, name)] ELSE 0)]

=============================================================================
