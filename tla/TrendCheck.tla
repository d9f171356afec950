----------------------------- MODULE TrendCheck -----------------------------
(****************************************************************************)
(* runtimeTrendCheck (collectors/runtime_state.go): a state that readers of *)
(* the program compute when they ask, by how much a metric of the runtime   *)
(* has grown over a window of samples that the readings themselves leave.   *)
(* The metric is read before the lock is taken: readers overtake each other *)
(* in between.                                                              *)
(*                                                                          *)
(* Time is Go's monotonic clock.  One threshold stands for the three.       *)
(****************************************************************************)
EXTENDS Integers, FiniteSets, Sequences, FiniteSetsExt

CONSTANTS
  TrendReaders,
  Interval,       \* runtimeTrendCheck.sampleInterval
  TrendWindow,    \* runtimeTrendCheck.window
  TrendSamples,   \* runtimeTrendCheck.minSamples
  GrowthAt,       \* the threshold: growth per second
  Values,         \* what the metric may be
  MaxTrendTime,   \* bound on time
  MaxReadings     \* bound on readings

\* A negative interval is refused (runtime_state.go:115), a negative window none (180);
\* a threshold of zero would be none (thresholdStatus).
ASSUME TrendAssumption ==
  /\ {Interval, TrendWindow, MaxTrendTime, MaxReadings} \subseteq Nat
  /\ TrendSamples \in Int /\ GrowthAt \in Nat \ {0} /\ Values \subseteq Int

VARIABLES
  trendTime,
  metric,    \* {what the runtime says of the metric}, {} if it has no such metric
  readOf,    \* reader -> {the value it read and has not used yet}
  samples,   \* runtimeTrendCheck.samples
  trend,     \* the status that the last reading came to
  used,      \* all readings that were used: when, and the value
  readings   \* how many were made

trendVars == <<trendTime, metric, readOf, samples, trend, used, readings>>

TrendInit ==
  /\ trendTime = 0 /\ metric \in {{v} : v \in Values}
  /\ readOf = [r \in TrendReaders |-> {}]
  /\ samples = <<>> /\ trend = "pass" /\ used = <<>> /\ readings = 0

\* Environment: the metric moves, or is not there.
MetricMoves(m) ==
  /\ metric' = m
  /\ UNCHANGED <<trendTime, readOf, samples, trend, used, readings>>

\* The value is read before the lock is taken; without one there is no sample.
ReadMetric(r) ==
  /\ readOf[r] = {} /\ readings < MaxReadings
  /\ readings' = readings + 1
  /\ readOf' = [readOf EXCEPT ![r] = metric]
  /\ trend' = IF metric = {} THEN "down" ELSE trend
  /\ UNCHANGED <<trendTime, metric, samples, used>>

LastOf(s) == s[Len(s)]

\* addSampleLocked: a reading within the interval takes the last sample's place.
SampleAdded(v) ==
  LET sample == [at |-> trendTime, value |-> v]
  IN  IF samples # <<>> /\ Interval > 0 /\ trendTime - LastOf(samples).at < Interval
      THEN [samples EXCEPT ![Len(samples)] = sample] ELSE Append(samples, sample)

\* pruneLocked
Pruned(s) ==
  LET keep == {i \in 1..Len(s) : s[i].at >= trendTime - TrendWindow}
  IN  IF TrendWindow = 0 THEN s ELSE SubSeq(s, Min(keep), Len(s))

\* Mutant: the growth since the sample before.
Growth_LastStep(s) == IF Len(s) = 1 THEN 0 ELSE LastOf(s).value - s[Len(s) - 1].value

\* trendDataLocked
Growth(s) == LastOf(s).value - s[1].value

Elapsed(s) == LastOf(s).at - s[1].at

\* The threshold, with enough samples and time between them.
TrendOf(s) ==
  IF /\ Len(s) >= Max({2, TrendSamples}) /\ Growth(s) > 0 /\ Elapsed(s) > 0
     /\ Growth(s) >= GrowthAt * Elapsed(s)
  THEN "bad" ELSE "pass"

\* runtimeTrendCheck.current, once it has the lock.
UseReading(r) ==
  \E v \in readOf[r] :
    LET kept == Pruned(SampleAdded(v))
    IN  /\ samples' = kept /\ trend' = TrendOf(kept)
        /\ used' = Append(used, [at |-> trendTime, value |-> v])
        /\ readOf' = [readOf EXCEPT ![r] = {}]
        /\ UNCHANGED <<trendTime, metric, readings>>

TrendTick ==
  /\ trendTime < MaxTrendTime /\ trendTime' = trendTime + 1
  /\ UNCHANGED <<metric, readOf, samples, trend, used, readings>>

TrendNext ==
  \/ \E m \in {{}} \cup {{v} : v \in Values} : MetricMoves(m)
  \/ \E r \in TrendReaders : ReadMetric(r)
  \/ \E r \in TrendReaders : UseReading(r)
  \/ TrendTick

TrendSpec == TrendInit /\ [][TrendNext]_trendVars

-----------------------------------------------------------------------------

TrendTypeOK ==
  /\ trendTime \in 0..MaxTrendTime /\ metric \subseteq Values
  /\ \A r \in TrendReaders : readOf[r] \subseteq Values /\ Cardinality(readOf[r]) <= 1
  /\ \A i \in 1..Len(samples) : samples[i] \in [at : 0..trendTime, value : Values]
  /\ trend \in {"pass", "bad", "down"}

\* The readings of the window that stay as samples: the last one, and each that the
\* next one came an interval after.
Lasting ==
  {k \in 1..Len(used) :
     /\ k = Len(used) \/ Interval = 0 \/ used[k+1].at - used[k].at >= Interval
     /\ TrendWindow = 0 \/ used[k].at >= LastOf(used).at - TrendWindow}

\* The samples are the lasting readings in their order: no more than fit the window,
\* an interval apart, and only one for as long as readers come faster than the interval,
\* however long that is (runtime_state.go:171).
SamplesAreRight ==
  used # <<>> =>
    /\ Len(samples) = Cardinality(Lasting)
    /\ \A k \in Lasting : samples[Cardinality({j \in Lasting : j <= k})] = used[k]
    /\ Interval > 0 /\ TrendWindow > 0 => Len(samples) <= TrendWindow \div Interval + 1

\* A trend is told bad exactly for the growth between the first and the last reading of
\* the window that lasted, a metric that is not there for as long as nobody uses one it
\* read before: a rise and fall in between shows nothing.
TrendIsSeen ==
  used # <<>> /\ trend # "down" =>
    LET first   == used[Min(Lasting)]
        seconds == LastOf(used).at - first.at
    IN  (trend = "bad") <=>
          /\ Cardinality(Lasting) >= Max({2, TrendSamples})
          /\ LastOf(used).value - first.value >= Max({1, GrowthAt * seconds})
          /\ seconds > 0

\* Both of what a trend is told from, values of their kinds: the samples and the
\* verdict on them.
TrendIsRight == TrendTypeOK /\ SamplesAreRight /\ TrendIsSeen
=============================================================================
