------------------------------ MODULE FailRatio ------------------------------
(****************************************************************************)
(* FailRatio (state_failratio.go): outcomes counted in epoch weighted       *)
(* buckets, or for ever without a window, and judged by a policy.  Every    *)
(* call reads the clock and does its work under the lock: calls are atomic. *)
(*                                                                          *)
(* Seconds are those of the wall clock, which may step back.  Thresholds    *)
(* are per cent.                                                            *)
(****************************************************************************)
EXTENDS EpochCounters, FiniteSets, Sequences, FiniteSetsExt

CONSTANTS
  RatioTimes,     \* the readings of the clock
  MinSamples,     \* of both policies
  WarnShare, FailShare, DownShare,  \* RatioPolicy, per cent; zero is ignored
  MaxRatioCalls   \* bound on calls

\* A policy asks for one sample at least (state_failratio.go:190,213).
ASSUME RatioAssumption ==
  /\ RatioTimes \subseteq Nat /\ MinSamples \in Nat \ {0}
  /\ WarnShare \in Nat /\ FailShare \in Nat /\ DownShare \in Nat

VARIABLES
  window,      \* Span seconds, or 0: for ever
  policy,      \* "ratio" or "all failed"
  ratioCounters,
  cumulative,  \* the counts without a window
  ratioState,  \* the tracker: status and the counts in its data
  told         \* all calls: when, and the outcome if any

ratioVars == <<window, policy, ratioCounters, cumulative, ratioState, told>>

Width == {"total", "failures"}

Nothing == [i \in Width |-> 0]

RatioInit ==
  /\ window \in {0, Span} /\ policy \in {"ratio", "all failed"}
  /\ \E t \in RatioTimes :
       /\ ratioCounters = NewCounters(t, Width)
       /\ told = <<[at |-> t, outcome |-> "none"]>>
  /\ cumulative = Nothing
  /\ ratioState = [status |-> "pass", counts |-> Nothing]

\* AllFailedPolicy.Evaluate
AllFailed(counts) ==
  IF counts["total"] >= MinSamples /\ counts["failures"] = counts["total"] THEN "fail" ELSE "pass"

Reaches(counts, percent) ==
  percent > 0 /\ 100 * counts["failures"] >= percent * counts["total"]

\* RatioPolicy.Evaluate: too few samples pass; the worst threshold reached counts.
ByRatio(counts) ==
  CASE counts["total"] < MinSamples -> "pass"
    [] counts["total"] >= MinSamples /\ Reaches(counts, DownShare) -> "down"
    [] counts["total"] >= MinSamples /\ Reaches(counts, FailShare) /\ ~Reaches(counts, DownShare) -> "fail"
    [] counts["total"] >= MinSamples /\ Reaches(counts, WarnShare)
         /\ ~Reaches(counts, FailShare) /\ ~Reaches(counts, DownShare) -> "warn"
    [] OTHER -> "pass"

Evaluate(counts) == IF policy = "all failed" THEN AllFailed(counts) ELSE ByRatio(counts)

\* Mutant: the bucket before is not faded.
RatioCounts_Whole(c, sum, t) ==
  IF window = 0 THEN sum
  ELSE IF IsOld(c, t) THEN Nothing
  ELSE [i \in Width |-> Rotated(c, t).curr[i] + Rotated(c, t).prev[i]]

\* ratioCountsLocked; failures never exceed the total, so the code's bounds do nothing.
RatioCounts(c, sum, t) == IF window = 0 THEN sum ELSE WindowValue(c, t)

\* updateLocked, with the counters as the call left them.
Judged(c, sum, t) ==
  LET counts == RatioCounts(c, sum, t) IN [status |-> Evaluate(counts), counts |-> counts]

Tell(t, outcome) ==
  /\ Len(told) <= MaxRatioCalls
  /\ told' = Append(told, [at |-> t, outcome |-> outcome])
  /\ UNCHANGED <<window, policy>>

\* record
Record(t, outcome) ==
  LET values == [i \in Width |-> IF i = "total" \/ outcome = "failed" THEN 1 ELSE 0]
  IN  /\ Tell(t, outcome)
      /\ IF window = 0
         THEN /\ cumulative' = [i \in Width |-> cumulative[i] + values[i]]
              /\ UNCHANGED ratioCounters
         ELSE /\ ratioCounters' = Added(ratioCounters, t, values)
              /\ UNCHANGED cumulative
      /\ ratioState' = Judged(ratioCounters', cumulative', t)

\* Snapshot; reading the window turns the buckets.
RatioSnapshot(t) ==
  /\ Tell(t, "none")
  /\ ratioCounters' = IF window = 0 THEN ratioCounters ELSE Rotated(ratioCounters, t)
  /\ ratioState' = Judged(ratioCounters, cumulative, t)
  /\ UNCHANGED cumulative

RatioNext ==
  \E t \in RatioTimes :
    \/ \E outcome \in {"passed", "failed"} : Record(t, outcome)
    \/ RatioSnapshot(t)

RatioSpec == RatioInit /\ [][RatioNext]_ratioVars

-----------------------------------------------------------------------------

RatioTypeOK ==
  /\ window \in {0, Span} /\ policy \in {"ratio", "all failed"}
  /\ ratioState \in [status : {"pass", "warn", "fail", "down"}, counts : [Width -> Nat]]

\* The newest bucket that the first n calls fell into: time does not turn back.
NewestBucket(n) == Max({BucketStart(told[k].at) : k \in 1..n})

\* The outcomes told in a bucket while it was the newest.
OutcomesIn(bucket) ==
  {k \in 1..Len(told) : told[k].outcome # "none"
     /\ BucketStart(told[k].at) = bucket /\ NewestBucket(k) = bucket}

CountOf(outcomes) ==
  [i \in Width |-> Cardinality({k \in outcomes : i = "total" \/ told[k].outcome = "failed"})]

\* What the last call could know: without a window every outcome; with one those of
\* its bucket and the share of those of the bucket before that still lies in the
\* window (epoch_weighted_counter.go:141); nothing while the clock is behind.
Known ==
  LET last   == told[Len(told)].at
      bucket == BucketStart(last)
      this   == CountOf(OutcomesIn(bucket))
      before == CountOf(OutcomesIn(bucket - Span))
  IN  IF window = 0 THEN CountOf({k \in 1..Len(told) : told[k].outcome # "none"})
      ELSE IF bucket < NewestBucket(Len(told)) THEN Nothing
      ELSE [i \in Width |-> this[i] + (before[i] * (Span - (last - bucket))) \div Span]

\* The counts in the state's data are exactly those outcomes, whatever calls turned
\* the buckets, and however far (state_failratio.go:168).
RatioIsExact == ratioState.counts = Known

\* A bad state has its reason: enough samples, among them failures of less than two
\* windows ago, all failed for one policy, the worst threshold reached for the other.
BadForAReason ==
  ratioState.status # "pass" =>
    LET counts == Known
        share  == 100 * counts["failures"]
    IN  /\ counts["total"] >= MinSamples /\ counts["failures"] > 0
        /\ window # 0 => \E k \in 1..Len(told) :
             told[k].outcome = "failed" /\ told[Len(told)].at - told[k].at < 2 * Span
        /\ policy = "all failed" => ratioState.status = "fail" /\ counts["failures"] = counts["total"]
        /\ policy = "ratio" =>
             /\ ratioState.status = "down" => share >= DownShare * counts["total"]
             /\ ratioState.status = "warn" /\ FailShare > 0 => share < FailShare * counts["total"]

\* Both of what a fail ratio tells, values of their kinds: the counts and the status.
RatioIsRight == RatioTypeOK /\ RatioIsExact /\ BadForAReason
=============================================================================
