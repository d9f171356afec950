----------------------------- MODULE EpochCounters -----------------------------
(****************************************************************************)
(* EpochWeightedCounters (util/epoch_weighted_counter.go): counts of the    *)
(* current bucket of Span seconds and of the one before it.  The buckets    *)
(* are aligned to the epoch; the estimate for a window of Span seconds      *)
(* fades the bucket before out as the current one fills.                    *)
(*                                                                          *)
(* A counter is a value; its operations take it to another.  Timestamps and *)
(* counts are natural numbers: the code keeps seconds in 32 bits, which do  *)
(* not wrap before 2106, and counts in 64.                                  *)
(****************************************************************************)
EXTENDS Integers

CONSTANT Span

ASSUME SpanAssumption == Span \in Nat \ {0}

BucketStart(timestamp) == timestamp - (timestamp % Span)

NewCounters(timestamp, slots) ==
  [start |-> BucketStart(timestamp),
   curr  |-> [i \in slots |-> 0],
   prev  |-> [i \in slots |-> 0]]

Zeros(c) == [i \in DOMAIN c.curr |-> 0]

\* rotate answers FALSE: the bucket of timestamp is gone.
IsOld(c, timestamp) == BucketStart(timestamp) < c.start

\* Mutant: what was current is taken for the bucket before, however long ago.
Rotated_Skipping(c, timestamp) ==
  LET start == BucketStart(timestamp)
  IN  IF start <= c.start THEN c
      ELSE [start |-> start, curr |-> Zeros(c), prev |-> c.curr]

\* rotate: the counter once the bucket of timestamp is its current one.
Rotated(c, timestamp) ==
  LET start == BucketStart(timestamp)
  IN  IF start <= c.start THEN c
      ELSE [start |-> start, curr |-> Zeros(c),
            prev |-> IF start = c.start + Span THEN c.curr ELSE Zeros(c)]

Added(c, timestamp, values) ==
  LET rotated == Rotated(c, timestamp)
  IN  IF IsOld(c, timestamp) THEN c
      ELSE [rotated EXCEPT !.curr = [i \in DOMAIN rotated.curr |-> rotated.curr[i] + values[i]]]

\* What is left of a count of the bucket before, at a time in this one.
Faded(count, timestamp) ==
  (count * (Span - (timestamp - BucketStart(timestamp)))) \div Span

\* CurrentWindowValue
WindowValue(c, timestamp) ==
  LET rotated == Rotated(c, timestamp)
  IN  IF IsOld(c, timestamp) THEN Zeros(c)
      ELSE [i \in DOMAIN rotated.curr |-> rotated.curr[i] + Faded(rotated.prev[i], timestamp)]
=============================================================================
