------------------------------- MODULE SeriesStore -------------------------------
(****************************************************************************)
(* What the metrics store promises: for every key, metric and set of labels *)
(* it keeps what was measured when, for as long as Retention says, and of   *)
(* each metric of a key no more than Cap series, those with the largest     *)
(* values.  There are no ids here, no dictionary and no columns.            *)
(*                                                                          *)
(* MetricsStore implements this.                                            *)
(****************************************************************************)
EXTENDS Integers, Sequences, FiniteSets, FiniteSetsExt, Functions

CONSTANTS
  Cap,        \* series of one metric and key
  Retention,  \* seconds
  Times,      \* bound of the model: the seconds there are
  NaN         \* stands for every value that is not a number, or infinite

VARIABLES
  pending,    \* calls under way: sets of [key, samples, descs, at]
  points,     \* {<<series, second, value>>}; a series is <<key, name, labels>>
  described   \* metric -> its description

vars == <<pending, points, described>>

Init == pending = {} /\ points = {} /\ described = <<>>

\* Samples of one metric in a call, by their positions.
Of(call, name) == {i \in DOMAIN call.samples : call.samples[i].name = name /\ call.samples[i].value # NaN}

Names(call) == {name \in {call.samples[i].name : i \in DOMAIN call.samples} : Of(call, name) # {}}

\* Some of the largest: no other has a larger value than one of them.
Largest(all, some, value) ==
  /\ some \subseteq all
  /\ Cardinality(some) = Min({Cap, Cardinality(all)})
  /\ \A i \in some, j \in all \ some : value[i] >= value[j]

\* The path of scraping is the key already.
LabelsOf(sample) == Restrict(sample.labels, DOMAIN sample.labels \ {"scrape_path"})

\* A point is added unless the series has a later one, and takes the place of one of the
\* same second; of two samples that say different things about one series at one time
\* the smaller counts.
Measured(call, some, all) ==
  LET seriesOf(i) == <<call.key, call.samples[i].name, LabelsOf(call.samples[i])>>
      late == {x[1] : x \in {x \in all : x[2] > call.at}}
      measured == {seriesOf(i) : i \in some} \ late
      value(s) == Min({call.samples[i].value : i \in {i \in some : seriesOf(i) = s}})
  IN  {x \in all : x[1] \notin measured \/ x[2] # call.at} \cup {<<s, call.at, value(s)>> : s \in measured}

\* What is left when everything before the second cutoff is gone.
Recent(all, cutoff) == {x \in all : x[2] >= cutoff}

\* Metrics that are kept have a description, if only an empty one.
Live(all) == {x[1][2] : x \in all}

\* The first description that a call gives of a metric counts.  What is known of
\* one that had no series before and is not described now is what it was once
\* described as, or nothing.
MayDescribe(call, old, new) ==
  \A name \in DOMAIN new :
    LET given == {i \in DOMAIN call.descs : name \in call.descs[i].covers}
    IN  IF given # {} /\ name \in Names(call) THEN new[name] = call.descs[Min(given)].text
        ELSE name \in DOMAIN old => new[name] = old[name]

Request == pending # pending' /\ pending \subseteq pending' /\ UNCHANGED <<points, described>>

\* Which of the series of the call's metrics stay, where more than Cap had to be kept.
Kept(call, all) ==
  LET series == {x[1] : x \in all}
      group(name) == {s \in series : s[1] = call.key /\ s[2] = name}
      newest(s) == CHOOSE x \in all : x[1] = s /\ \A y \in all : y[1] = s => y[2] <= x[2]
      others == {s \in series : s[1] # call.key \/ s[2] \notin Names(call)}
      stay == {stays \in SUBSET UNION {group(name) : name \in Names(call)} :
                 \A name \in Names(call) :
                   Largest(group(name), stays \cap group(name), [s \in group(name) |-> newest(s)[3]])}
  IN  {{x \in all : x[1] \in stays \cup others} : stays \in stay}

\* The samples that count: of each metric some of the largest.
Chosen(call) ==
  {some \in SUBSET UNION {Of(call, name) : name \in Names(call)} : \A name \in Names(call) :
     Largest(Of(call, name), some \cap Of(call, name), [i \in Of(call, name) |-> call.samples[i].value])}

Ingest(call) ==
  /\ pending' = pending \ {call}
  /\ IF Names(call) = {} THEN UNCHANGED <<points, described>>
     ELSE /\ points' \in UNION {{Recent(kept, call.at - Retention) : kept \in Kept(call, Measured(call, some, points))} :
                                  some \in Chosen(call)}
          /\ DOMAIN described' = Live(points')
          /\ MayDescribe(call, described, described')

\* A read first forgets what is too old for it.
Query(now) ==
  /\ points' = Recent(points, now - Retention)
  /\ described' = Restrict(described, Live(points'))
  /\ UNCHANGED pending

Next ==
  \/ Request
  \/ \E call \in pending : Ingest(call)
  \/ \E now \in Times : Query(now)

Spec == Init /\ [][Next]_vars

=============================================================================
