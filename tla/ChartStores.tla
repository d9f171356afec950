------------------------------- MODULE ChartStores -------------------------------
(****************************************************************************)
(* The charting store: which states were not passing in which minute.       *)
(* MemoryChartStore is a ring of buckets (storage/chart.go); FileChartStore *)
(* writes every change of a bucket to a file of the bucket's day and, when  *)
(* it is opened, replays the files (storage/chart_file.go).                 *)
(*                                                                          *)
(* A bucket is a number here, its length the unit of time.  A call of       *)
(* Record comes from the ingest of a document, after the store's lock is    *)
(* released; it changes the memory under one lock and the files under       *)
(* another.  One document is ingested by one call at a time.                *)
(****************************************************************************)
EXTENDS Integers, Sequences, SequencesExt, FiniteSets, FiniteSetsExt, Functions, Folds

CONSTANTS
  Reports,      \* document -> what may be triggering in it: identity -> status
  Target,       \* identity -> the target it belongs to
  Window,       \* how many buckets
  PerDay,       \* buckets of a day
  Fineness,     \* how much finer than buckets the times of a timeline are
  Lags,         \* how much older, or newer, a document may be than the time it comes
  MaxTime, MaxRecords, MaxWriteFaults, MaxCrashes  \* bounds of the model

Warning == 1
Failing == 2

Statuses == {Warning, Failing}

Docs == DOMAIN Reports

\* The states of a document.
IdentitiesOf(d) == UNION {DOMAIN states : states \in Reports[d]}

Identities == UNION {IdentitiesOf(d) : d \in Docs}

ASSUME ChartAssumption ==
  /\ {Window, PerDay, Fineness} \subseteq Nat \ {0}
  /\ \A d, e \in Docs : d # e => IdentitiesOf(d) \cap IdentitiesOf(e) = {}
  /\ \A d \in Docs : \A states \in Reports[d] : states \in [DOMAIN states -> Statuses]
  /\ Identities \subseteq DOMAIN Target
  /\ Lags \subseteq Int
  /\ {MaxTime, MaxRecords, MaxWriteFaults, MaxCrashes} \subseteq Nat /\ MaxTime > Window

VARIABLES
  now,         \* the bucket of the present
  recording,   \* document -> {the call of Record under way}
  slots,       \* MemoryChartStore.buckets: [t, states]
  segments,    \* day -> the lines of its file
  torn,        \* the days whose file ends without a newline
  open,        \* {the day of the open segment}
  lastWritten, \* lastBucket and lastDigest: {the record written last}
  chartErr,    \* lastErr: whether a write has failed
  records,     \* how many calls there were
  writeFaults, \* how many writes failed
  crashes,     \* how often the process ended
  observed,    \* history: bucket -> identity -> status, of the calls that came in time
  unsaved,     \* history: the slots with records that did not get into a file
  leftTorn,    \* history: the days whose file did when the process started
  spoilt       \* history: the slots that records came to too late or too early, or that
               \* lost records in a crash

vars == <<now, recording, slots, segments, torn, open, lastWritten, chartErr, records, writeFaults, crashes,
               observed, unsaved, leftTorn, spoilt>>

-----------------------------------------------------------------------------

\* The zero time of an unused slot.
NoTime == 0

Slot(t) == t % Window

Day(t) == t \div PerDay

Unused == [t |-> NoTime, states |-> <<>>]

\* Every state that is triggering is put in over what is there.
Merged(kept, states) ==
  [i \in DOMAIN states \cup DOMAIN kept |-> IF i \in DOMAIN states THEN states[i] ELSE kept[i]]

\* MemoryChartStore.Record: another bucket's slot is cleared.
Recorded(ring, t, states) ==
  [ring EXCEPT ![Slot(t)] = [t |-> t, states |-> Merged(IF @.t = t THEN @.states ELSE <<>>, states)]]

\* scopeMatcher
InScope(scope) == {i \in Identities : scope = "fleet" \/ Target[i] = scope}

\* MemoryChartStore.Bucket: what triggered in the bucket of t.
Bucket(ring, scope, t) ==
  IF ring[Slot(t)].t # t THEN <<>>
  ELSE Restrict(ring[Slot(t)].states, DOMAIN ring[Slot(t)].states \cap InScope(scope))

\* Which of the display buckets a bucket belongs to.
DisplayBucket(t, from, step, buckets) == Min({(t - from) \div step, buckets - 1})

\* MemoryChartStore.Range, with times that are finer than buckets: of each
\* identity the worst status in each display bucket.  A step is at least one.
Timeline(ring, scope, from, to, buckets) ==
  LET step == Max({(to - from) \div buckets, 1})
      in == {n \in DOMAIN ring : ring[n].t # NoTime /\ from <= ring[n].t * Fineness /\ ring[n].t * Fineness < to}
      of(b) == {n \in in : DisplayBucket(ring[n].t * Fineness, from, step, buckets) = b}
      ids(b) == (UNION {DOMAIN ring[n].states : n \in of(b)}) \cap InScope(scope)
  IN  [b \in 0..(buckets - 1) |->
        [i \in ids(b) |-> Max({ring[n].states[i] : n \in {n \in of(b) : i \in DOMAIN ring[n].states}})]]

-----------------------------------------------------------------------------
(* Files.                                                                   *)

\* A line that cannot be decoded.
Garbage == [t |-> NoTime, states |-> <<>>]

\* sweepSegments: days that are over before the cutoff go.
Swept(files, cutoff) == RestrictDomain(files, LAMBDA day : (day + 1) * PerDay >= cutoff)

\* replaySegment: where the lines are that can be decoded and are newer than the
\* cutoff, in the segments that the sweep leaves.
Replayable(files) ==
  {at \in UNION {{day} \X DOMAIN files[day] : day \in DOMAIN Swept(files, now - Window)} :
     LET line == files[at[1]][at[2]] IN line # Garbage /\ line.t > now - Window}

\* The last of some lines: the segments are in the order of their days.
Latest(lines) == CHOOSE at \in lines : \A before \in lines :
  before[1] < at[1] \/ (before[1] = at[1] /\ before[2] <= at[2])

\* replay
Replayed(files) ==
  MapThenFoldSet(LAMBDA line, ring : Recorded(ring, line.t, line.states),
                 [n \in 0..(Window - 1) |-> Unused],
                 LAMBDA at : files[at[1]][at[2]], Latest, Replayable(files))

-----------------------------------------------------------------------------

Init ==
  /\ now = Window + 1
  /\ recording = [d \in Docs |-> {}]
  /\ slots = [n \in 0..(Window - 1) |-> Unused]
  /\ segments = <<>> /\ torn = {} /\ open = {} /\ lastWritten = {} /\ chartErr = FALSE
  /\ records = 0 /\ writeFaults = 0 /\ crashes = 0
  /\ observed = <<>> /\ unsaved = {} /\ leftTorn = {} /\ spoilt = {}

\* No call is delayed for as long as it takes to go round the ring.
Tick ==
  /\ now < MaxTime /\ now' = now + 1
  /\ \A d \in Docs : \A call \in recording[d] : call.came > now + 1 - Window
  /\ UNCHANGED <<recording, slots, segments, torn, open, lastWritten, chartErr, records, writeFaults, crashes,
                 observed, unsaved, leftTorn, spoilt>>

\* IngestDocument has let go of its lock; triggeringStates: what does not pass.
Ingested(d) ==
  /\ records < MaxRecords /\ records' = records + 1
  /\ recording[d] = {}
  /\ \E lag \in Lags, states \in Reports[d] :
       recording' = [recording EXCEPT ![d] =
         {[t |-> now - lag, states |-> states, came |-> now, inMemory |-> FALSE]}]
  /\ UNCHANGED <<now, slots, segments, torn, open, lastWritten, chartErr, writeFaults, crashes, observed, unsaved, leftTorn, spoilt>>

\* A call that is through with the memory.
Remembered(call) == [t |-> call.t, states |-> call.states, came |-> call.came, inMemory |-> TRUE]

\* The first half of a Record; one without trouble is over.
RecordMemory(d) ==
  \E call \in recording[d] :
    /\ ~ call.inMemory
    /\ slots' = Recorded(slots, call.t, call.states)
    /\ recording' = [recording EXCEPT ![d] = IF call.states = <<>> THEN {} ELSE {Remembered(call)}]
    /\ IF call.t \in (now - Window + 1)..now
       THEN /\ observed' = [t \in DOMAIN observed \cup {call.t} |->
                 IF t # call.t THEN observed[t]
                 ELSE Merged(IF t \in DOMAIN observed THEN observed[t] ELSE <<>>, call.states)]
            /\ UNCHANGED spoilt
       ELSE spoilt' = spoilt \cup {Slot(call.t)} /\ UNCHANGED observed
    /\ UNCHANGED <<now, segments, torn, open, lastWritten, chartErr, records, writeFaults, crashes, unsaved, leftTorn>>

\* What is written of a call last.
Digest(call) == [t |-> call.t, states |-> call.states]

\* The segments once that of the call's day is open: another day's is closed and
\* what is too old goes.
WithSegment(call) ==
  LET swept == IF open = {Day(call.t)} THEN segments ELSE Swept(segments, now - Window)
  IN  [day \in DOMAIN swept \cup {Day(call.t)} |-> IF day \in DOMAIN swept THEN swept[day] ELSE <<>>]

\* What a write that fails leaves: the segment of the day could not be opened, or
\* the line not be written, or some of it was.
FailedWrite(call) ==
  /\ \/ open # {Day(call.t)} /\ open' = {} /\ segments' = Swept(segments, now - Window)
        /\ torn' = torn \cap DOMAIN segments'
     \/ open' = {Day(call.t)} /\ segments' = WithSegment(call)
        /\ torn' \in {torn \cap DOMAIN segments', (torn \cap DOMAIN segments') \cup {Day(call.t)}}
  /\ unsaved' = unsaved \cup {Slot(call.t)}

\* Mutant: a record that could not be written is taken for written.
RecordFails_Kept(d) ==
  \E call \in recording[d] :
    /\ call.inMemory /\ lastWritten # {Digest(call)}
    /\ writeFaults < MaxWriteFaults /\ writeFaults' = writeFaults + 1
    /\ FailedWrite(call)
    /\ lastWritten' = {Digest(call)}
    /\ recording' = [recording EXCEPT ![d] = {}]
    /\ UNCHANGED <<now, slots, chartErr, records, crashes, observed, leftTorn, spoilt>>

\* The second half, when the write fails.
RecordFails(d) ==
  \E call \in recording[d] :
    /\ call.inMemory /\ lastWritten # {Digest(call)}
    /\ writeFaults < MaxWriteFaults /\ writeFaults' = writeFaults + 1
    /\ FailedWrite(call)
    /\ chartErr' = TRUE
    /\ recording' = [recording EXCEPT ![d] = {}]
    /\ UNCHANGED <<now, slots, lastWritten, records, crashes, observed, leftTorn, spoilt>>

\* Mutant: an unchanged bucket is recognised by its states alone.
RecordFile_SameStates(d) ==
  \E call \in recording[d] :
    /\ call.inMemory
    /\ recording' = [recording EXCEPT ![d] = {}]
    /\ IF \E written \in lastWritten : written.states = call.states
       THEN UNCHANGED <<segments, torn, open, lastWritten, unsaved>>
       ELSE /\ open' = {Day(call.t)} /\ lastWritten' = {Digest(call)}
            /\ segments' = [WithSegment(call) EXCEPT ![Day(call.t)] =
                 Append(@, IF Day(call.t) \in torn THEN Garbage ELSE Digest(call))]
            /\ torn' = (torn \cap DOMAIN segments') \ {Day(call.t)}
            /\ unsaved' = IF Day(call.t) \in torn THEN unsaved \cup {Slot(call.t)} ELSE unsaved
    /\ UNCHANGED <<now, slots, chartErr, records, writeFaults, crashes, observed, leftTorn, spoilt>>

\* The second half: what was written last is not written again; what follows a
\* line that was cut becomes part of it.
RecordFile(d) ==
  \E call \in recording[d] :
    /\ call.inMemory
    /\ recording' = [recording EXCEPT ![d] = {}]
    /\ IF lastWritten = {Digest(call)} THEN UNCHANGED <<segments, torn, open, lastWritten, unsaved>>
       ELSE /\ open' = {Day(call.t)} /\ lastWritten' = {Digest(call)}
            /\ segments' = [WithSegment(call) EXCEPT ![Day(call.t)] =
                 Append(@, IF Day(call.t) \in torn THEN Garbage ELSE Digest(call))]
            /\ torn' = (torn \cap DOMAIN segments') \ {Day(call.t)}
            /\ unsaved' = IF Day(call.t) \in torn THEN unsaved \cup {Slot(call.t)} ELSE unsaved
    /\ UNCHANGED <<now, slots, chartErr, records, writeFaults, crashes, observed, leftTorn, spoilt>>

\* Close; a record that comes later opens its segment again.
CloseFile ==
  /\ open # {} /\ open' = {}
  /\ UNCHANGED <<now, recording, slots, segments, torn, lastWritten, chartErr, records, writeFaults, crashes,
                 observed, unsaved, leftTorn, spoilt>>

\* The process stops, with what it had under way, and NewFileChartStore opens the
\* directory again.
Crash ==
  /\ crashes < MaxCrashes /\ crashes' = crashes + 1
  /\ \E cut \in {{}} \cup {{Day(call.t)} : call \in {call \in UNION Range(recording) : call.inMemory}} :
       torn' = (torn \cup cut) \cap DOMAIN Swept(segments, now - Window)
  /\ segments' = Swept(segments, now - Window)
  /\ slots' = Replayed(segments)
  /\ recording' = [d \in Docs |-> {}]
  /\ open' = {} /\ lastWritten' = {} /\ chartErr' = FALSE
  /\ spoilt' = spoilt \cup unsaved \cup
       {Slot(call.t) : call \in {call \in UNION Range(recording) : call.inMemory}}
  /\ unsaved' = {} /\ leftTorn' = torn'
  /\ UNCHANGED <<now, records, writeFaults, observed>>

Next ==
  \/ Tick \/ CloseFile \/ Crash
  \/ \E d \in Docs : Ingested(d) \/ RecordMemory(d) \/ RecordFails(d) \/ RecordFile(d)

Spec == Init /\ [][Next]_vars

-----------------------------------------------------------------------------
(* Properties.                                                              *)

\* Every variable holds a value of its kind; a slot holds a bucket that belongs
\* there; a segment holds lines of its day, all of them about something.
TypeOK ==
  /\ now \in Window + 1..MaxTime /\ records \in 0..MaxRecords /\ writeFaults \in 0..MaxWriteFaults /\ crashes \in 0..MaxCrashes
  /\ \A n \in DOMAIN slots : slots[n] = Unused \/ Slot(slots[n].t) = n
  /\ \A n \in DOMAIN slots : \A i \in DOMAIN slots[n].states : slots[n].states[i] \in Statuses
  /\ \A d \in Docs : Cardinality(recording[d]) <= 1
  /\ \A day \in DOMAIN segments : \A line \in Range(segments[day]) :
       line = Garbage \/ (Day(line.t) = day /\ line.states # <<>>)
  /\ torn \cup open \subseteq DOMAIN segments
  /\ chartErr \in BOOLEAN
  /\ unsaved \cup spoilt \subseteq DOMAIN slots

\* The chart is right, and is right again after every restart: it shows of each
\* bucket of the window all that was triggering in it, and of older ones that or
\* nothing.  Only the slots are excepted that a record came to from outside of the
\* window, and those with a record that did not get into a file before the process
\* ended; what went wrong with them goes no further.
ChartIsRight ==
  \A t \in (now - Window - 1)..MaxTime : Slot(t) \notin spoilt =>
    LET happened == IF t \in DOMAIN observed THEN observed[t] ELSE <<>>
        shown == Bucket(slots, "fleet", t)
    IN  shown = happened \/ (t \notin (now - Window + 1)..now /\ shown = <<>>)

\* Whatever a timeline asks for, each state counts once in each of the display
\* buckets during which it was triggering, with the worst it was, and no bucket of
\* the ring is left out between two of them.
TimelineIsRight == (\A d \in Docs : recording[d] = {}) =>
  \A length \in 1..(Fineness * Window), buckets \in {2, 3}, scope \in {"fleet"} \cup Range(Target) :
    LET to == Fineness * now + 1
        from == to - length
        step == Max({length \div buckets, 1})
        shown == Timeline(slots, scope, from, to, buckets)
    IN  \A b \in 0..(buckets - 1) :
          LET during == {t \in 1..now : from + b * step <= t * Fineness
                           /\ t * Fineness < IF b = buckets - 1 THEN to ELSE from + (b + 1) * step}
              happened == [t \in during |-> Bucket(slots, scope, t)]
              had(i) == {happened[t][i] : t \in {t \in during : i \in DOMAIN happened[t]}}
          IN  /\ DOMAIN shown[b] = {i \in Identities : had(i) # {}}
              /\ \A i \in DOMAIN shown[b] : shown[b][i] = Max(had(i))

\* Whoever asks for errors is told when something that the chart shows would not
\* survive a restart, and is told until there is one (chart_file.go:70-72).  Only
\* what follows a line that an earlier process left cut is lost without a word: one
\* record for each such line.
UnsavedIsTold == chartErr \/ Cardinality(unsaved) <= Cardinality(leftTorn)

\* What is shown, of a bucket and of a timeline.
ChartsAreRight == TypeOK /\ ChartIsRight /\ TimelineIsRight
=============================================================================
