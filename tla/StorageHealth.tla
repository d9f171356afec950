---------------------------- MODULE StorageHealth ----------------------------
(****************************************************************************)
(* The state "storage" of the store (storage/observability.go): its readers *)
(* get the statistics, which are kept for a second, with the errors of the  *)
(* journal and of the chart's files, and set the state by what they got;    *)
(* Prometheus is told the same statistics.                                  *)
(*                                                                          *)
(* Of the statistics only whether a backend has an error is modelled; sizes *)
(* and counts are sums over what the store holds at the moment.             *)
(****************************************************************************)
EXTENDS JournalFile

CONSTANT StatsReaders

VARIABLES
  chartsErr,  \* FileChartStore.Err
  cached,    \* {whether the statistics that are kept have an error}
  got,       \* reader -> {what it got and has not set yet}
  health,    \* the status of the state
  gauge      \* what statekit_storage_backend_error said last

healthVars == <<journalVars, chartsErr, cached, got, health, gauge>>

HealthInit ==
  /\ JournalInit
  /\ chartsErr = FALSE /\ cached = {} /\ got = [r \in StatsReaders |-> {}]
  /\ health = "pass" /\ gauge = FALSE

\* storageBackendError; the two errors are read one after the other, here at once.
BackendError == journal.lastErr \/ chartsErr

\* Mutant: only the journal is asked.
Fresh_JournalOnly == IF cached = {} THEN journal.lastErr ELSE CHOOSE e \in cached : TRUE

\* stats: what is kept, or else anew.
Fresh == IF cached = {} THEN BackendError ELSE CHOOSE e \in cached : TRUE

\* Snapshot asks first
AskStats(r) ==
  /\ got[r] = {}
  /\ got' = [got EXCEPT ![r] = {Fresh}] /\ cached' = {Fresh}
  /\ UNCHANGED <<journalVars, chartsErr, health, gauge>>

\* and sets the state afterwards.
SetHealth(r) ==
  \E error \in got[r] :
    /\ health' = IF error THEN "warn" ELSE "pass"
    /\ got' = [got EXCEPT ![r] = {}]
    /\ UNCHANGED <<journalVars, chartsErr, cached, gauge>>

\* CollectPrometheus
CollectHealth ==
  /\ gauge' = Fresh /\ cached' = {Fresh}
  /\ UNCHANGED <<journalVars, chartsErr, got, health>>

\* A second passes.
ExpireStats ==
  /\ cached # {} /\ cached' = {}
  /\ UNCHANGED <<journalVars, chartsErr, got, health, gauge>>

\* A write of the chart's files fails, or its replay does not (chart_file.go).
ChartErrs ==
  /\ chartsErr' = (broken /\ ~chartsErr) /\ chartsErr' # chartsErr
  /\ UNCHANGED <<journalVars, cached, got, health, gauge>>

\* A start makes a new state and forgets the statistics.
Forgets ==
  /\ chartsErr' = FALSE /\ cached' = {} /\ got' = [r \in StatsReaders |-> {}]
  /\ health' = "pass" /\ gauge' = FALSE

HealthNext ==
  \/ /\ JournalNext
     /\ IF boot' # boot THEN Forgets ELSE UNCHANGED <<chartsErr, cached, got, health, gauge>>
  \/ \E r \in StatsReaders : AskStats(r)
  \/ \E r \in StatsReaders : SetHealth(r)
  \/ CollectHealth
  \/ ExpireStats
  \/ ChartErrs

\* The state alone, for the theorem about it.
HealthSpec == HealthInit /\ [][HealthNext]_healthVars

\* The state and the metrics are asked for again and again, and time passes.
HealthFairness ==
  /\ \A r \in StatsReaders : WF_healthVars(AskStats(r)) /\ WF_healthVars(SetHealth(r))
  /\ WF_healthVars(CollectHealth) /\ WF_healthVars(ExpireStats)

-----------------------------------------------------------------------------

\* What the store keeps, the journal and its file have versions that were written, and
\* nothing that cannot be encoded; readers and the state have values of their kinds.
HealthTypeOK ==
  /\ JournalTypeOK
  /\ chartsErr \in BOOLEAN /\ cached \subseteq BOOLEAN /\ Cardinality(cached) <= 1
  /\ health \in {"pass", "warn"} /\ gauge \in BOOLEAN

\* A backend that keeps an error is shown, in the state and to Prometheus, whatever
\* readers set in which order and however long they keep statistics; and so it is when
\* the error is over (observability.go:121).
HealthFollows ==
  /\ <>[]BackendError => <>[](health = "warn" /\ gauge)
  /\ <>[]~BackendError => <>[](health = "pass" /\ ~gauge)
=============================================================================
