---------------------------- MODULE HeapProfiles ----------------------------
(****************************************************************************)
(* The heap profiles that a memory state writes when it gets worse          *)
(* (collectors/memory_state.go).  A reader of the state measures the memory *)
(* in use and judges it before it takes the lock of the last status: two    *)
(* readers may be judged in the other order.                                *)
(****************************************************************************)
EXTENDS Integers, FiniteSets

CONSTANTS
  ProfileReaders,
  WorstMemory,   \* statuses of memory are the ranks 0 (pass) to WorstMemory
  MaxMeasured    \* bound on readings, and on how often memory gets worse

ASSUME ProfilesAssumption == WorstMemory \in Nat /\ MaxMeasured \in Nat

VARIABLES
  memory,      \* the status that the memory in use has by its thresholds
  available,   \* whether the use of memory is known
  measured,    \* reader -> {what it measured and has not judged yet, and the how manyth}
  lastStatus,  \* lastStatus of newMemoryUsageCheck
  profiles,    \* how many were tried, and how many of them failed
  judged,      \* how many were measured, the last one judged, those overtaken
  rises        \* how often memory got worse

profileVars == <<memory, available, measured, lastStatus, profiles, judged, rises>>

ProfilesInit ==
  /\ memory = 0 /\ available \in BOOLEAN /\ measured = [r \in ProfileReaders |-> {}] /\ lastStatus = 0
  /\ profiles = [tried |-> 0, failed |-> 0]
  /\ judged = [count |-> 0, latest |-> 0, overtaken |-> 0]
  /\ rises = 0

\* Environment: the program uses more memory or less.
MemoryMoves(status) ==
  /\ status # memory /\ memory' = status
  /\ rises' = IF status > memory THEN rises + 1 ELSE rises
  /\ rises' <= MaxMeasured
  /\ UNCHANGED <<available, measured, lastStatus, profiles, judged>>

\* Environment: the platform stops to tell it, or tells it again.
AvailabilityMoves ==
  /\ available' = ~available
  /\ UNCHANGED <<memory, measured, lastStatus, profiles, judged, rises>>

\* metrics.Snapshot and uintThresholdStatus; usage that is unavailable ends the call.
MeasureMemory(r) ==
  /\ measured[r] = {} /\ judged.count < MaxMeasured
  /\ judged' = [judged EXCEPT !.count = judged.count + 1]
  /\ measured' = [measured EXCEPT ![r] =
       IF available THEN {[status |-> memory, nth |-> judged'.count]} ELSE {}]
  /\ UNCHANGED <<memory, available, lastStatus, profiles, rises>>

\* Mutant: a status that is no better than the last is worth a profile.
IsWorse_OrSame(status) == status > 0 /\ status >= lastStatus

IsWorse(status) == status > 0 /\ status > lastStatus

\* maybeWriteHeapProfile: the status counts as judged before the profile is written, so
\* one that failed is not tried again.
WriteProfile(r, fails) ==
  \E m \in measured[r] :
    /\ lastStatus' = m.status
    /\ profiles' = IF IsWorse(m.status)
                   THEN [tried |-> profiles.tried + 1,
                         failed |-> profiles.failed + (IF fails THEN 1 ELSE 0)]
                   ELSE profiles
    /\ judged' = IF m.nth < judged.latest THEN [judged EXCEPT !.overtaken = judged.overtaken + 1]
               ELSE [judged EXCEPT !.latest = m.nth]
    /\ measured' = [measured EXCEPT ![r] = {}]
    /\ UNCHANGED <<memory, available, rises>>

ProfilesNext ==
  \/ \E status \in 0..WorstMemory : MemoryMoves(status)
  \/ AvailabilityMoves
  \/ \E r \in ProfileReaders : MeasureMemory(r)
  \/ \E r \in ProfileReaders, fails \in BOOLEAN : WriteProfile(r, fails)

ProfilesSpec == ProfilesInit /\ [][ProfilesNext]_profileVars

-----------------------------------------------------------------------------

ProfilesTypeOK ==
  /\ memory \in 0..WorstMemory /\ available \in BOOLEAN /\ lastStatus \in 0..WorstMemory
  /\ \A r \in ProfileReaders : Cardinality(measured[r]) <= 1
  /\ profiles.failed \in 0..profiles.tried

\* Profiles are written for rises: one at most for each time that memory got worse, and
\* one more for each reading that another overtook between its measurement and the lock,
\* written or not (memory_state.go:170).  And every variable holds a value of its kind.
ProfilesPerRise == ProfilesTypeOK /\ profiles.tried <= rises + judged.overtaken
=============================================================================
