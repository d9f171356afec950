------------------------------- MODULE FailMap -------------------------------
(****************************************************************************)
(* FailMap (state_fail_map.go): a state that fails while any named item     *)
(* does, and tells since when each of them has.  Every call holds the lock  *)
(* from its reading of the clock to its end, so calls are atomic.           *)
(*                                                                          *)
(* Help, name and the data of an item are left out; its reason stands for   *)
(* what every report of a failure refreshes.  Time is Go's monotonic clock. *)
(****************************************************************************)
EXTENDS Integers, FiniteSets, Sequences, FiniteSetsExt

CONSTANTS
  Items,        \* the names that callers pass and fail
  Reasons,
  MaxMapTime,   \* bound on time
  MaxMapCalls   \* bound on calls

ASSUME MapAssumption == {MaxMapTime, MaxMapCalls} \subseteq Nat

VARIABLES
  mapTime,
  failures,  \* failing item -> since when and why
  mapState,  \* the tracker: status, since when, when it was set and its data
  reports    \* all calls that passed or failed an item

mapVars == <<mapTime, failures, mapState, reports>>

\* newStateTracker: it passes, and no set was a change yet.
MapInit ==
  /\ mapTime = 0 /\ failures = <<>> /\ reports = <<>>
  /\ mapState = [status |-> "pass", changedAt |-> 0, updatedAt |-> 0, secs |-> <<>>, isSet |-> FALSE]

MapStatus(f) == IF DOMAIN f = {} THEN "pass" ELSE "fail"

\* dataLocked: how long every item has been failing.
SecsInFailure(f) == [i \in DOMAIN f |-> mapTime - f[i].since]

\* updateLocked and the tracker's set: the first set is a change whatever it sets.
Updated(f) ==
  LET changed == ~mapState.isSet \/ mapState.status # MapStatus(f)
  IN  [status |-> MapStatus(f), updatedAt |-> mapTime, secs |-> SecsInFailure(f), isSet |-> TRUE,
       changedAt |-> IF changed THEN mapTime ELSE mapState.changedAt]

\* Mutant: every report of a failure is taken for the first.
Refreshed_Anew(i, why) ==
  [j \in DOMAIN failures \cup {i} |->
     IF j = i THEN [since |-> mapTime, why |-> why] ELSE failures[j]]

\* An item that fails already keeps the time it began to, and has a new reason.
Refreshed(i, why) ==
  [j \in DOMAIN failures \cup {i} |->
     IF j # i THEN failures[j]
     ELSE [since |-> IF i \in DOMAIN failures THEN failures[i].since ELSE mapTime, why |-> why]]

Report(i, ok, why) ==
  /\ Len(reports) < MaxMapCalls
  /\ reports' = Append(reports, [item |-> i, ok |-> ok, why |-> why, at |-> mapTime])
  /\ UNCHANGED mapTime

FailItem(i, why) ==
  /\ Report(i, FALSE, why)
  /\ failures' = Refreshed(i, why)
  /\ mapState' = Updated(failures')

\* Pass: nothing at all when the item did not fail.
PassItem(i) ==
  /\ Report(i, TRUE, "none")
  /\ IF i \in DOMAIN failures
     THEN /\ failures' = [j \in DOMAIN failures \ {i} |-> failures[j]]
          /\ mapState' = Updated(failures')
     ELSE UNCHANGED <<failures, mapState>>

\* Snapshot sets the state anew, for the durations it tells.
MapSnapshot ==
  /\ mapState' = Updated(failures)
  /\ UNCHANGED <<mapTime, failures, reports>>

MapTick ==
  /\ mapTime < MaxMapTime /\ mapTime' = mapTime + 1
  /\ UNCHANGED <<failures, mapState, reports>>

MapNext ==
  \/ \E i \in Items, why \in Reasons : FailItem(i, why)
  \/ \E i \in Items : PassItem(i)
  \/ MapSnapshot
  \/ MapTick

MapSpec == MapInit /\ [][MapNext]_mapVars

-----------------------------------------------------------------------------

MapTypeOK ==
  /\ mapTime \in 0..MaxMapTime
  /\ DOMAIN failures \subseteq Items
  /\ \A i \in DOMAIN failures : failures[i] \in [since : 0..mapTime, why : Reasons]
  /\ mapState.status \in {"pass", "fail"} /\ mapState.changedAt \in 0..mapState.updatedAt

\* The items that fail by the first n reports: the last one on each says so.
FailingBy(n) ==
  {i \in Items : \E k \in 1..n :
     /\ reports[k].item = i /\ ~reports[k].ok
     /\ \A l \in k+1..n : reports[l].item # i \/ ~reports[l].ok}

\* The reports on i since it last passed.
Failures(i) ==
  {k \in 1..Len(reports) : reports[k].item = i /\ ~reports[k].ok
     /\ \A l \in k+1..Len(reports) : reports[l].item = i => ~reports[l].ok}

\* The map holds the items whose last report was a failure, each since the first
\* report after it last passed and with the reason of the last (state_fail_map.go:66).
FailuresAreRight ==
  /\ DOMAIN failures = FailingBy(Len(reports))
  /\ \A i \in DOMAIN failures :
       failures[i] = [since |-> reports[Min(Failures(i))].at, why |-> reports[Max(Failures(i))].why]

\* The state fails while some item does and since none did last, however items
\* took turns; the durations it tells are those of the moment it was set.
StateFollowsItems ==
  LET n     == Len(reports)
      since == {k \in 1..n : \A l \in k..n : FailingBy(l) # {}}
  IN  /\ mapState.status = (IF FailingBy(n) = {} THEN "pass" ELSE "fail")
      /\ since # {} => mapState.changedAt = reports[Min(since)].at
      /\ DOMAIN mapState.secs = DOMAIN failures
      /\ \A i \in DOMAIN failures : mapState.secs[i] + failures[i].since = mapState.updatedAt

\* Both of what a fail map tells, values of their kinds: the items and the state.
FailMapIsRight == MapTypeOK /\ FailuresAreRight /\ StateFollowsItems
=============================================================================
