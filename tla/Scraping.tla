------------------------------- MODULE Scraping -------------------------------
(****************************************************************************)
(* What a scraper says of one target: the state of a liveness check         *)
(* (scraper/liveness.go), with thresholds of failures and successes, and    *)
(* the mirror of the states that the target reports itself                  *)
(* (scraper/aggregate.go).  Both are filled by tasks of their own           *)
(* (scraper.go), one request at a time each, and read at any time by        *)
(* anyone who asks the scraper's registry for a document.                   *)
(*                                                                          *)
(* Nothing depends on what time it is, only on how long ago things were:    *)
(* times are ages, and ages beyond MaxAge are not told apart.  Counts are   *)
(* compared with thresholds only, and those beyond MaxCount are not told    *)
(* apart either.                                                            *)
(****************************************************************************)
EXTENDS Naturals, Sequences

CONSTANTS
  FailAfter, RecoverAfter,  \* FailurePolicy, 1 when not configured
  Expiration,               \* 0: never
  Timeout, MaxLatency,      \* of a request, of a probe that is to pass (0: any)
  WorstShown,               \* Warn if the check is informational, else Down
  Reports,                  \* what the target may report of itself: worst statuses
  MaxAge, MaxCount          \* bounds: ages and counts beyond them are alike

Pass == 1
Warn == 2
Fail == 3
Down == 4

ASSUME ScrapingAssumption ==
  /\ FailAfter \in Nat \ {0} /\ RecoverAfter \in Nat \ {0}
  /\ Expiration \in Nat /\ Timeout \in Nat /\ MaxLatency \in Nat
  /\ WorstShown \in {Warn, Down}
  /\ Reports \subseteq Pass..Down
  /\ MaxAge \in Nat /\ MaxAge > Expiration + Timeout
  /\ MaxCount \in Nat /\ MaxCount >= FailAfter /\ MaxCount >= RecoverAfter

VARIABLES
  endpoint,      \* the outcome that a probe of the target has now
  okAge,         \* history: how long ago endpoint was Pass, while this scraper runs
  probe,         \* {the probe under way} or {}
  cur,           \* livenessState.cur
  shown,         \* status of livenessState.inner
  failCount,     \* consecutive failures
  passCount,     \* consecutive successes
  updateAge,     \* age of livenessState.updatedAt
  recent,        \* history: the last outcomes recorded, the newest first
  fetch,         \* {the request for the target's states under way} or {}
  scraped,       \* {the states that the mirror has} or {}: hasData, scraped
  fetchAge       \* age of remoteStateMirror.fetchedAt

livenessVars == <<cur, shown, failCount, passCount, updateAge, recent>>
mirrorVars == <<scraped, fetchAge>>
vars == <<endpoint, okAge, probe, livenessVars, fetch, mirrorVars>>

Outcome == {Pass, Fail, Down}

Older(age) == IF age < MaxAge THEN age + 1 ELSE age

Bump(count) == IF count < MaxCount THEN count + 1 ELSE count

AsShown(status) == IF status > WorstShown THEN WorstShown ELSE status

\* The mirror keeps what it has when its target reports no states.
NoStates == 0

-----------------------------------------------------------------------------
(* The target and time.                                                     *)

FreshScraper ==
  /\ probe' = {} /\ cur' = Pass /\ shown' = Pass /\ failCount' = 0 /\ passCount' = 0
  /\ updateAge' = 0 /\ recent' = <<>>
  /\ fetch' = {} /\ scraped' = {} /\ fetchAge' = 0

Init ==
  /\ endpoint \in Outcome /\ okAge = 0
  /\ probe = {} /\ cur = Pass /\ shown = Pass /\ failCount = 0 /\ passCount = 0
  /\ updateAge = 0 /\ recent = <<>>
  /\ fetch = {} /\ scraped = {} /\ fetchAge = 0

\* The scraper's process starts again.
Restart ==
  /\ FreshScraper
  /\ okAge' = 0
  /\ UNCHANGED endpoint

Tick ==
  /\ okAge' = IF endpoint = Pass THEN 0 ELSE Older(okAge)
  /\ probe' = {[outcome |-> p.outcome, age |-> Older(p.age)] : p \in probe}
  /\ updateAge' = Older(updateAge)
  /\ fetch' = {[states |-> f.states, age |-> Older(f.age)] : f \in fetch}
  /\ scraped' = {[states |-> s.states, age |-> Older(s.age)] : s \in scraped}
  /\ fetchAge' = Older(fetchAge)
  /\ UNCHANGED <<endpoint, cur, shown, failCount, passCount, recent>>

TargetChanges ==
  /\ endpoint' \in Outcome
  /\ okAge' = IF Pass \in {endpoint, endpoint'} THEN 0 ELSE okAge
  /\ UNCHANGED <<probe, livenessVars, fetch, mirrorVars>>

-----------------------------------------------------------------------------
(* The liveness check.                                                      *)

\* Its tick sends a request; the target answers it as it is now, or does not.
Probe ==
  /\ probe = {}
  /\ probe' = {[outcome |-> endpoint, age |-> 0]}
  /\ UNCHANGED <<endpoint, okAge, livenessVars, fetch, mirrorVars>>

\* Mutant: one success more than required is needed, which are not counted.
RecordSuccess_Over ==
  /\ passCount' = Bump(passCount)
  /\ failCount' = 0
  /\ cur' = IF passCount' > RecoverAfter THEN Pass ELSE cur
  /\ shown' = IF cur' = Pass THEN Pass ELSE Warn

\* recordSuccess
RecordSuccess ==
  /\ passCount' = Bump(passCount)
  /\ failCount' = 0
  /\ cur' = IF passCount' >= RecoverAfter THEN Pass ELSE cur
  /\ shown' = IF cur' = Pass THEN Pass ELSE Warn

\* Mutant: the successes in a row are not reset.
RecordFailure_KeepsSuccesses(status) ==
  /\ failCount' = Bump(failCount)
  /\ UNCHANGED passCount
  /\ cur' = IF failCount' >= FailAfter THEN status ELSE cur
  /\ shown' = IF cur' = status THEN AsShown(status) ELSE Warn

\* Mutant: a failure below the threshold leaves the state as it is.
RecordFailure_Silent(status) ==
  /\ failCount' = Bump(failCount)
  /\ passCount' = 0
  /\ cur' = IF failCount' >= FailAfter THEN status ELSE cur
  /\ shown' = IF cur' = status THEN AsShown(status) ELSE shown

\* Mutant: each failure counts as the first.
RecordFailure_Forgets(status) ==
  /\ failCount' = 1
  /\ passCount' = 0
  /\ cur' = IF failCount' >= FailAfter THEN status ELSE cur
  /\ shown' = IF cur' = status THEN AsShown(status) ELSE Warn

\* recordFailure
RecordFailure(status) ==
  /\ failCount' = Bump(failCount)
  /\ passCount' = 0
  /\ cur' = IF failCount' >= FailAfter THEN status ELSE cur
  /\ shown' = IF cur' = status THEN AsShown(status) ELSE Warn

\* What the tick makes of an answer: a late one is none.
Outcomes(p) ==
  IF p.age > Timeout THEN Down
  ELSE IF p.outcome = Pass /\ MaxLatency > 0 /\ p.age > MaxLatency THEN Fail
  ELSE p.outcome

Record ==
  /\ \E p \in probe :
       /\ IF Outcomes(p) = Pass THEN RecordSuccess ELSE RecordFailure(Outcomes(p))
       /\ recent' = SubSeq(<<Outcomes(p)>> \o recent, 1,
                           IF Len(recent) < MaxCount THEN Len(recent) + 1 ELSE MaxCount)
  /\ updateAge' = 0
  /\ probe' = {}
  /\ UNCHANGED <<endpoint, okAge, fetch, mirrorVars>>

Stale(age) == Expiration > 0 /\ age > Expiration

\* What livenessState.Snapshot answers, and what the answer leaves behind.
Answer == IF Stale(updateAge) /\ cur # Down THEN AsShown(Down) ELSE shown

Snapshot ==
  /\ Stale(updateAge) /\ cur # Down
  /\ cur' = Down
  /\ shown' = AsShown(Down)
  /\ UNCHANGED <<endpoint, okAge, probe, failCount, passCount, updateAge, recent, fetch, mirrorVars>>

-----------------------------------------------------------------------------
(* The mirror.                                                              *)

Fetch ==
  /\ fetch = {}
  /\ \E report \in Reports \cup {NoStates} : fetch' = {[states |-> report, age |-> 0]}
  /\ UNCHANGED <<endpoint, okAge, probe, livenessVars, mirrorVars>>

\* setSuccess: the document arrives in time.
Fetched ==
  /\ \E f \in fetch :
       /\ f.age <= Timeout
       /\ IF f.states = NoStates THEN UNCHANGED mirrorVars
          ELSE scraped' = {f} /\ fetchAge' = 0
  /\ fetch' = {}
  /\ UNCHANGED <<endpoint, okAge, probe, livenessVars>>

\* Mutant: a failure counts as contact.
FetchFailed_Refreshes ==
  /\ fetch # {}
  /\ fetch' = {}
  /\ fetchAge' = 0
  /\ UNCHANGED <<endpoint, okAge, probe, livenessVars, scraped>>

\* setFailure
FetchFailed ==
  /\ fetch # {}
  /\ fetch' = {}
  /\ UNCHANGED <<endpoint, okAge, probe, livenessVars, mirrorVars>>

\* Snapshots: what the registry shows of the target's own states.
Mirrored == IF Stale(fetchAge) THEN {} ELSE scraped

Next ==
  \/ Restart \/ Tick \/ TargetChanges
  \/ Probe \/ Record \/ Snapshot
  \/ Fetch \/ Fetched \/ FetchFailed

Spec == Init /\ [][Next]_vars

\* The task loop (scraper.go:126) ticks for as long as its process lives, and
\* the context of a request ends it.
FairSpec == Spec /\ WF_vars(Probe) /\ WF_vars(Record)

-----------------------------------------------------------------------------
(* Properties.                                                              *)

\* Every variable holds a value of its kind.
TypeOK ==
  /\ endpoint \in Outcome /\ okAge \in 0..MaxAge
  /\ probe \subseteq [outcome : Outcome, age : 0..MaxAge]
  /\ cur \in Outcome /\ shown \in Pass..WorstShown
  /\ failCount \in 0..MaxCount /\ passCount \in 0..MaxCount
  /\ updateAge \in 0..MaxAge
  /\ recent \in Seq(Outcome) /\ Len(recent) <= MaxCount
  /\ fetch \subseteq [states : Reports \cup {NoStates}, age : 0..MaxAge]
  /\ scraped \subseteq [states : Reports, age : 0..MaxAge]
  /\ fetchAge \in 0..MaxAge

\* A scraper that says pass has reason to: the last probe passed, if there was
\* one, and with an expiration the target was well no longer ago than the
\* expiration and a request's timeout, whatever comes late or not at all.
PassIsRecent ==
  Answer = Pass =>
    /\ recent # <<>> => recent[1] = Pass
    /\ Expiration > 0 => okAge <= Expiration + Timeout

\* The newest n outcomes are all among these.
InARow(n, outcomes) == Len(recent') >= n /\ \A i \in 1..n : recent'[i] \in outcomes

\* The failure policy (scraper/README.md:259-262): the status settles as fail
\* or down after FailAfter failures in a row, or by expiration, and as pass
\* after RecoverAfter successes in a row, counted across expirations.
SettlesByPolicy ==
  [][cur' # cur =>
       \/ recent' = <<>>
       \/ cur' = Pass /\ InARow(RecoverAfter, {Pass})
       \/ cur' = recent'[1] /\ InARow(FailAfter, {Fail, Down})
       \/ cur' = Down /\ Stale(updateAge)]_vars

\* The states shown as the target's own are what it said no longer ago than
\* the expiration and a request's timeout.
MirrorIsRecent == Expiration > 0 => \A s \in Mirrored : s.age <= Expiration + Timeout

\* Does the scraper keep up?  No probe is late, and none is too old.
KeepsUp ==
  /\ ~ Stale(updateAge)
  /\ \A p \in probe : p.age <= Timeout /\ (MaxLatency > 0 => p.age <= MaxLatency)

\* A target that is well from some time on, with a scraper that keeps up, is
\* shown as such in the end.
Recovers == <>[](endpoint = Pass /\ KeepsUp) => <>[](Answer = Pass)

\* A target that is out of reach from some time on is shown as down in the
\* end, if the scraper is not started again and again.
Notices ==
  <>[](endpoint = Down) /\ <>[][~ Restart]_vars => <>[](Answer = AsShown(Down))
=============================================================================
