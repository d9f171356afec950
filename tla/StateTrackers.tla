---------------------------- MODULE StateTrackers ----------------------------
(****************************************************************************)
(* The trackers behind the states of a program (state_tracker.go): status,  *)
(* when it last changed, and a bounded history of changes, which a snapshot *)
(* carries along so that changes between two scrapes are not lost.          *)
(*                                                                          *)
(* Reasons, data and the time of the last update are left out: no property  *)
(* is about them.  A program's clock tells any two of its changes apart.    *)
(****************************************************************************)
EXTENDS Clock, Integers, Sequences, Functions

CONSTANTS
  States,         \* the states of the programs
  Worst,          \* the worst status: statuses are the ranks 1 (pass) to Worst
  Warn,           \* the rank of warn
  Informational,  \* the states that never report worse than warn
  MaxHistory      \* stateTracker.maxHistory

ASSUME TrackersAssumption ==
  /\ Worst \in Nat \ {0}
  /\ Warn \in 1..Worst
  /\ Informational \subseteq States
  /\ MaxHistory \in Nat \ {0}

VARIABLE trackers

\* HistoryEntry, and equally Transition.
Entry == [at : Nat, status : 1..Worst]

\* newStateTracker: there is no entry for the status it begins with.
NewTracker(at) == [status |-> 1, changedAt |-> at, history |-> <<>>]

TrackersInit == trackers = [s \in States |-> NewTracker(now)]

Capped(s, status) ==
  IF s \in Informational /\ status > Warn THEN Warn ELSE status

\* Mutant: a full history keeps its oldest.
Latest_Oldest(history) ==
  IF Len(history) > MaxHistory THEN SubSeq(history, 1, MaxHistory) ELSE history

Latest(history) ==
  IF Len(history) > MaxHistory
  THEN SubSeq(history, Len(history) - MaxHistory + 1, Len(history)) ELSE history

\* Is a set with this status a change?  The first one always is.
IsChange(s, status) ==
  Capped(s, status) # trackers[s].status \/ trackers[s].history = <<>>

\* stateTracker.set, when it is a change; when not, it touches nothing here.
Change(s, status) ==
  LET new == [at |-> now, status |-> Capped(s, status)]
  IN  /\ IsChange(s, status)
      /\ trackers[s].changedAt < now
      /\ trackers' = [trackers EXCEPT ![s] =
           [status |-> new.status, changedAt |-> now,
            history |-> Latest(Append(trackers[s].history, new))]]

\* The program starts again.
ProgramRestart(s) ==
  /\ trackers[s].changedAt < now
  /\ trackers' = [trackers EXCEPT ![s] = NewTracker(now)]

\* Mutant: the history is not looked at.
Transitions_CurrentOnly(s) ==
  {[at |-> trackers[s].changedAt, status |-> trackers[s].status]}

\* snapshot and snapshotTransitions: the changes that a document tells of s.
Transitions(s) ==
  Range(trackers[s].history)
    \cup {[at |-> trackers[s].changedAt, status |-> trackers[s].status]}

-----------------------------------------------------------------------------

TrackersTypeOK ==
  /\ trackers \in [States -> [status : 1..Worst, changedAt : Nat, history : Seq(Entry)]]
  /\ \A s \in States : trackers[s].changedAt <= now /\ Len(trackers[s].history) <= MaxHistory

\* What a state says of itself agrees with its history: the last entry is what
\* it is now and since when, times ascend, each entry differs from the one
\* before it, and an informational state never was worse than warn.
HistoryAgrees ==
  \A s \in States :
    LET h == trackers[s].history
    IN  /\ h # <<>> => h[Len(h)] = [at |-> trackers[s].changedAt, status |-> trackers[s].status]
        /\ \A i \in 1..(Len(h) - 1) : h[i].at < h[i+1].at /\ h[i].status # h[i+1].status
        /\ s \in Informational => \A i \in 1..Len(h) : h[i].status <= Warn
=============================================================================
