----------------------------- MODULE ProgramStates -----------------------------
(****************************************************************************)
(* The states of a program and the document that tells of them: states set  *)
(* by the program (ManualState), checks that find their status when they    *)
(* are read (HTTPCheck, MemoryCheck, RuntimeCheck), aggregates of both, and *)
(* the registry, which puts a health of all in front.                       *)
(*                                                                          *)
(* Any number of readers (scrapers, consoles, probes) read the document at  *)
(* the same time.  No lock is held for longer than one state takes, so that *)
(* a step here is a critical section of the code.                           *)
(*                                                                          *)
(* Of a tracker only the status is kept: its history is in StateTrackers.   *)
(* Reasons, data other than health's and times are left out.                *)
(****************************************************************************)
EXTENDS Integers, Sequences, SequencesExt, FiniteSets, FiniteSetsExt

CONSTANTS
  Manual,          \* the states that the program sets
  Checks,          \* the checks that measure something when they are read
  Aggregates,
  Health,          \* the registry's own state
  Informational,   \* the states of importance informational
  Readers,
  SetTo,           \* what the states that are set may be set to
  Levels,          \* what a check may measure
  WarnAt, FailAt, DownAt,  \* thresholds of the checks; 0 is for none
  Setup,           \* what the program adds to aggregates and registers, in this order
  Keys,            \* keys that the program may add to the data of Health
  MaxChanges       \* bound of the model: how often something changes

Pass == 0
Warn == 1
Fail == 2
Down == 3

Status == {Pass, Warn, Fail, Down}

Unavailable == -1       \* a level that cannot be measured

Leaves == Manual \cup Checks

None == "none"          \* no state

ASSUME StatesAssumption ==
  /\ Manual \cap Checks = {} /\ Leaves \cap Aggregates = {}
  /\ {Health, None} \cap (Leaves \cup Aggregates) = {}
  /\ Informational \subseteq Manual \cup Aggregates
  /\ Setup \in Seq([state : Leaves \cup Aggregates, into : Aggregates \cup {Health}, worst : Status])
  /\ SetTo \subseteq Status
  /\ Levels \subseteq Nat \cup {Unavailable}
  /\ {WarnAt, FailAt, DownAt, MaxChanges} \subseteq Nat

VARIABLES
  status,      \* state -> the status its tracker holds
  level,       \* check -> what there is to be measured
  setup,       \* what of Setup is still to come
  children,    \* aggregate -> its children, each with the worst status it contributes
  registered,  \* the registry's states
  extra,       \* the keys of healthState.extra
  calls,       \* reader -> {what it has read and has to read}, or {}
  answers,     \* reader -> {the document it was just answered with}, or {}
  changes,     \* how often something has changed
  seen         \* history: reader -> leaf -> the statuses it had in the meantime

programVars == <<status, level, setup, children, registered, extra, calls, answers, changes, seen>>

-----------------------------------------------------------------------------

\* stateTracker.set: informational states never report worse than warn.
Capped(s, st) == IF s \in Informational THEN Min({st, Warn}) ELSE st

\* thresholdStatus and its kin.
ThresholdStatus(value) ==
  LET reached(threshold) == threshold > 0 /\ value >= threshold
  IN  CASE reached(DownAt) -> Down
        [] ~ reached(DownAt) /\ reached(FailAt) -> Fail
        [] ~ reached(DownAt) /\ ~ reached(FailAt) /\ reached(WarnAt) -> Warn
        [] OTHER -> Pass

\* The status that a check finds: down, when it finds nothing to measure.
Current(value) == IF value = Unavailable THEN Down ELSE ThresholdStatus(value)

\* aggregateContribution
Contribution(entry) == Min({entry.status, entry.worst})

Worst(statuses) == Max(statuses \cup {Pass})

AggregateStatus(a, checks) ==
  Capped(a, Worst({Contribution(checks[i]) : i \in DOMAIN checks}))

HealthStatus(doc) == Worst({doc[i].status : i \in DOMAIN doc})

\* evaluateHealth and update: how many states have a status, for those some
\* have; what the program gave under the same key takes its place.
HealthData(doc) ==
  LET count(st) == Cardinality({i \in DOMAIN doc : doc[i].status = st})
  IN  [key \in {st \in Status : count(st) > 0} \cup extra |->
         IF key \in extra THEN "given" ELSE count(key)]

-----------------------------------------------------------------------------
(* The program.                                                             *)

ProgramInit ==
  /\ status = [s \in Leaves \cup Aggregates \cup {Health} |-> Pass]
  /\ level = [c \in Checks |-> 0]
  /\ setup = Setup
  /\ children = [a \in Aggregates |-> <<>>]
  /\ registered = <<>>
  /\ extra = {}
  /\ calls = [r \in Readers |-> {}]
  /\ answers = [r \in Readers |-> {}]
  /\ changes = 0
  /\ seen = [r \in Readers |-> [s \in Leaves |-> {}]]

Changed == changes < MaxChanges /\ changes' = changes + 1

\* Readers under way may see the new status of s.
MaySee(s, st) ==
  seen' = [r \in Readers |-> [seen[r] EXCEPT ![s] = IF calls[r] = {} THEN @ ELSE @ \cup {st}]]

\* ManualState.Set, Pass, Warn, Fail, Down; set to what it is, a status stays.
Set(s, st) ==
  /\ Changed
  /\ Capped(s, st) # status[s]
  /\ status' = [status EXCEPT ![s] = Capped(s, st)]
  /\ MaySee(s, Capped(s, st))
  /\ UNCHANGED <<level, setup, children, registered, extra, calls, answers>>

\* What a check measures becomes another.
Drift(c, value) ==
  /\ Changed
  /\ value # level[c]
  /\ level' = [level EXCEPT ![c] = value]
  /\ MaySee(c, Current(value))
  /\ UNCHANGED <<status, setup, children, registered, extra, calls, answers>>

\* AddCheck, AddInformationalCheck, AddCheckWithWorstStatus: a subsystem comes
\* up.  checkAddable: only leaves are added.
AddCheck ==
  /\ setup # <<>> /\ Head(setup).into \in Aggregates
  /\ Head(setup).state \in Leaves
  /\ children' = [children EXCEPT ![Head(setup).into] =
       Append(@, [state |-> Head(setup).state, worst |-> Head(setup).worst])]
  /\ setup' = Tail(setup)
  /\ UNCHANGED <<status, level, registered, extra, calls, answers, changes, seen>>

\* Registry.Register
Register ==
  /\ setup # <<>> /\ Head(setup).into = Health
  /\ registered' = Append(registered, Head(setup).state)
  /\ setup' = Tail(setup)
  /\ UNCHANGED <<status, level, children, extra, calls, answers, changes, seen>>

\* Registry.SetHealthData
SetHealthData(key) ==
  /\ Changed
  /\ key \notin extra
  /\ extra' = extra \cup {key}
  /\ UNCHANGED <<status, level, setup, children, registered, calls, answers, seen>>

-----------------------------------------------------------------------------
(* Readers.                                                                 *)

\* A call of Registry.Snapshot: the states still to be read and the document so
\* far; the aggregate it is in, with the children still to be read and the
\* checks so far; what a check has found and is not read back yet.
NewCall == [states |-> registered, doc |-> <<>>,
            inside |-> None, children |-> <<>>, checks |-> <<>>, found |-> {}]

\* What a call reads next.
NextState(call) ==
  IF call.inside = None
  THEN IF call.states = <<>> THEN None ELSE Head(call.states)
  ELSE IF call.children = <<>> THEN None ELSE Head(call.children).state

\* The call once it has read that its next state, a leaf, is at st.
Took(call, st) ==
  IF call.inside = None
  THEN [call EXCEPT !.states = Tail(@), !.found = {},
                    !.doc = Append(@, [state |-> Head(call.states), status |-> st, checks |-> <<>>])]
  ELSE [call EXCEPT !.children = Tail(@), !.found = {},
                    !.checks = Append(@, [state |-> Head(call.children).state, status |-> st,
                                          worst |-> Head(call.children).worst])]

Goes(r, call) == calls' = [calls EXCEPT ![r] = {call}]

\* Mutant: who has an answer is given it again.
Begin_Cached(r) ==
  /\ calls[r] = {} /\ answers[r] = {}
  /\ Goes(r, NewCall)
  /\ seen' = [seen EXCEPT ![r] = [s \in Leaves |-> {Capped(s, status[s])}]]
  /\ UNCHANGED <<status, level, setup, children, registered, extra, answers, changes>>

\* The list of states is copied.  A check may still be told by others what they
\* found before this reader came.
Begin(r) ==
  /\ calls[r] = {}
  /\ Goes(r, NewCall)
  /\ answers' = [answers EXCEPT ![r] = {}]
  /\ seen' = [seen EXCEPT ![r] = [s \in Leaves |->
       IF s \in Manual THEN {status[s]}
       ELSE {Current(level[s])} \cup UNION {seen[q][s] : q \in {q \in Readers : calls[q] # {}}}]]
  /\ UNCHANGED <<status, level, setup, children, registered, extra, changes>>

\* ManualState.Snapshot
ReadManual(r) ==
  \E call \in calls[r] :
    /\ NextState(call) \in Manual
    /\ Goes(r, Took(call, status[NextState(call)]))
    /\ UNCHANGED <<status, level, setup, children, registered, extra, answers, changes, seen>>

\* Current, of a check.
Measure(r) ==
  \E call \in calls[r] :
    /\ NextState(call) \in Checks /\ call.found = {}
    /\ Goes(r, [call EXCEPT !.found = {[status |-> Current(level[NextState(call)]), set |-> FALSE]}])
    /\ UNCHANGED <<status, level, setup, children, registered, extra, answers, changes, seen>>

\* The check sets its inner state by what it found ...
SetInner(r) ==
  \E call \in calls[r] : \E found \in call.found :
    /\ ~ found.set
    /\ status' = [status EXCEPT ![NextState(call)] = found.status]
    /\ Goes(r, [call EXCEPT !.found = {[found EXCEPT !.set = TRUE]}])
    /\ UNCHANGED <<level, setup, children, registered, extra, answers, changes, seen>>

\* ... and, the lock released in between, takes a snapshot of it.
ReadInner(r) ==
  \E call \in calls[r] : \E found \in call.found :
    /\ found.set
    /\ Goes(r, Took(call, status[NextState(call)]))
    /\ UNCHANGED <<status, level, setup, children, registered, extra, answers, changes, seen>>

\* AggregateState.Snapshot copies its children ...
Enter(r) ==
  \E call \in calls[r] :
    /\ NextState(call) \in Aggregates
    /\ Goes(r, [call EXCEPT !.inside = Head(call.states), !.children = children[NextState(call)]])
    /\ UNCHANGED <<status, level, setup, children, registered, extra, answers, changes, seen>>

\* Mutant: the snapshot is taken before the status is set.
Leave_Before(r) ==
  \E call \in calls[r] :
    /\ call.inside # None /\ call.children = <<>>
    /\ status' = [status EXCEPT ![call.inside] = AggregateStatus(call.inside, call.checks)]
    /\ Goes(r, [NewCall EXCEPT
         !.states = Tail(call.states),
         !.doc = Append(call.doc, [state |-> call.inside, checks |-> call.checks,
                                   status |-> status[call.inside]])])
    /\ UNCHANGED <<level, setup, children, registered, extra, answers, changes, seen>>

\* ... and, when all are read, sets its status and takes the snapshot at once.
Leave(r) ==
  \E call \in calls[r] :
    /\ call.inside # None /\ call.children = <<>>
    /\ status' = [status EXCEPT ![call.inside] = AggregateStatus(call.inside, call.checks)]
    /\ Goes(r, [NewCall EXCEPT
         !.states = Tail(call.states),
         !.doc = Append(call.doc, [state |-> call.inside, checks |-> call.checks,
                                   status |-> status'[call.inside]])])
    /\ UNCHANGED <<level, setup, children, registered, extra, answers, changes, seen>>

\* healthState.update: the answer.
Finish(r) ==
  \E call \in calls[r] :
    /\ call.inside = None /\ call.states = <<>>
    /\ status' = [status EXCEPT ![Health] = HealthStatus(call.doc)]
    /\ answers' = [answers EXCEPT ![r] =
         {[health |-> status'[Health], data |-> HealthData(call.doc), doc |-> call.doc]}]
    /\ calls' = [calls EXCEPT ![r] = {}]
    /\ seen' = [seen EXCEPT ![r] = [s \in Leaves |-> {}]]
    /\ UNCHANGED <<level, setup, children, registered, extra, changes>>

ReadDocument(r) ==
  \/ Begin(r) \/ ReadManual(r) \/ Measure(r) \/ SetInner(r) \/ ReadInner(r)
  \/ Enter(r) \/ Leave(r) \/ Finish(r)

\* publicHealthStatus: what a probe is told.
PublicStatus(st) == IF st >= Fail THEN Fail ELSE st

ProgramNext ==
  \/ \E s \in Manual, st \in SetTo : Set(s, st)
  \/ \E c \in Checks, value \in Levels : Drift(c, value)
  \/ AddCheck \/ Register
  \/ \E key \in Keys : SetHealthData(key)
  \/ \E r \in Readers : ReadDocument(r)

\* The program alone, for the theorems about it.
ProgramSpec == ProgramInit /\ [][ProgramNext]_programVars

\* Somebody polls the document again and again, and every call comes to its end.
ProgramFairness == \A r \in Readers : WF_programVars(ReadDocument(r))

-----------------------------------------------------------------------------
(* Properties.                                                              *)

Entries == [state : Leaves \cup Aggregates, status : Status, checks : Seq([state : Leaves, status : Status, worst : Status])]

\* Every variable holds a value of its kind; an informational state is never
\* worse than warn.
ProgramTypeOK ==
  /\ status \in [Leaves \cup Aggregates \cup {Health} -> Status]
  /\ \A s \in Informational : status[s] <= Warn
  /\ level \in [Checks -> Levels \cup {0}]
  /\ \A a \in Aggregates : children[a] \in Seq([state : Leaves, worst : Status])
  /\ registered \in Seq(Leaves \cup Aggregates)
  /\ IsSuffix(setup, Setup)
  /\ extra \subseteq Keys
  /\ \A r \in Readers : \A call \in calls[r] :
       /\ call.states \in Seq(Leaves \cup Aggregates) /\ call.doc \in Seq(Entries)
       /\ call.inside \in Aggregates \cup {None}
       /\ call.found \subseteq [status : Status, set : BOOLEAN]
  /\ \A r \in Readers : \A answer \in answers[r] : answer.doc \in Seq(Entries)
  /\ changes \in 0..MaxChanges
  /\ seen \in [Readers -> [Leaves -> SUBSET Status]]

\* However many read at once, a document agrees with itself: an aggregate has a
\* status if and only if one of the checks that this document shows of it has,
\* and may contribute it; health is bad, and a probe is told so, if and only if
\* a state of this document is; and the counts are those of the document
\* (registry_health.go: "Its status is the worst of all registered states").
DocumentAgrees ==
  \A r \in Readers : \A answer \in answers[r] :
    /\ \A i \in DOMAIN answer.doc : answer.doc[i].state \in Aggregates =>
         \A st \in Status \ {Pass} :
           answer.doc[i].status >= st <=>
             /\ st <= Warn \/ answer.doc[i].state \notin Informational
             /\ \E k \in DOMAIN answer.doc[i].checks :
                  answer.doc[i].checks[k].status >= st /\ answer.doc[i].checks[k].worst >= st
    /\ \A st \in Status \ {Pass} :
         answer.health >= st <=> \E i \in DOMAIN answer.doc : answer.doc[i].status >= st
    /\ PublicStatus(answer.health) = Fail <=> \E i \in DOMAIN answer.doc : answer.doc[i].status >= Fail
    /\ Keys \cap DOMAIN answer.data = {} =>
         MapThenSumSet(LAMBDA st : answer.data[st], DOMAIN answer.data) = Len(answer.doc)

\* What a document says of a state that is set, it was while the document was
\* read.  A check may be told what another reader found, but never what it was
\* before all the calls that this one is entangled with.
SeenDuringCall ==
  \A r \in Readers : \A call \in calls[r] :
    /\ \A i \in DOMAIN call.doc :
         /\ call.doc[i].state \in Leaves => call.doc[i].status \in seen[r][call.doc[i].state]
         /\ \A k \in DOMAIN call.doc[i].checks :
              call.doc[i].checks[k].status \in seen[r][call.doc[i].checks[k].state]
    /\ \A k \in DOMAIN call.checks : call.checks[k].status \in seen[r][call.checks[k].state]

\* A document, of values of their kinds, agrees with itself and with what there was
\* while it was read.
DocumentIsRight == ProgramTypeOK /\ DocumentAgrees /\ SeenDuringCall

\* The states that are as bad as what they are made of says.
Agree ==
  /\ \A a \in Aggregates \cap ToSet(registered) :
       status[a] = AggregateStatus(a, [i \in DOMAIN children[a] |->
         [status |-> status[children[a][i].state], worst |-> children[a][i].worst]])
  /\ \A c \in Checks \cap ToSet(registered) : status[c] = Current(level[c])
  /\ \A a \in Aggregates \cap ToSet(registered) : \A i \in DOMAIN children[a] :
       children[a][i].state \in Checks =>
         status[children[a][i].state] = Current(level[children[a][i].state])
  /\ status[Health] = Worst({status[s] : s \in ToSet(registered)})

\* A reader that read its checks earlier may set an aggregate, or health, later
\* than one who read them after it, and a transition to what is over is kept
\* (state_aggregate.go:117).  But this heals: once nothing changes any more and
\* the document is still polled, all agree at last and for good.
AtLastAgree == <>[]Agree
=============================================================================
