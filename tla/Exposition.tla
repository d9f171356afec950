----------------------------- MODULE Exposition -----------------------------
(****************************************************************************)
(* The registry's Prometheus page (registry.go, registry_prometheus.go) and *)
(* the counters behind it (metric_counter.go).  Callers look a counter up   *)
(* by its label and add to it while a reader renders the page: it copies    *)
(* what is registered, then the states, then the counters, one lock at a    *)
(* time, and reads every counter on its own.                                *)
(*                                                                          *)
(* A name is the sequence of its parts, the last of which may be a suffix.  *)
(* Every collector describes one metric; all but the vector of counters     *)
(* have samples that do not change.  A rendering changes nothing, so one    *)
(* reader stands for any number.  Help, escaping and the labels of the      *)
(* registry, which are on every row alike, are left out.                    *)
(****************************************************************************)
EXTENDS Integers, Sequences, FiniteSets, Functions, FiniteSetsExt

CONSTANTS
  RegistryStates,  \* the states that a program registers
  Collectors,      \* what it registers as collectors; a state may be one
  CounterVec,      \* the one that is a vector of counters
  Describes,       \* collector -> its description: name, kind, form and unit
  Emits,           \* collector -> the names of its samples
  Registrations,   \* the arguments of RegisterCollectors
  Callers,
  Labels,
  MaxAdds          \* bound on additions

\* A form stands for the kind too.  Samples of states, collectors and labels are told
\* apart, and each collector has one.
ASSUME ExpositionAssumption ==
  /\ CounterVec \in Collectors
  /\ Registrations \subseteq Seq(Collectors)
  /\ \A c \in Collectors :
       /\ Describes[c].name \in Seq(STRING)
       /\ Emits[c] \subseteq Seq(STRING) /\ Emits[c] # {}
       /\ \A d \in Collectors : Describes[c].form = Describes[d].form => Describes[c].kind = Describes[d].kind
  /\ Labels \cap (Collectors \cup RegistryStates) = {}

VARIABLES
  states,      \* Registry.states
  collectors,  \* Registry.collectors
  descs,       \* Registry.descs
  conflicted,  \* a registration was answered by an error
  vec,         \* label -> the counter it has
  counts,      \* what every counter ever made says
  caller,      \* caller -> where its call is
  added,       \* label -> additions made
  rendering,   \* where the reader's rendering is, what it copied and has collected
  refused,     \* whether the page was refused when it was asked for last
  published    \* label -> the highest count of a finished page

registryVars == <<states, collectors, descs, conflicted>>
counterVars == <<vec, counts, caller, added>>
pageVars == <<rendering, refused, published>>
expositionVars == <<registryVars, counterVars, pageVars>>

StateLevel == [name |-> <<"state_level">>, kind |-> "gauge", form |-> "states", unit |-> ""]

Idle == [at |-> "idle"]

NoPage == [at |-> "idle", copied |-> <<>>, samples |-> {}, unread |-> <<>>]

\* NewRegistry and CounterVec.Init
ExpositionInit ==
  /\ states = <<>> /\ collectors = <<>> /\ conflicted = FALSE
  /\ descs = [n \in {StateLevel.name} |-> StateLevel]
  /\ vec = <<>> /\ counts = <<>> /\ added = [l \in Labels |-> 0]
  /\ caller = [p \in Callers |-> Idle]
  /\ rendering = NoPage /\ refused = FALSE
  /\ published = [l \in Labels |-> 0]

-----------------------------------------------------------------------------

\* rememberDesc compares all but the unit.
Clashes(known, d) == d.name \in DOMAIN known /\ known[d.name].form # d.form

Describing(name, cs, n) == {i \in 1..n : Describes[cs[i]].name = name}

\* What is known once the first n of cs are registered: the newest description of a
\* name takes the place of the others.
KnownAfter(cs, n) ==
  [name \in DOMAIN descs \cup {Describes[cs[i]].name : i \in 1..n} |->
     IF Describing(name, cs, n) = {} THEN descs[name]
     ELSE Describes[cs[Max(Describing(name, cs, n))]]]

\* The descriptions of cs that clash with what is known when they are registered.
ClashesIn(cs) == {i \in 1..Len(cs) : Clashes(KnownAfter(cs, i - 1), Describes[cs[i]])}

\* RegisterCollectors stops at the first clash, with that one in the list already.
RegisterAll(cs) ==
  LET first == Min(ClashesIn(cs))
  IN  IF ClashesIn(cs) = {}
      THEN /\ collectors' = collectors \o cs
           /\ descs' = KnownAfter(cs, Len(cs)) /\ UNCHANGED conflicted
      ELSE /\ collectors' = collectors \o SubSeq(cs, 1, first)
           /\ descs' = KnownAfter(cs, first - 1) /\ conflicted' = TRUE

RegisterCollectors(cs) ==
  /\ Range(cs) \cap Range(collectors) = {}
  /\ RegisterAll(cs)
  /\ UNCHANGED <<states, counterVars, pageVars>>

\* Register
RegisterState(s) ==
  /\ s \notin Range(states)
  /\ states' = Append(states, s)
  /\ IF s \in Collectors THEN RegisterAll(<<s>>) ELSE UNCHANGED <<collectors, descs, conflicted>>
  /\ UNCHANGED <<counterVars, pageVars>>

-----------------------------------------------------------------------------

\* GetMetricWithLabelValues looks under the read lock first.
Lookup(p, l) ==
  /\ caller[p] = Idle
  /\ caller' = [caller EXCEPT ![p] =
       IF l \in DOMAIN vec THEN [at |-> "found", label |-> l, counter |-> vec[l]]
       ELSE [at |-> "missing", label |-> l]]
  /\ UNCHANGED <<registryVars, vec, counts, added, pageVars>>

\* Mutant: the map is not looked at again.
Made_Unchecked(l) == Len(counts) + 1

\* Once it has the write lock: the counter that another caller made meanwhile, or a new one.
Made(l) == IF l \in DOMAIN vec THEN vec[l] ELSE Len(counts) + 1

MakeCounter(p) ==
  /\ caller[p].at = "missing"
  /\ LET l == caller[p].label
     IN  /\ vec' = [k \in DOMAIN vec \cup {l} |-> IF k = l THEN Made(l) ELSE vec[k]]
         /\ counts' = IF Made(l) > Len(counts) THEN Append(counts, 0) ELSE counts
         /\ caller' = [caller EXCEPT ![p] = [at |-> "found", label |-> l, counter |-> Made(l)]]
  /\ UNCHANGED <<registryVars, added, pageVars>>

\* Counter.Add, an atomic.
Add(p) ==
  /\ caller[p].at = "found"
  /\ MapThenSumSet(LAMBDA l : added[l], Labels) < MaxAdds
  /\ added' = [added EXCEPT ![caller[p].label] = @ + 1]
  /\ counts' = [counts EXCEPT ![caller[p].counter] = @ + 1]
  /\ caller' = [caller EXCEPT ![p] = Idle]
  /\ UNCHANGED <<registryVars, vec, pageVars>>

-----------------------------------------------------------------------------

\* samePrometheusDesc compares the unit as well.
Conflicts(known, cs) ==
  \E i \in 1..Len(cs) :
    LET d == Describes[cs[i]] IN d.name \in DOMAIN known /\ known[d.name] # d

\* Prometheus copies what is registered and refuses the page if descriptions conflict.
StartPage ==
  /\ rendering.at = "idle"
  /\ refused' = Conflicts(descs, collectors)
  /\ rendering' = IF refused' THEN NoPage
       ELSE [NoPage EXCEPT !.at = "states",
               !.copied = [descs |-> descs, collectors |-> Range(collectors), states |-> Range(states),
                           conflicted |-> conflicted, published |-> published]]
  /\ UNCHANGED <<registryVars, counterVars, published>>

\* Registry.Snapshot has the states that are registered by now; collectors are those copied.
CollectStates ==
  /\ rendering.at = "states"
  /\ rendering' = [rendering EXCEPT !.at = "collectors",
       !.samples = {[name |-> StateLevel.name, of |-> s, value |-> 0] : s \in Range(states)}
         \cup UNION {{[name |-> n, of |-> c, value |-> 0] : n \in Emits[c]} :
                       c \in rendering.copied.collectors \ {CounterVec}}]
  /\ UNCHANGED <<registryVars, counterVars, refused, published>>

\* CounterVec.CollectPrometheus copies its counters under the lock
CollectVec ==
  /\ rendering.at = "collectors"
  /\ rendering' = [rendering EXCEPT !.at = "counters",
       !.unread = IF CounterVec \in rendering.copied.collectors THEN vec ELSE <<>>]
  /\ UNCHANGED <<registryVars, counterVars, refused, published>>

\* and reads one after the other without it.
ReadCounter(l) ==
  /\ l \in DOMAIN rendering.unread
  /\ rendering' = [rendering EXCEPT
       !.unread = [k \in DOMAIN rendering.unread \ {l} |-> rendering.unread[k]],
       !.samples = rendering.samples \cup
         {[name |-> n, of |-> l, value |-> counts[rendering.unread[l]]] : n \in Emits[CounterVec]}]
  /\ UNCHANGED <<registryVars, counterVars, refused, published>>

\* The suffixes that a kind of metric puts behind its name; "" stands for none.
KindSuffixes(kind) ==
  CASE kind = "counter" -> {"total", "created"}
    [] kind = "histogram" -> {"", "sum", "count", "bucket"}
    [] OTHER -> {}

\* prometheusDescName: the metric whose suffixed name it is, or else its own name.
Owner(name, known) ==
  LET owners == {n \in DOMAIN known : \E s \in KindSuffixes(known[n].kind) :
                   name = IF s = "" THEN n ELSE Append(n, s)}
  IN  IF owners = {} THEN name ELSE CHOOSE n \in owners : TRUE

\* Mutant: rows without a description are taken for those without an owner.
Rows_Undescribed(samples, known) ==
  {[sample |-> s, under |-> {Owner(s.name, known)} \cap DOMAIN known,
    times |-> (IF Owner(s.name, known) \in DOMAIN known THEN 1 ELSE 0)
              + (IF s.name \notin DOMAIN known THEN 1 ELSE 0)] : s \in samples}

\* The page: under every description the rows of its own, and behind them the rows of
\* names that are left over.
Rows(samples, known) ==
  LET left == {Owner(s.name, known) : s \in samples} \ DOMAIN known
  IN  {[sample |-> s, under |-> {Owner(s.name, known)} \cap DOMAIN known,
        times |-> (IF Owner(s.name, known) \in DOMAIN known THEN 1 ELSE 0)
                  + (IF s.name \in left THEN 1 ELSE 0)] : s \in samples}

\* All is collected.
Complete == rendering.at = "counters" /\ rendering.unread = <<>>

\* The count that the page shows, none for a label it does not.
Shown(l) == {s.value : s \in {x \in rendering.samples : x.of = l}}

\* The page is written.
FinishPage ==
  /\ Complete
  /\ published' = [l \in Labels |->
       IF \E v \in Shown(l) : v > published[l] THEN CHOOSE v \in Shown(l) : TRUE ELSE published[l]]
  /\ rendering' = NoPage
  /\ UNCHANGED <<registryVars, counterVars, refused>>

ExpositionNext ==
  \/ \E cs \in Registrations : RegisterCollectors(cs)
  \/ \E s \in RegistryStates : RegisterState(s)
  \/ \E p \in Callers, l \in Labels : Lookup(p, l)
  \/ \E p \in Callers : MakeCounter(p)
  \/ \E p \in Callers : Add(p)
  \/ StartPage
  \/ CollectStates
  \/ CollectVec
  \/ \E l \in Labels : ReadCounter(l)
  \/ FinishPage

ExpositionSpec == ExpositionInit /\ [][ExpositionNext]_expositionVars

-----------------------------------------------------------------------------

ExpositionTypeOK ==
  /\ Range(states) \subseteq RegistryStates /\ Range(collectors) \subseteq Collectors
  /\ DOMAIN vec \subseteq Labels /\ \A l \in DOMAIN vec : vec[l] \in DOMAIN counts
  /\ \A l, m \in DOMAIN vec : vec[l] = vec[m] => l = m
  /\ rendering.at \in {"idle", "states", "collectors", "counters"}

\* Every addition is in the one counter that the label has, however many callers looked
\* for it while it was not there (metric_counter.go:92).
NoAdditionLost ==
  \A l \in Labels : added[l] = (IF l \in DOMAIN vec THEN counts[vec[l]] ELSE 0)

\* A page has a row for all that was registered when it was asked for, each row once,
\* below the description of the metric it is of when that has one; a state's or a counter's
\* row that it has beyond that was made meanwhile.  No count is behind that of a page
\* that was finished before.
PageIsRight ==
  Complete =>
    LET rows == Rows(rendering.samples, rendering.copied.descs)
        of   == {r.sample.of : r \in rows}
    IN  /\ rendering.copied.states \cup (rendering.copied.collectors \ {CounterVec}) \subseteq of
        /\ \A r \in rows :
             /\ r.times = 1
             /\ r.sample.name \in DOMAIN rendering.copied.descs => r.under # {}
             /\ \A n \in r.under : SubSeq(r.sample.name, 1, Len(n)) = n
        /\ CounterVec \in rendering.copied.collectors =>
             \A l \in Labels : rendering.copied.published[l] > 0 =>
               Shown(l) # {} /\ \A v \in Shown(l) : v >= rendering.copied.published[l]

\* Two collectors describe one name differently.
Differ(c, d) == Describes[c].name = Describes[d].name /\ Describes[c] # Describes[d]

\* The page is refused only when two that are registered describe one name
\* differently, the unit included; a registration that was answered by an error leaves
\* its collector behind, and no page is rendered after it (registry.go:79).
RefusedForConflict ==
  /\ refused => \E c \in Range(collectors) :
       \/ \E d \in Range(collectors) : Differ(c, d)
       \/ Describes[c].name = StateLevel.name /\ Describes[c] # StateLevel
  /\ rendering.at # "idle" =>
       /\ ~rendering.copied.conflicted
       /\ \A c, d \in rendering.copied.collectors : ~Differ(c, d)

\* A page that is rendered is right, and one that is not is refused for a conflict;
\* what it is rendered from has values of their kinds.
ExpositionIsRight == ExpositionTypeOK /\ PageIsRight /\ RefusedForConflict
=============================================================================
