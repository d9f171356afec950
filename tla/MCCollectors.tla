----------------------------- MODULE MCCollectors -----------------------------
(****************************************************************************)
(* What a registry reads, for TLC: the page with its counters, the document *)
(* of a program's states (two that are set, one of them only informational, *)
(* a check and an aggregate, and two readers), a fail map, a fail ratio, a  *)
(* trend, heap profiles, and the state of the storage with its journal.     *)
(* They share nothing, so a behaviour is of one of them and the others stay *)
(* as they begin.                                                           *)
(****************************************************************************)
EXTENDS Exposition, ProgramStates, FailMap, FailRatio, TrendCheck, HeapProfiles, StorageHealth

CONSTANTS s1, c1, c2, c3, c4, t1, t2, m1, m2, k1, g1

VARIABLE part

Kind(name, kind, form, unit) == [name |-> name, kind |-> kind, form |-> form, unit |-> unit]

\* A state that is a collector, the vector, a histogram, one whose unit is another than
\* that of the state, and one that is another metric of that name.
MCDescribes ==
  [c \in {s1, c1, c2, c3, c4} |->
     CASE c = s1 -> Kind(<<"size">>, "gauge", "size", "")
       [] c = c1 -> Kind(<<"requests">>, "counter", "requests", "")
       [] c = c2 -> Kind(<<"seconds">>, "histogram", "latency", "")
       [] c = c3 -> Kind(<<"size">>, "gauge", "size", "bytes")
       [] c = c4 -> Kind(<<"size">>, "gauge", "length", "")]

MCEmits ==
  [c \in {s1, c1, c2, c3, c4} |->
     CASE c = s1 -> {<<"size">>, <<"peak">>}
       [] c = c1 -> {<<"requests">>}
       [] c = c2 -> {<<"seconds", "bucket">>, <<"seconds", "sum">>, <<"seconds", "count">>}
       [] c = c3 -> {<<"size">>}
       [] c = c4 -> {<<"size">>}]

MCRegistrations == {<<c1, c2, c4>>, <<c3>>}

StartUp == << [state |-> g1, into |-> "health", worst |-> Down],
              [state |-> m1, into |-> g1, worst |-> Down],
              [state |-> m2, into |-> "health", worst |-> Down],
              [state |-> k1, into |-> g1, worst |-> Warn] >>

MeasuredLevels == {0, 1}

Init ==
  /\ part \in {"page", "program", "map", "ratio", "trend", "profiles", "storage"}
  /\ ExpositionInit /\ ProgramInit /\ MapInit /\ RatioInit /\ TrendInit /\ ProfilesInit /\ HealthInit
  /\ part # "ratio" => window = 0 /\ policy = "ratio" /\ told[1].at = Min(RatioTimes)
  /\ part # "trend" => metric = {Min(Values)}
  /\ part # "profiles" => available

Next ==
  /\ UNCHANGED part
  /\ \/ /\ part = "page" /\ ExpositionNext
        /\ UNCHANGED <<programVars, mapVars, ratioVars, trendVars, profileVars, healthVars>>
     \/ /\ part = "program" /\ ProgramNext
        /\ UNCHANGED <<expositionVars, mapVars, ratioVars, trendVars, profileVars, healthVars>>
     \/ /\ part = "map" /\ MapNext
        /\ UNCHANGED <<expositionVars, programVars, ratioVars, trendVars, profileVars, healthVars>>
     \/ /\ part = "ratio" /\ RatioNext
        /\ UNCHANGED <<expositionVars, programVars, mapVars, trendVars, profileVars, healthVars>>
     \/ /\ part = "trend" /\ TrendNext
        /\ UNCHANGED <<expositionVars, programVars, mapVars, ratioVars, profileVars, healthVars>>
     \/ /\ part = "profiles" /\ ProfilesNext
        /\ UNCHANGED <<expositionVars, programVars, mapVars, ratioVars, trendVars, healthVars>>
     \/ /\ part = "storage" /\ HealthNext
        /\ UNCHANGED <<expositionVars, programVars, mapVars, ratioVars, trendVars, profileVars>>

collectorVars ==
  <<part, expositionVars, programVars, mapVars, ratioVars, trendVars, profileVars, healthVars>>

Spec ==
  /\ Init /\ [][Next]_collectorVars
  /\ part = "program" => ProgramFairness
  /\ part = "storage" => HealthFairness
=============================================================================
