------------------------------ MODULE LayerReads ------------------------------
(****************************************************************************)
(* The conditional reads of the layers over HTTP (storage/api.go) by one    *)
(* console, which keeps the last answer of a path and its ETag, sends the   *)
(* ETag along, and goes on showing what it has when it is told 304.         *)
(*                                                                          *)
(* GET /state/summary is one call of the store, which refreshes the mutes   *)
(* and answers the counts of all states under the hash of the targets.      *)
(****************************************************************************)
EXTENDS CurrentLayers, FiniteSets

VARIABLE summary     \* {the console's last answer to /state/summary}, or {}

\* Summary: how many states are seen with each status, and the same of the
\* worst statuses of targets.
WorstSeen(t) ==
  CHOOSE w \in {SeenStatus(targets[t][s]) : s \in DOMAIN targets[t]} :
    \A s \in DOMAIN targets[t] : SeenStatus(targets[t][s]) <= w

Summary ==
  [states  |-> [w \in 1..Worst |-> Cardinality(
                  {s \in DOMAIN details : SeenStatus(Seen(s, details[s], mutes)) = w})],
   targets |-> [w \in 1..Worst |-> Cardinality({t \in DOMAIN targets : WorstSeen(t) = w})]]

ReadInit == Init /\ summary = {}

\* writeJSONETag: 304 if the console has that ETag, else the body under it.
Answered(kept, etag, body) ==
  IF \E answer \in kept : answer.etag = etag
  THEN kept ELSE {[etag |-> etag, body |-> body]}

GetSummary ==
  /\ Refresh
  /\ summary' = Answered(summary, fleetHash', Summary')

ReadNext ==
  \/ (Environment \/ Store \/ Crash) /\ UNCHANGED summary
  \/ GetSummary

ReadSpec == ReadInit /\ [][ReadNext]_<<vars, summary>>

-----------------------------------------------------------------------------
(* Properties.                                                              *)

\* Every layer GET sets a strong ETag (storage/README.md:181): while the ETag
\* of its summary is the current one, so that it is told 304, and no mute has
\* lapsed that this read would refresh, a console shows what the store would
\* answer now.  (It does while every state has a target and one document feeds
\* the store.)
SummaryIsCurrent ==
  \A answer \in summary :
    answer.etag = fleetHash /\ Active(mutes) = mutes => answer.body = Summary
=============================================================================
