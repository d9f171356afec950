-------------------------- MODULE MCGlobalIncidents --------------------------
(****************************************************************************)
(* Models of concurrent global-incident requests.                           *)
(****************************************************************************)
EXTENDS GlobalIncidents, TLC

CONSTANTS r1, r2, r3

\* Requests differ in nothing but their name.
Interchangeable == Permutations(Requests)
=============================================================================
