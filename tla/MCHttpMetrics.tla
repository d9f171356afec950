----------------------------- MODULE MCHttpMetrics -----------------------------
(****************************************************************************)
(* Model of the HTTP metrics: requests, readers and paths of one kind each. *)
(****************************************************************************)
EXTENDS HttpMetrics, TLC

CONSTANTS c1, c2, c3, p, q, r, r2

Interchangeable == Permutations(Calls) \cup Permutations(Paths) \cup Permutations(Readers)
=============================================================================
