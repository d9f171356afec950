----------------------------- MODULE MCLayerReads -----------------------------
(****************************************************************************)
(* Models of the console's conditional reads: one document with one scraped *)
(* state, and one state that comes from the program itself and so has no    *)
(* target.                                                                  *)
(****************************************************************************)
EXTENDS LayerReads

CONSTANTS a, b, d1, t1

MCDocOf == [s \in States |-> d1]

MCTargetOf == [s \in States |-> IF s = a THEN t1 ELSE NoTarget]
=============================================================================
