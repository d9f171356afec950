--------------------------- MODULE MCCurrentLayers ---------------------------
(****************************************************************************)
(* Models of the current layers: two documents, one with a state of one     *)
(* target, the other with a state of another target.                        *)
(****************************************************************************)
EXTENDS CurrentLayers

CONSTANTS a, c, d1, d2, t1, t2

MCDocOf == [s \in States |-> IF s = c THEN d2 ELSE d1]

MCTargetOf == [s \in States |-> IF s = c THEN t2 ELSE t1]
=============================================================================
