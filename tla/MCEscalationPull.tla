--------------------------- MODULE MCEscalationPull ---------------------------
(****************************************************************************)
(* Models of escalation collection.                                         *)
(****************************************************************************)
EXTENDS EscalationPull

MCTTLs == {1}
=============================================================================
