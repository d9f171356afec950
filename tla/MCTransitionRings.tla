-------------------------- MODULE MCTransitionRings --------------------------
(****************************************************************************)
(* Models of the transition rings: a state that goes up and down, and an    *)
(* informational one that, warn being the best status here, can only pass.  *)
(****************************************************************************)
EXTENDS TransitionRings

CONSTANTS a, b
=============================================================================
