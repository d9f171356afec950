-------------------------------- MODULE Clock --------------------------------
(****************************************************************************)
(* The wall clock the components read (time.Now, and the injected clock of  *)
(* Escalations).  Time is a natural number of ticks; a tick stands for any  *)
(* delay that the code compares with a TTL or an expiry.  The clock never   *)
(* goes backwards here: the code compares times of one host.                *)
(****************************************************************************)
EXTENDS Naturals

CONSTANT MaxTime          \* bound of the model: the clock stops here

ASSUME ClockAssumption == MaxTime \in Nat

VARIABLE now

ClockInit == now = 0

\* Time passes; nothing else happens.
Advance == /\ now < MaxTime
           /\ now' = now + 1
=============================================================================
