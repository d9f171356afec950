--------------------------- MODULE EscalationHandoff ---------------------------
(****************************************************************************)
(* What escalation collection promises, without cursors, requests or        *)
(* crashes: an event is held by its source from the moment it is logged,    *)
(* and let go of only when it has been delivered to the store or when its   *)
(* whole incident ends (it expires, or its process restarts).  Delivery may *)
(* happen more than once, and even after the incident ended.                *)
(****************************************************************************)
EXTENDS Naturals

CONSTANT Event       \* what can be logged; Event records have a field incident

VARIABLES
  open,        \* the incidents that have not ended
  logged,      \* every event ever logged
  held,        \* the events their sources still hold
  delivered    \* every event the store has ever taken in

handoffVars == <<open, logged, held, delivered>>

Init == open = {} /\ logged = {} /\ held = {} /\ delivered = {}

OfOthers(events, ended) == {e \in events : e.incident \notin ended}

\* A new event, of a new or an open incident, never of one that ended; some
\* other incidents end.
Log(ended, e) ==
  /\ e \in Event \ logged
  /\ e.incident \notin ended
  /\ e.incident \in open \/ \A f \in logged : f.incident # e.incident
  /\ open' = (open \ ended) \cup {e.incident}
  /\ logged' = logged \cup {e}
  /\ held' = OfOthers(held, ended) \cup {e}
  /\ UNCHANGED delivered

\* The source lets go of events that were delivered; some incidents end.
Release(ended, events) ==
  /\ events \subseteq delivered
  /\ open' = open \ ended
  /\ held' = OfOthers(held, ended) \ events
  /\ UNCHANGED <<logged, delivered>>

Deliver(events) ==
  /\ events \subseteq logged
  /\ delivered' = delivered \cup events
  /\ UNCHANGED <<open, logged, held>>

Next == \E ended \in SUBSET open :
          \/ \E e \in Event : Log(ended, e)
          \/ \E events \in SUBSET held : Release(ended, events)
          \/ \E events \in SUBSET logged : Deliver(events)

Spec == Init /\ [][Next]_handoffVars
=============================================================================
