SPECIFICATION GlobalSpec
CONSTANTS
  r1 = r1
  r2 = r2
  r3 = r3
  Requests = {r1, r2, r3}
  MaxTime = 4
  ClosedTTL = 1
  EventCap = 2
  CompactionDue = {TRUE, FALSE}
SYMMETRY Interchangeable
INVARIANTS
  NoAnnotationLost
