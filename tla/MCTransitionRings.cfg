SPECIFICATION Spec
CONSTANTS
  a = a
  b = b
  States = {a, b}
  Worst = 2
  Warn = 1
  Informational = {b}
  MaxHistory = 2
  RingCap = 2
  Backstop = 3
  Retention = 1
  MaxDocuments = 1
  CompactionDue = {TRUE, FALSE}
  MaxTime = 2
INVARIANTS
  RingsAreKept
  NoTransitionMissed
