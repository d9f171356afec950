SPECIFICATION Spec
CONSTANTS
  a = a
  b = b
  States = {a}
  Worst = 3
  Warn = 2
  Informational = {a}
  MaxHistory = 2
  RingCap = 2
  Backstop = 2
  Retention = 1
  MaxDocuments = 2
  CompactionDue = {TRUE, FALSE}
  MaxTime = 4
INVARIANTS
  TransitionsArrive
