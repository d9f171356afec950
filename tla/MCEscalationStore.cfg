SPECIFICATION Spec
CONSTANTS
  MaxTime = 2
  MaxUnacknowledged = 1
  TTLs <- MCTTLs
  MaxSeq = 2
  ClosedTTL = 1
  EventCap = 1
  CompactionDue = {TRUE, FALSE}
  MaxCrashes = 1
  MaxLate = 0
INVARIANTS
  CaughtUpAgrees
  ReplayEqualsLive
  SourceIsRight
PROPERTIES
  AcknowledgedStandsWithoutNews
