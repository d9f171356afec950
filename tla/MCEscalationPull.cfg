SPECIFICATION FairSpec
CONSTANTS
  MaxTime = 1
  MaxUnacknowledged = 2
  TTLs <- MCTTLs
  MaxSeq = 2
  ClosedTTL = 1
  EventCap = 2
  CompactionDue = {FALSE}
  MaxCrashes = 1
  MaxLate = 1
INVARIANTS
  NoEventLost
PROPERTIES
  HandoffSpec
  AckNeverRetreats
  EventuallyDelivered
