SPECIFICATION FairSpec
CONSTANTS
  FailAfter = 2
  RecoverAfter = 2
  Expiration = 1
  Timeout = 1
  MaxLatency = 0
  WorstShown = 4
  Reports = {4}
  MaxAge = 3
  MaxCount = 2
INVARIANTS
  PassIsRecent
  MirrorIsRecent
PROPERTIES
  SettlesByPolicy
  Recovers
  Notices
