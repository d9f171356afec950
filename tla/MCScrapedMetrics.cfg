SPECIFICATION Spec
CONSTANTS
  Cap = 1
  Retention = 2
  CompactEvery = 2
  NameOrder <- MCNameOrder
  Canonical <- MCCanonical
  NaN <- MCNaN
  Exposed <- MCExposed
  TargetLabels <- MCTargetLabels
  StateAggregated = {"a"}
  DropScrapePath = {"b"}
  Times <- MCTimes
  MaxTicks = 3
CHECK_DEADLOCK FALSE
INVARIANTS
  StoreIsRight
PROPERTIES
  KeepsSeries
  CompactionIsExact
