SPECIFICATION Spec
CONSTANTS
  Reports <- MCReports
  Target <- MCTarget
  Window = 2
  PerDay = 2
  Fineness = 2
  Lags <- MCLags
  MaxTime = 4
  MaxRecords = 3
  MaxWriteFaults = 1
  MaxCrashes = 1
CHECK_DEADLOCK FALSE
INVARIANTS
  ChartsAreRight
  UnsavedIsTold
