SPECIFICATION ReadSpec
CONSTANTS
  a = a
  b = b
  d1 = d1
  t1 = t1
  NoTarget = NoTarget
  States = {a, b}
  Docs = {d1}
  Targets = {t1}
  DocOf <- MCDocOf
  TargetOf <- MCTargetOf
  Worst = 2
  Caps = {1}
  MuteTimes = {2}
  Lags = {0}
  Factor = 1
  Fallback = 1
  MaxTime = 2
INVARIANTS
  SummaryIsCurrent
