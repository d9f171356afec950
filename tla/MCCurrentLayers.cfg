SPECIFICATION Spec
CONSTANTS
  a = a
  c = c
  d1 = d1
  d2 = d2
  t1 = t1
  t2 = t2
  NoTarget = NoTarget
  States = {a, c}
  Docs = {d1, d2}
  Targets = {t1, t2}
  DocOf <- MCDocOf
  TargetOf <- MCTargetOf
  Worst = 2
  Caps = {1}
  MuteTimes = {1}
  Lags = {0, 1}
  Factor = 1
  Fallback = 1
  MaxTime = 3
INVARIANTS
  LayersAgree
  MutesAreSeen
  FleetHashIsCurrent
  
