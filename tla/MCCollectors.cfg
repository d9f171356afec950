SPECIFICATION Spec
CONSTANTS
  s1 = s1
  c1 = c1
  c2 = c2
  c3 = c3
  c4 = c4
  t1 = t1
  t2 = t2
  m1 = m1
  m2 = m2
  k1 = k1
  g1 = g1
  RegistryStates = {s1}
  Collectors = {s1, c1, c2, c3, c4}
  CounterVec = c1
  Describes <- MCDescribes
  Emits <- MCEmits
  Registrations <- MCRegistrations
  Callers = {p1, p2}
  Labels = {l1, l2}
  MaxAdds = 2
  Manual = {m1, m2}
  Checks = {k1}
  Aggregates = {g1}
  Health = "health"
  Informational = {m2}
  Readers = {u1, u2}
  SetTo = {0, 3}
  Levels <- MeasuredLevels
  WarnAt = 1
  FailAt = 2
  DownAt = 0
  Setup <- StartUp
  Keys = {2}
  MaxChanges = 2
  Items = {i1, i2}
  Reasons = {y1, y2}
  MaxMapTime = 2
  MaxMapCalls = 3
  Span = 2
  RatioTimes = {1, 2, 3, 5}
  MinSamples = 2
  WarnShare = 25
  FailShare = 50
  DownShare = 75
  MaxRatioCalls = 3
  TrendReaders = {u1, u2}
  Interval = 2
  TrendWindow = 4
  TrendSamples = 3
  GrowthAt = 1
  Values = {0, 5}
  MaxTrendTime = 5
  MaxReadings = 4
  ProfileReaders = {u1, u2}
  WorstMemory = 2
  MaxMeasured = 3
  Things = {t1, t2}
  Unencodable = {t2}
  MaxSize = 1
  MaxVersion = 2
  MaxFaults = 1
  MaxRestarts = 1
  StatsReaders = {r1}
INVARIANTS
  HealthTypeOK
  NoAdditionLost
  ExpositionIsRight
  DocumentIsRight
  FailMapIsRight
  RatioIsRight
  TrendIsRight
  ProfilesPerRise
PROPERTIES
  
  HealthFollows
  AtLastAgree
CHECK_DEADLOCK FALSE
