SPECIFICATION Spec
CONSTANTS
  c1 = c1
  c2 = c2
  c3 = c3
  p = p
  q = q
  r = r
  r2 = r2
  Calls = {c1, c2}
  Readers = {r, r2}
  Paths = {p, q}
  Global = "-"
  Codes = {200, 500}
  ErrorCodes = {500}
  Took = 2
  Refresh = 1
  Span = 2
  MaxTime = 4
SYMMETRY Interchangeable
INVARIANTS
  NothingInvented
  SnapshotIsRight
PROPERTIES
  AnswersAreExact
