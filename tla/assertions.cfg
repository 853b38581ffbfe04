SPECIFICATION AssertionsSpec
CONSTANTS
  Jtis = {j1, j2}
  Minters = {m1}
  Replicas = {r1, r2}
  Calls = {c1, c2, c3}
  Interactive = {c1, c2, c3}
  Skew = 2
  MaxLifetime = 1
  PruneEvery = 1
  Offset = 1
  MaxLag = 2
  MaxTime = 5
INVARIANTS AcceptedOnce IssuanceFailsClosed
SYMMETRY Interchangeable
CHECK_DEADLOCK FALSE
