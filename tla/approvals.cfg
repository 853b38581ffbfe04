SPECIFICATION ApprovalsSpec
CONSTANTS
  Users = {u1, u2, w}
  Workers = {w}
  Shared = Shared
  None = None
  Actions = {a1, a2}
  Ids = {i1, i2}
  Gens = {g1, g2, g3}
  Fetches = {f1, f2}
  Clicks = {k1, k2}
  Policies <- BothPolicies
  PendingTTL = 1
  GrantTTL = 2
  IdleTTL = 2
  MaxTTL = 2
  Leavers = {u1, u2}
  MaxChanges = 2
  MaxTime = 3
SYMMETRY Interchangeable
INVARIANTS SpentAsDecided ApprovalsTable
PROPERTIES NoSpendAcrossOffboard NoABA WorkerLeashed
CHECK_DEADLOCK FALSE
