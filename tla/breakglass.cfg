SPECIFICATION Spec
CONSTANTS
  NoEnterprise = NoEnterprise
  None = None
  Identities <- OneIdentity
  MaxTime = 3
  StateIds = {s1}
  TicketIds = {}
  GenIds = {g1, g2}
  Channels = {c1}
  StateTTL = 1
  Retention = 1
  PendingTTL = 2
  TtlPolicy = {}
  Modes = {FALSE}
  MaxRefresh = 1
  Lockdown = FALSE
  Disconnects = {}
  Offboards = {}
  Sweeps = {}
  Revokers = {q1}
  Faults = TRUE
INVARIANTS BreakGlassFinal
SYMMETRY Interchangeable
CHECK_DEADLOCK FALSE
