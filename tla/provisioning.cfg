SPECIFICATION ProvisioningSpec
CONSTANTS
  NoEnterprise = NoEnterprise
  None = None
  Identities <- TwoContexts
  MaxTime = 3
  StateIds = {s1, s2}
  TicketIds = {k1, k2}
  GenIds = {g1, g2}
  Channels = {c1}
  StateTTL = 1
  Retention = 2
  PendingTTL = 2
  TtlPolicy = {"idle"}
  Modes = {FALSE, TRUE}
  MaxRefresh = 0
  Lockdown = FALSE
  Disconnects = {}
  Offboards = {}
  Sweeps = {}
  Revokers = {}
  Faults = FALSE
SYMMETRY Interchangeable
INVARIANTS OneCurrentConsent SingleUse
PROPERTIES NoSupersededWrite ReplacementOrder
CHECK_DEADLOCK FALSE
