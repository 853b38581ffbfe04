SPECIFICATION Spec
CONSTANTS
  Keys = {1, 2}
  Capacity <- BurstOf
  Refill <- RefillOf
  Cost = 3
  PruneEvery = 1
  MaxClock = 5
  NoBucket = NoBucket
  Turns = {t1, t2, t3}
  Lease = 3
  Debounce = 3
  PostDeadline = 1
  PostBound = 1
  DbBound = 1
  NoTurn = NoTurn
  Runs = {r1, r2}
  Ids = {1, 2}
  BatchSize = 1
  Stored <- BeforeRekey
  MaxVersion = 1
  NoRow = NoRow
  NoBlob = NoBlob
  Events = {e1, e2, e3}
  Window = 2
  MaxStamp = 4
  MaxPurges = 1
  NoClaim = NoClaim
  Commands = {c1, c2, c3}
  ToolProviders = {1, 2}
  Unset = Unset
  Free = Free
  Txns = {1, 2, 3, 4}
  LockKeys = {1, 2, 3, 4, 5}
  Batches <- Nested
  HashText <- Apart
  PoolSize = 3
  Nobody = Nobody
INVARIANTS RateLimitInv DeliveryInv RekeyInv HealthInv AllowlistInv LocksInv
PROPERTIES ImplementsBudget
CHECK_DEADLOCK FALSE
