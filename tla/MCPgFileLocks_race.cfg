SPECIFICATION Spec
CONSTANTS
  NULL = NULL
  Token = {t1, t2}
  File = {f1}
  Client = {c1, c2}
  PoolSize = 3
  LockTTL = 2
  MaxTime = 3
  LockColumnHoldsText = TRUE
PROPERTY LiveLockOnlyReleasedByOwner
