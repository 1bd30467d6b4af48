SPECIFICATION Spec
CONSTANTS
  NULL = NULL
  Token = {t1, t2}
  File = {f1}
  Client = {c1}
  PoolSize = 2
  LockTTL = 2
  MaxTime = 2
  LockColumnHoldsText = TRUE
PROPERTY ExtendGrantsCaller
