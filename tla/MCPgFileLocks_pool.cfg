SPECIFICATION FairSpec
CONSTANTS
  NULL = NULL
  Token = {t1, t2}
  File = {f1}
  Client = {c1, c2}
  PoolSize = 2
  LockTTL = 2
  MaxTime = 2
  LockColumnHoldsText = FALSE
INVARIANT NoConflictWithoutTokens
PROPERTY CallsReturn
