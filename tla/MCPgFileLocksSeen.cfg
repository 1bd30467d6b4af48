SPECIFICATION SeenSpec
CONSTANTS
  NULL = NULL
  Token = {t1, t2}
  File = {f1}
  Client = {c1, c2}
  PoolSize = 3
  LockTTL = 2
  MaxTime = 4
  LockColumnHoldsText = TRUE
SYMMETRY Symmetry
PROPERTIES
  LiveLockLostToOwnerOrOutrunCall
  ImplementsStaleFileLease
