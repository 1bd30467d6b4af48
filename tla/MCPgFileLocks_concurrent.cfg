SPECIFICATION Spec
CONSTANTS
  NULL = NULL
  Token = {t1, t2}
  File = {f1}
  Client = {c1, c2, c3}
  PoolSize = 2
  LockTTL = 1
  MaxTime = 2
  LockColumnHoldsText = TRUE
SYMMETRY Symmetry
INVARIANTS
  TypeOK
  LockExpires
  ConflictNamesHolder
