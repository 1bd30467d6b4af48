SPECIFICATION Spec
CONSTANTS
  NULL = NULL
  Token = {t1, t2}
  File = {f1}
  Client = {c1, c2}
  LockTTL = 2
  MaxTime = 5
INVARIANTS
  TypeOK
  HoldersExclude
PROPERTIES
  RefusesWithPgStore
  ImplementsFileLease
