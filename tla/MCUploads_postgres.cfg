SPECIFICATION Spec
CONSTANTS
  NULL = NULL
  User = {u1, u2}
  Name = {n}
  Lease = {l1, l2}
  Upload = {m1, m2}
  Slot = {s1, s2}
  Backend = "postgres"
  LeaseTTL = 1
  MaxTime = 2
SYMMETRY Symmetry
INVARIANTS
  TypeOK
  StoredOnlyUnderCompletedLease
  UploadsBelongToLeases
  LeaseOwnersExist
PROPERTIES
  LateFinishRefused
  ImplementsLifecycle
