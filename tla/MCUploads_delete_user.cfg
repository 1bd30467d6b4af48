SPECIFICATION Spec
CONSTANTS
  NULL = NULL
  User = {u1}
  Name = {n}
  Lease = {l1, l2}
  Upload = {m1, m2}
  Slot = {s1}
  Backend = "postgres"
  LeaseTTL = 1
  MaxTime = 1
PROPERTY DeleteUserAnswersDocumented
