SPECIFICATION Spec
CONSTANTS
  NULL = NULL
  Id = {i1, i2, i3}
  Email = {"a", "b"}
  Name = {n1, n2}
  Password = {p1}
  Fold <- MCFold
  Slot = {s1, s2}
  Backend = "memory"
  SessionTTL = 0
  Leeway = 0
  MaxTime = 0
SYMMETRY Symmetry
INVARIANT FewShareEmail
PROPERTIES
  CredentialsStable
  GoneForGood
