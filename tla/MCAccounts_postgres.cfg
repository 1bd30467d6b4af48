SPECIFICATION Spec
CONSTANTS
  NULL = NULL
  Id = {i1, i2}
  Email = {"a", "A"}
  Name = {n1}
  Password = {p1, p2}
  Fold <- MCFold
  Slot = {s1, s2}
  Backend = "postgres"
  SessionTTL = 0
  Leeway = 0
  MaxTime = 1
SYMMETRY Symmetry
INVARIANTS
  TypeOK
  EmailsUnique
  SessionsNameUsers
PROPERTIES
  DeletedStaysDeleted
  UpdateAnswersUpdated
  LoginProvesPassword
