SPECIFICATION Spec
CONSTANTS
  NULL = NULL
  Server = {s1, s2}
  User <- MCUser
  Name <- MCName
  Base <- MCBase
  PageSize = 2
  Slot = {c1}
SYMMETRY Symmetry
INVARIANTS
  TypeOK
  RequestsFindBuckets
PROPERTIES
  NamesRoundTrip
  OnlyTheEndIsMissing
