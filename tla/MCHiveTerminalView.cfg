SPECIFICATION ViewFairSpec
CONSTANTS
  NoSession = NoSession
  Calls = {c1, c2, c3}
  Sessions = {s1, s2}
INVARIANTS
  ViewTypeOK
  NothingOrphaned
  FieldsAgree
PROPERTIES
  ClosedInOrder
  ViewSettles
CHECK_DEADLOCK FALSE
