SPECIFICATION Spec
CONSTANTS
  Devices = {d1, d2}
  Calls = {c1, c2, c3}
  MaxTokens = 3
  MaxTime = 1
  Overlap = 1
  Ahead = 0
  MaxAge = 1
  None = None
SYMMETRY Symmetry
INVARIANTS
  TypeOK
  DeletedHasNoToken
  WriterIsEntitled
  RingsAreOfOneDevice
PROPERTY
  CredentialsOnlyShrink
CHECK_DEADLOCK FALSE
