CONSTANTS
  User = {"shell", "ui"}
  Limit = 3
  Buffer = 4
SPECIFICATION Spec
INVARIANT OwnUpdateSeen
CHECK_DEADLOCK FALSE
