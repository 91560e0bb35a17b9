CONSTANTS
  User = {"shell"}
  Limit = 4
  Buffer = 5
SPECIFICATION Spec
INVARIANT TypeOK
INVARIANT OwnUpdateSeen
INVARIANT NoLostWakeup
PROPERTY RequestsReturn
CHECK_DEADLOCK FALSE
