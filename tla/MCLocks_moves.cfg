CONSTANTS
  None = None
  Red = {r1, r2, r3}
  Blue = {}
  Cells = 3
  Jail = {}
  Near <- Column
  Tries = 2
SPECIFICATION Spec
INVARIANT HoldsCells
INVARIANT OccupancyOK
INVARIANT LockOrder
PROPERTY RequestsEnd
CHECK_DEADLOCK FALSE
