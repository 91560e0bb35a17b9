CONSTANTS
  None = None
  Thread = {t1, t2}
  Client = {c1}
  Slots = 1
  Limit = 2
SPECIFICATION Spec
INVARIANT EventsInOrder
CHECK_DEADLOCK FALSE
