CONSTANTS
  None = None
  Thread = {t1, t2}
  Client = {c1, c2, c3}
  Slots = 2
  Limit = 3
SPECIFICATION Spec
INVARIANT TypeOK
INVARIANT TicketsAccounted
INVARIANT OneTurn
INVARIANT PostInBounds
INVARIANT OnePerTurn
PROPERTY UpdatesEnd
PROPERTY TurnstileSpec
CHECK_DEADLOCK FALSE
