CONSTANTS
  None = None
  Client = {c1}
  Fd = {f1, f2}
  Connections = 2
  Calls = 5
  Restarts = 1
  Space = 4
SPECIFICATION Spec
INVARIANT TypeOK
INVARIANT RequestsIntact
INVARIANT RepliesMatch
INVARIANT DescriptorsClean
PROPERTY GoneAreClosed
PROPERTY CallsReturn
CHECK_DEADLOCK FALSE
