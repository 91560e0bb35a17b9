CONSTANTS
  None = None
  Fd = {f1, f2}
  MapRows <- TinyMap
  Columns <- MCColumns
  Rows <- MCRows
  Glyph <- MCGlyph
  Object <- OneFlag
  FlagPlaces <- FlagsMiddle
  BusySets <- Quiet
  TestModes = {TRUE, FALSE}
  CounterBound = 1
SPECIFICATION Spec
SYMMETRY FdSymmetry
INVARIANT OccupancyOK
INVARIANT LinksOK
CHECK_DEADLOCK FALSE
