CONSTANTS
  None = None
  Fd = {f1, f2}
  MapRows <- TagMap
  Columns <- MCColumns
  Rows <- MCRows
  Glyph <- MCGlyph
  Object <- TwoFlags
  FlagPlaces <- FlagsApart
  BusySets <- Quiet
  TestModes = {FALSE}
  CounterBound = 2
SPECIFICATION Spec
SYMMETRY FdSymmetry
INVARIANT WinNeedsFlags
CHECK_DEADLOCK FALSE
