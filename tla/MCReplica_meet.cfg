CONSTANTS
  None = None
  Fd = {f1, f2}
  MapRows <- MeetMap
  Columns <- MCColumns
  Rows <- MCRows
  Glyph <- MCGlyph
  Object <- OneFlag
  FlagPlaces <- MeetFlags
  BusySets <- Quiet
  TestModes <- NoTeleport
  CounterBound = 1
  InFlight = 1
  Overtake = 0
SPECIFICATION PlaySpec
SYMMETRY FdSymmetry
INVARIANT CaughtUp
INVARIANT HandsKnown
CHECK_DEADLOCK FALSE
