CONSTANTS
  None = None
  Fd = {f1, f2, f3}
  MapRows <- TagMap
  Columns <- MCColumns
  Rows <- MCRows
  Glyph <- MCGlyph
  Object <- NoObjects
  FlagPlaces <- NoPlaces
  BusySets <- Contended
  TestModes <- NoTeleport
  CounterBound = 2
SPECIFICATION Spec
SYMMETRY FdSymmetry
INVARIANT RosterOK
INVARIANT JailedInEnemyJail
INVARIANT HomeCountCovers
PROPERTY TaggedInContact
PROPERTY RescueComplete
PROPERTY RulesSpec
CHECK_DEADLOCK FALSE
