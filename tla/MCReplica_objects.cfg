CONSTANTS
  None = None
  Fd = {f1}
  MapRows <- DigMap
  Columns <- MCColumns
  Rows <- MCRows
  Glyph <- MCGlyph
  Object <- FlagAndShovel
  FlagPlaces <- DigFlags
  BusySets <- Quiet
  TestModes <- NoTeleport
  CounterBound = 1
  InFlight = 1
  Overtake = 1
SPECIFICATION PlaySpec
INVARIANT TypeOK
INVARIANT RepOK
INVARIANT CaughtUp
INVARIANT QuietSyncComplete
 
INVARIANT LinksOK
PROPERTY MovedByHand
CHECK_DEADLOCK FALSE
