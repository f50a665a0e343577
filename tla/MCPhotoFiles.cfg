CONSTANTS
  p = p
  Photos = {p}
  Main = Main
  Io = Io
  Exporter = Exporter
  MaxEvents = 3
  MaxTime = 1
  None = None
  Torn = Torn
  Camera = Camera
SPECIFICATION FairSpec
INVARIANTS
  TypeOK
  WorkKept
  ThumbCurrent
  Mended
PROPERTIES
  Regenerated
CHECK_DEADLOCK FALSE
