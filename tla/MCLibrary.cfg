CONSTANTS
  p = p
  q = q
  camera = camera
  holiday = holiday
  Files = {p, q}
  Captures = {q}
  Names = {camera, holiday}
  TetherNames = {holiday}
  AutoNames <- MCAutoNames
  Io = Io
  Main = Main
  Tether = Tether
  MaxOps = 2
  MaxCrashes = 1
  MaxFailures = 1
  None = None
  Torn = Torn
SPECIFICATION FairSpec
INVARIANTS
  TypeOK
  Attribution
  BackupCurrent
CHECK_DEADLOCK FALSE
PROPERTIES
  WorkEnds
