CONSTANTS
  p = p
  q = q
  camera = camera
  holiday = holiday
  Files = {p, q}
  Captures = {}
  Names = {camera, holiday}
  TetherNames = {holiday}
  AutoNames <- MCAutoNames
  Io = Io
  Main = Main
  Tether = Tether
  MaxOps = 2
  MaxCrashes = 0
  MaxFailures = 0
  None = None
  Torn = Torn
SPECIFICATION FairSpec
INVARIANT Recreatable
CHECK_DEADLOCK FALSE
