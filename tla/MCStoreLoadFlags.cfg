CONSTANTS
  a = a
  b = b
  a1 = a1
  a2 = a2
  b1 = b1
  b2 = b2
  Files = {a, b}
  Rows = {a1, a2, b1, b2}
  FileOf <- MCFileOf
  Dirs <- MCFullDirs
  Prios = {0, 1}
  PRIO_U = 0
  MaxOps = 1
  None = None
SPECIFICATION FairSpec
INVARIANT
  FlagsKept
CHECK_DEADLOCK FALSE
