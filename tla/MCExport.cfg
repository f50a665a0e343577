CONSTANTS
  e1 = e1
  e2 = e2
  j1 = j1
  j2 = j2
  b1 = b1
  b2 = b2
  w1 = w1
  w2 = w2
  Entries = {e1, e2}
  Jobs = {j1, j2}
  BatchThreads = {b1, b2}
  Workers = {w1, w2}
  Main = Main
  MaxEvents = 5
  MaxCrashes = 1
  None = None
  Torn = Torn
SPECIFICATION FairSpec
INVARIANTS
  TypeOK
  EntriesKept
  ExportedOnce
PROPERTIES
  ExportsEnd
CHECK_DEADLOCK FALSE
