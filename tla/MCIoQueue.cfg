CONSTANTS
  w1 = w1
  main = main
  thumb1 = thumb1
  thumb2 = thumb2
  checksum = checksum
  Marker = Marker
  None = None
  Workers <- MCWorkers
  Clients <- MCClients
  Jobs <- MCJobs
  Kind <- MCKind
  Class <- MCClass
SPECIFICATION FairSpec
INVARIANTS
  TypeOK
  QueueOrdered
  ActiveExact
  PauseBound
PROPERTIES
  JobsLeftSound
  CancelExact
  JobBoardSpec
  EveryJobResolved
