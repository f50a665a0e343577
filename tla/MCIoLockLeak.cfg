CONSTANTS
  worker = worker
  main = main
  other = other
  None = None
  Threads = {worker, main, other}
  MaxTries = 2
  MaxNest = 2
  MaxLeaks = 1
SPECIFICATION FairSpec
INVARIANT
  ReleasedOutside
