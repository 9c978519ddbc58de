SPECIFICATION FairSpec
CONSTANTS
  t1 = t1
  t2 = t2
  i1 = i1
  i2 = i2
  None = None
  Threads = {t1}
  Opener = t1
  Iterations = {i1, i2}
  LastPage = 3
  Rows = 2
  MaxRequests = 6
  MaxErrors = 2
  MaxInterrupts = 1
INVARIANTS TypeOK PageReadable
PROPERTIES PagesInOrder NoneInFlight LastPageReached
CHECK_DEADLOCK FALSE
