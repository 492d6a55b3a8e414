\* A heap that never fails, and a request no group fits.
SPECIFICATION FairSpec
CONSTANTS
  c1 = c1  c2 = c2  b1 = b1  b2 = b2
  Cpus = {c1, c2}
  NoCpu = NoCpu
  Blocks = {b1, b2}
  Null = Null
  GroupCount = 2
  GroupMax = 1
  ReclaimMax = 1
  MinSize = 16
  Sizes <- SizesTooLarge
  MaxNest = 1
  CallocMayFail = FALSE
INVARIANT UnderflowMeansEmpty
PROPERTIES ImplementsLedger StockRecovers
\* A panic stops the system, and so does the end of the teardown.
CHECK_DEADLOCK FALSE
