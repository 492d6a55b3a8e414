\* The same question with a heap that may fail.
SPECIFICATION Spec
CONSTANTS
  c1 = c1  b1 = b1  b2 = b2
  Cpus = {c1}
  NoCpu = NoCpu
  Blocks = {b1, b2}
  Null = Null
  GroupCount = 1
  GroupMax = 2
  ReclaimMax = 1
  MinSize = 16
  Sizes <- OneSize
  MaxNest = 1
  CallocMayFail = TRUE
INVARIANT UnderflowMeansEmpty
CHECK_DEADLOCK FALSE
