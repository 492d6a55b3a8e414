\* Two CPUs, two groups, a heap that may fail.
SPECIFICATION Spec
CONSTANTS
  c1 = c1  c2 = c2  b1 = b1  b2 = b2  b3 = b3
  Cpus = {c1, c2}
  NoCpu = NoCpu
  Blocks = {b1, b2, b3}
  Null = Null
  GroupCount = 2
  GroupMax = 1
  ReclaimMax = 1
  MinSize = 16
  Sizes <- SizesOfTwoGroups
  MaxNest = 2
  CallocMayFail = TRUE
SYMMETRY BothSymmetry
INVARIANTS OneMaintainer GroupBound HolderUninterruptible
  HeapCallsInterruptible NoAlias BlockFits UnloadEmpties
\* A panic stops the system, and so does the end of the teardown.
CHECK_DEADLOCK FALSE
