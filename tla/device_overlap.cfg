\* A last close and a first open that overlap; no start fails.
SPECIFICATION Spec
CONSTANTS
  u1 = u1  u2 = u2
  Users = {u1, u2}
  StartMayFail = FALSE
  MaxHandlers = 2
INVARIANT ReferencedGpuIsUp
