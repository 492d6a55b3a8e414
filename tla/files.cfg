\* A GPU file, a control file and NVKMS; two threads.
SPECIFICATION FilesSpec
CONSTANTS
  g1 = g1    c1 = c1  kms = kms  t1 = t1  t2 = t2  a1 = a1  v1 = v1
  Users = {g1, kms}
  GpuFiles = {g1}
  CtlFiles = {c1}
  Threads = {t1, t2}
  Allocs = {a1}
  Vram = {v1}
  Cachings = {"default", "writecombined"}
  None = None
  StartMayFail = TRUE
  MaxHandlers = 2
SYMMETRY ThreadSymmetry
CONSTRAINT Orderly
INVARIANTS OpenCountExact OneStarter 
    RangesAccounted 
 
\* MaxHandlers ends the behaviours in which starts keep failing.
CHECK_DEADLOCK FALSE
