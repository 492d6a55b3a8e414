\* Six allocations of graphics memory, two modes; any call may fail.
SPECIFICATION InstanceSpec
CONSTANTS
  b1 = b1  b2 = b2  b3 = b3  b4 = b4  b5 = b5  b6 = b6
  Ids = {b1, b2, b3, b4, b5, b6}
  Modes <- MCModes
  None = None
SYMMETRY IdSymmetry
INVARIANTS  DrawTargetMapped NothingLeaked MembersUnwind SurfaceInMemory
