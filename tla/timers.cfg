\* Both kinds of timers, at once and delayed; NVKMS frees plain ones at any
\* moment and drops the reference pointer at any moment.
SPECIFICATION FairSpec
CONSTANTS
  t1 = t1  t2 = t2  r1 = r1
  Timers = {t1, t2}
  RefPtrs = {r1}
  None = None
  Kinds = {"plain", "ref"}
  Delays = {"now", "later"}
INVARIANTS RefCountExact NothingPendingWhenDeleted
PROPERTY RefPtrReclaimed
