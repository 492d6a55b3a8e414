\* Two open files.
SPECIFICATION FairSpec
CONSTANTS
  h1 = h1  h2 = h2  
  Handles = {h1, h2}
  Nobody = Nobody
  MaxEvents = 2
INVARIANTS ClientsMatchHandles NoCallbackToDeadHandle
  NoSleeperBesideEvent
PROPERTY OpenAndCloseEnd
