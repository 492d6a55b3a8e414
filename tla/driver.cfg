\* Three buses; every step of Init() may fail.
SPECIFICATION Spec
CONSTANTS
  Buses <- MCBuses
  MemoryFails = TRUE
  MaxUint32 = 50
  DataDirectories <- MCDataDirectories
  PathLength = 10
INVARIANTS TeardownMirrorsInit NamesOpenDevices KmsOverModule 
