\* One thread per VT (VT_WAITACTIVE); waits and thread creation may fail.
CONSTANTS
  Consoles = {1, 2, 3}
  MaxConsoles = 4
  HaveSysVtSignal = FALSE
  MaxQueue = 2
  WaitMayFail = TRUE
  ThreadMayFail = TRUE
SPECIFICATION FairSpec
INVARIANTS
  NoLostWakeup
  SourceIdHonest
  HashIsLiveThreads
PROPERTIES
  RefinesVtEvents
  RefinesFairVtEvents
