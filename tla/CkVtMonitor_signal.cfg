\* The polling thread (HAVE_SYS_VT_SIGNAL).
CONSTANTS
  Consoles = {1, 2, 3}
  MaxConsoles = 4
  HaveSysVtSignal = TRUE
  MaxQueue = 2
  WaitMayFail = FALSE
  ThreadMayFail = FALSE
SPECIFICATION FairSpec
PROPERTIES
  ActiveFollowsConsole
