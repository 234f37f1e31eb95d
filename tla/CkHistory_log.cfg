SPECIFICATION HistorySpec
CONSTANTS
  MaxEvents = 5
  MaxIds = 2
  MaxFiles = 2
  MaxNest = 2
  Noise = {"SYSTEM_SUSPEND"}
  Actions = {"SYSTEM_RESTART"}
  Odd = {2}
  Stops = {"SYSTEM_STOP"}
INVARIANTS  ReportIsRight  SinceIsComplete
 
CHECK_DEADLOCK FALSE
