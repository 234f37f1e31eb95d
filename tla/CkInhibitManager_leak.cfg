SPECIFICATION InhibitSpec
CONSTANTS
  Locks = {l1, l2}
  Events = {0, 1}
  Requests = {{0}, {0, 1}}
  MaxCount = 3
INVARIANTS
  ClosedIsReleased
CHECK_DEADLOCK FALSE
