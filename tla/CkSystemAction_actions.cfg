SPECIFICATION FairActionSpec
CONSTANTS
  Locks = {l1, l2}
  Events = {0, 1}
  Requests = {{0}, {1}, {0, 1}}
  MaxCount = 2
  Calls = {c1, c2}
  NoCall = NoCall
INVARIANTS
  HeldLocksHonoured
  FirstEventsReleased
  OneActionAtATime
  PrepareSignalsPaired
PROPERTIES
  BlockedCallsRefused
  CallsAnswered
