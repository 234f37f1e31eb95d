SPECIFICATION Spec
CONSTANTS
  tty = tty
  Monitors = {m1, m2}
  Devices = {tty}
  DeviceOf <- OnTty
  MaxWds = 2
  Threshold = 3
  NoMonitor = NoMonitor
INVARIANTS CallbacksAreLive AlwaysObserved
 

