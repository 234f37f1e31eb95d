SPECIFICATION FairSpec
CONSTANTS
  Consoles = {1, 2}
  s1 = s1
  s2 = s2
  s3 = s3
  Sessions = {s1, s2, s3}
  NoSession = NoSession
  X11DisplayDevice <- SharedX11
  DisplayDevice <- SharedDisplay
  Times = {1, 2}
  Calls = {c1}
  NoCall = NoCall
  ActivateMayFail = TRUE

  
  
PROPERTIES
  LeavesPaused
  SwitchesComplete
