SPECIFICATION Spec
CONSTANTS
  Pam = {pam}
  App = {app}
  NoProc = NoProc
  MaxConns = 2
  Given <- Parameters
  Known = {"unix-user", "user", "display-device"}
  Restricted = {"id", "cookie"}
  Output <- Lines
INVARIANTS
  CookieHasSession
PROPERTIES
  
  LoginEnds
  OpenAnsweredOrLeft
CHECK_DEADLOCK FALSE
