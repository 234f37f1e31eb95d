SPECIFICATION Spec
CONSTANTS
  k1 = k1
  k2 = k2
  k3 = k3
  o1 = o1
  o2 = o2
  u1 = u1
  u2 = u2
  Cookies = {k1, k2, k3}
  Clients = {o1, o2}
  Users = {u1, u2}
  Owner <- TwoClients
  User <- TwoUsers
  OnConsole = {k1, k2}
  IsLocal <- Vouched
  LoginId <- Logins
  StaticSeats = {0}
  SeatFiles = 1
  MaxSerial = 3
  GenerateMayFail = TRUE
  DumpMayFail = TRUE
INVARIANTS
  NothingWithoutLeader
  
  
  
  
PROPERTIES
  RuntimeDirKept
