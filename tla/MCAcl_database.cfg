SPECIFICATION Spec
CONSTANTS
  a = a
  b = b
  e = e
  c = c
  u1 = u1
  u2 = u2
  s0 = s0
  s1 = s1
  Sessions = {a, b, e, c}
  NoSession = NoSession
  Seats = {s0, s1}
  SeatOf <- TheSeats
  Users = {u1, u2}
  UserOf <- TheUsers
  Local = {a, b, c}
  MaxChanges = 3
  MaxPlugs = 1
INVARIANT DatabaseHonest
CHECK_DEADLOCK FALSE
