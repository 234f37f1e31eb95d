CONSTANTS
  Sessions = {s1, s2}
  NoSession = NoSession
  HasVt = {s1}
  Clients = {root, user}
  RootClients = {root}
  NoClient = NoClient
  Drm = {card}
  Evdev = {event}
  Other = {other}
SPECIFICATION Spec
INVARIANTS DevicesHaveController AccessNeedsActive 
PROPERTY VtGivenBack
