CONSTANTS
  p1 = p1
  p2 = p2
  a1 = a1
  a2 = a2
  None = None
  Sessions = {s1, s2}
  Peers = {p1, p2}
  Addrs = {a1, a2}
  From <- TwoPeers
  NoProfile = {p2}
  MaxQueue = 2
SPECIFICATION Spec
INVARIANTS MapIsLive RemoteIsBound AcceptedMediaIsAuthentic
PROPERTIES ConnectedStays
