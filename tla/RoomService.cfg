CONSTANTS
  Conns = {c1, c2}
  Rooms = {r0, r1}
  EmptyId = r0
  Uids = {u1, u2}
  Media = {"video"}
  MaxSessions = 3
SYMMETRY Symmetry
VIEW View
CONSTRAINT SessionsInNamedRooms
SPECIFICATION Spec
INVARIANTS FeedbackIsLive SubscriberSessionIsLive SubscriptionIsServed ViewIsExact
