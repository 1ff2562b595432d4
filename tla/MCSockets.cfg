CONSTANTS
  Sockets = {s1}
  Families = {f1, f2}
  Txs = {t1}
  NoFamily = NoFamily
  MaxGenerations = 2
  MayExpire = TRUE
  Operations = {"CreateSession", "RotateSession", "RevokeFamily"}
  Connections = {c1, c2, c3}
  PresenceQueue = 3
  MayLose = TRUE
  Slots = {l1, l2}
  MaxDials = 4
SPECIFICATION MCSpec
INVARIANTS
  LastWordIsOffline
  NothingOutlivesClose
PROPERTIES
  LiveSocketsAreKept
  DeadSocketsAreClosed
  GoneIsShown
  EverythingEnds
