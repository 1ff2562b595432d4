CONSTANTS
  Channels = {c1}
  Users = {u1, u2}
  Sockets = {s1}
  Handlers = {h1}
  NoUser = nouser
  NoChannel = nochannel
  EventQueue = 1
  OutboundBuffer = 2
  ReplayMaxEvents = 2
  MaxResumeChannels = 1
  StoreMayFail = TRUE
  MaxCommits = 3
  MaxHints = 1
  MaxChanges = 2
  MaxDials = 2
  MaxFrames = 1
  InitialMembers <- AllMembers
SPECIFICATION FairSpec
INVARIANTS WindowIsSound DeliveryIsSound RemovalIsFence
PROPERTIES ResyncIsTold LockComesFree
CONSTRAINT Scenarios
CHECK_DEADLOCK FALSE
