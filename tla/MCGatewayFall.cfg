CONSTANTS
  Channels = {c1}
  Users = {u1}
  Sockets = {s1}
  Handlers = {h1}
  NoUser = nouser
  NoChannel = nochannel
  EventQueue = 1
  OutboundBuffer = 1
  ReplayMaxEvents = 2
  MaxResumeChannels = 1
  StoreMayFail = FALSE
  MaxCommits = 2
  MaxHints = 0
  MaxChanges = 0
  MaxDials = 2
  MaxFrames = 0
  InitialMembers <- AllMembers
SPECIFICATION Spec
INVARIANTS NothingFallsThrough
CHECK_DEADLOCK FALSE
