CONSTANTS
  Requests = {r1, r2, r3, r4, r5}
  Origin = origin
  NoName = none
  MaxSetupAttempts = 2
  MaxChallengeAttempts = 2
  RecoveryCodeCount = 1
  MaxStep = 2
  SkewSteps = 1
  LoginLimit = 2
  CodeLimit = 2
  ResetLimit = 3
  QueueSize = 1
  Workloads <- ResetBesideSignIn
SPECIFICATION Spec
INVARIANTS ResetSticks
SYMMETRY RequestSymmetry
CHECK_DEADLOCK FALSE
