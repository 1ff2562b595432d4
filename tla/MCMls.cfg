CONSTANTS
  Users = {1, 2, 3}
  FirstMembers = {1, 2}
  MaxDevices = 4
  SignatureKeys = {1, 2}
  MaxPackages = 4
  MaxEpoch = 2
  MaxCounter = 3
  Requests = {p1, p2}
  PageLimit = 1
  Workloads <- SomeWorkloads
SPECIFICATION Spec
INVARIANTS HandedOutOnce LogIsWhole WelcomesArrive BackupIsNotLost
PROPERTIES RefinesStore RequestsEnd
CHECK_DEADLOCK FALSE
