CONSTANTS
  Requests = {r1, r2, r3}
  Persons = {alice, bob}
  Nobody = nobody
  Usernames = {0, 1, 2, 3}
  MaxAttempts = 2
  Clocks = {1, 2}
  PageLimit = 1
  Workloads <- MakesAccount
SPECIFICATION Spec
INVARIANTS AdminMutationsAreAudited
SYMMETRY Symmetry
CHECK_DEADLOCK FALSE
