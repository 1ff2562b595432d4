CONSTANTS
  Users = {1, 2}
  Admins = {2}
  Authors = {1}
  MaxMessages = 3
  Keys = {k1, k2}
  Bodies <- SomeBodies
  Files = {1, 2}
  E2EE = {FALSE, TRUE}
  Requests = {p1, p2}
  PageLimit = 2
  QueueDepth = 1
  Workloads <- SomeWorkloads
SPECIFICATION Spec
INVARIANT CardIsDelivered
SYMMETRY Symmetric
CHECK_DEADLOCK FALSE
