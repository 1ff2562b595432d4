CONSTANTS
  Users = {1, 2, 3}
  Admins = {1}
  InitialMembers = {1, 2}
  MaxChannels = 3
  Slugs = {s1, s2}
  NoSlug = noslug
  Conferences = {1}
  Guests = {4}
  Requests = {p1, p2}
  Hooks = {h1, h2}
  PageLimit = 1
  MaxOutages = 2
  Workloads <- SomeWorkloads
SPECIFICATION Spec
INVARIANTS MembershipIsTrue AccessEnds BannerFollowsCall
PROPERTIES RefinesStore
SYMMETRY Symmetric
CHECK_DEADLOCK FALSE
