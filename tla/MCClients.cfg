CONSTANTS
  Families = {f1, f2}
  Txs = {t1, t2}
  NoFamily = NoFamily
  MaxGenerations = 2
  MayExpire = TRUE
  Operations = {"CreateSession", "RotateSession", "RevokeFamily", "RevokeOtherFamilies", "UpdatePassword", "ConsumePasswordReset", "UpdateUserAdmin"}
  Loads = {l1, l2}
  ReplayMaxEvents = 2
  EventQueue = 1
  MaxMessages = 3
  MaxRestarts = 1
SPECIFICATION MCSpec
SYMMETRY Symmetric
INVARIANTS
  OnlyNewestIsUnspent
  EndedStaysEnded
  ListedIffRefreshable
  ViewIsTrue
