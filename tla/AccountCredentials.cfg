CONSTANTS
  b1 = b1
  b2 = b2
  u1 = u1
  k1 = k1
  k2 = k2
  Browsers = {b1, b2}
  Users = {u1}
  Links = {k1, k2}
  Limit = 2
  MaxVersion = 3
  Idle = Idle
  NoSession = NoSession
  NoLink = NoLink
  NoBrowser = NoBrowser
SPECIFICATION Spec
INVARIANTS AccountInv OutsidersLockedOut CharacterLimit
PROPERTIES ResetIsCurrent ChangeIsAuthorised
SYMMETRY Symmetric
CHECK_DEADLOCK FALSE
