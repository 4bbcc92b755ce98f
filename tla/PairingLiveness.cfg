CONSTANTS
  t1 = t1
  t2 = t2
  b1 = b1
  b2 = b2
  u1 = u1
  k1 = k1
  k2 = k2
  c1 = c1
  c2 = c2
  Terminals = {t1, t2}
  Browsers = {b1}
  Users = {u1}
  Tokens = {k1, k2}
  Codes = {c1}
  MaxVersion = 1
  NoTerminal = NoTerminal
  NoUser = NoUser
  NoToken = NoToken
  NoCode = NoCode
SPECIFICATION FairSpec
PROPERTIES LinkSignsIn
CHECK_DEADLOCK FALSE
