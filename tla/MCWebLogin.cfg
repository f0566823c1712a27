SPECIFICATION WebSpec
CONSTRAINT MCBound
CONSTANTS
  Nil = Nil
  m = m
  M = M
  g = g
  p = p
  q = q
  short = short
  anna = anna
  ben = ben
  home = home
  away = away
  blank = blank
  UserIds = {anna, ben}
  Texts = {m, M, blank}
  Trim <- MCTrim
  Lower <- MCLower
  Blank = blank
  Passwords = {p, q, short}
  Weak = {short}
  Subjects = {g}
  Clients = {home, away}
  Calls = {k1, k2}
  TTL = 1
  MaxTime = 1
  AllowDevLogin = TRUE
  Browser = home
  Attempts <- MCAttempts
  Endpoints = {e1, e2}
  Toggles = {t1, t2}
  Browsing = FALSE
SYMMETRY MCSymmetry
INVARIANT LoginReachesGroups
