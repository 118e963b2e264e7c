SPECIFICATION Spec
CONSTANTS
  h1 = h1
  h2 = h2
  u1 = u1
  u2 = u2
  t1 = t1
  t2 = t2
  Handlers = {h1, h2}
  Users = {u1, u2}
  Admin = Admin
  Tokens = {t1, t2}
  MaxSessions = 1
  MaxId = 2
  None = None
  Faults = {"db", "crash"}
SYMMETRY Perms
INVARIANTS
  SessionsAreCurrent
  SessionsHaveAccounts
PROPERTIES
  EndsForACause
  FullOfLiveSessions
