SPECIFICATION Spec
CONSTANTS
  r1 = r1
  r2 = r2
  u1 = u1
  u2 = u2
  t1 = t1
  t2 = t2
  ann = ann
  bob = bob
  x = x
  y = y
  z = z
  Requests = {r1, r2}
  Users = {u1, u2}
  Telegrams = {t1, t2}
  FirstNames = {ann, bob}
  Usernames = {x, y, z}
  Inputs <- MCInputs
  Start <- MCStart
  Identities <- MCIdentities
  MaxEdits = 1
  None = None
CHECK_DEADLOCK FALSE
INVARIANT NewUsersAreCreated
