SPECIFICATION FairSpec
CONSTANTS
  Calls = {c1, c2}
  Clients = {1, 2}
  k1 = k1
  k2 = k2
  u1 = u1
  u2 = u2
  Keys = {k1, k2}
  Users = {u1, u2}
  KeyUser <- MCKeyUser
  None = None
INVARIANTS TypeOK ChannelsOwned SettledAgree
PROPERTY ButtonReturns
CHECK_DEADLOCK FALSE
