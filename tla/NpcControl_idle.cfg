SPECIFICATION FairSpec
CONSTANTS
  u1 = u1  u2 = u2  n1 = n1  n2 = n2  n3 = n3
  Users = {u1}
  Ops = {"get"}
  Clients = {n1}
  Nobody = Nobody
  MaxCalls = 1
PROPERTY
  IdleIsDisconnected
