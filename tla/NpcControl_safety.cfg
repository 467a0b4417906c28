SPECIFICATION Spec
CONSTANTS
  u1 = u1  u2 = u2  n1 = n1  n2 = n2  n3 = n3
  Users = {u1, u2}
  Ops = {"get", "add"}
  Clients = {n1, n2, n3}
  Nobody = Nobody
  MaxCalls = 2
SYMMETRY Symmetric
INVARIANTS
  IInv
  FailedNeverServed
  UsesLoggedIn
PROPERTY
  NeverReplaced
