SPECIFICATION Spec
CONSTANTS
  s1 = s1  s2 = s2  k1 = k1  k2 = k2  unk = unk
  Senders = {s1, s2}
  LoginTask = s1
  Nobody = Nobody
  Sizes = {3}
  Types = {}
  Contents = {}
  Known = {k1, k2}
  MaxFrames = 3
  MaxReplies = 0
INVARIANT
  KeystreamInOrder
CHECK_DEADLOCK FALSE
