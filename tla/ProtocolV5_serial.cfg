SPECIFICATION Spec
CONSTANTS
  s1 = s1  s2 = s2  k1 = k1  k2 = k2  unk = unk
  Senders = {s1}
  LoginTask = s1
  Nobody = Nobody
  Sizes <- Sizes3
  Types = {"none", "zlib", "other", "empty"}
  Contents <- AFew
  Known = {k1, k2}
  MaxFrames = 3
  MaxReplies = 2
INVARIANTS
  IInv
  ServerCanRead
  ReadsWhatWasSent
CHECK_DEADLOCK FALSE
