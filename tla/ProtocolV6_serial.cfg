SPECIFICATION Spec
CONSTANTS
  s1 = s1  k1 = k1  k2 = k2
  Senders = {s1}
  Nobody = Nobody
  NoKey = NoKey
  MaxChecksum = 3
  HeaderLength = 2
  Packets <- AllPackets
  Frames <- AllFrames
  MaxFrames = 5
  MaxReplies = 3
INVARIANTS
  TypeOK
  IInv
  NumberedInOrder
  KeyInStep
  ReadsWhatWasSent
CHECK_DEADLOCK FALSE
