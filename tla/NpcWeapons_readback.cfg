SPECIFICATION Spec
CONSTANTS
  Names <- SomeNames
  Images <- SomeImages
  Scripts <- SomeScripts
  Bursts <- SomeBursts
  PackedSize <- SomePackedSize
  ServerIds <- SomeIds
  NoWeapon = NoWeapon
  MaxCalls = 3
  MaxUnasked = 1
INVARIANTS
  TypeOK
  OnePacket
  ReadBack
  ReadsWhatWasSent
CHECK_DEADLOCK FALSE
