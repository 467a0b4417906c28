SPECIFICATION Spec
CONSTANTS
  Formats <- SomeFormats
  Base = 6
  Ids = {0, 5}
  Payloads <- SomePayloads
  CompressAbove = 1
  MaxFrames = 3
INVARIANTS
  TypeOK
  NeverPanics
  ReadsFrames
CHECK_DEADLOCK FALSE
