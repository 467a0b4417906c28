SPECIFICATION Spec
CONSTANTS
  u1 = u1  u2 = u2  c1 = c1  q1 = q1
  Users = {u1, u2}
  Reader = Reader
  Nobody = Nobody
  Callbacks = {c1}
  Ids = {q1}
  ReqId <- OneId
  EventIds = {q1}
  Ops <- Busy
  MaxHandlers = 1
  MaxCalls <- TwoCalls
  MaxInbound = 1
  MaxEvents = 1
INVARIANTS
  IInv
  OldReaderStopped
  AnswerIsOwn
PROPERTIES
  HandlerOnce
  WaitEndsReader
  FailureEndsSession
