SPECIFICATION FairSpec
CONSTANTS
  u1 = u1  u2 = u2  c1 = c1  q1 = q1
  Users = {u1, u2}
  Reader = Reader
  Nobody = Nobody
  Callbacks = {}
  Ids = {q1}
  ReqId <- OneId
  EventIds = {}
  Ops <- Rivals
  MaxHandlers = 0
  MaxCalls <- OneCall
  MaxInbound = 1
  MaxEvents = 1
PROPERTIES
  EveryCallReturns
  ReaderStops
  HandlerCalled
  DeadReaderNoticed
  DroppedEndsSession
  KeepsPromise
