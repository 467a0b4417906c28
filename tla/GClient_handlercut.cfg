SPECIFICATION Spec
CONSTANTS
  u1 = u1  u2 = u2  c1 = c1  q1 = q1
  Users = {u1}
  Reader = Reader
  Nobody = Nobody
  Callbacks = {}
  Ids = {q1}
  ReqId <- OneId
  EventIds = {}
  Ops <- NoWait
  MaxHandlers = 0
  MaxCalls <- OneCall
  MaxInbound = 1
  MaxEvents = 0
INVARIANT
  HandlerCompletes
