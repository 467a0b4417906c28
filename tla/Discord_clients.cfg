SPECIFICATION DFairSpec
CONSTANTS
  Kinds = {"rc", "game"}
  Enders = {"reader", "caller"}
  ConnectFails = TRUE
  MaxSessions = 3
  Commands = {c1}
  Readies = {r1}
  MaxReadies = 2
  RcClients = 2
  GameClients = 1
  MaxEvents = 1
INVARIANTS
  OneConnection
  SuccessIsLoggedIn
  DInv
  AnswerTellsReach
  ReportedPerReady
  EarlyOnReplacement
PROPERTIES
  HandlerTries
  CommandsEnd
CHECK_DEADLOCK FALSE
