SPECIFICATION FairSpec
CONSTANTS
  Kinds = {"rc", "game"}
  Enders = {"caller"}
  ConnectFails = FALSE
  MaxSessions = 3
PROPERTY
  Reconnects
CHECK_DEADLOCK FALSE
