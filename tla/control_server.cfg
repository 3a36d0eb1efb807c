SPECIFICATION ControlSpec
CONSTANTS
  Capacity = 1
  Invalid = {1}
  Connections = {"cli", "other"}
  WatchdogUsec = 0
  MaxSignals = 0
  MaxEdits = 1
  Servers = {"s"}
  Foreign = {"other"}
  Careless = FALSE
INVARIANTS
  ServerTypeOK
  SocketFollows
PROPERTIES
  StopReturns
  Served
