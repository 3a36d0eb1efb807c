SPECIFICATION SignalSpec
CONSTANTS
  Capacity = 2
  Futures = {"future"}
  MaxSent = 4
PROPERTIES
  NoneSkipped
  WaitsReturn
CHECK_DEADLOCK FALSE
