SPECIFICATION Spec
CONSTANTS
  Capacity = 2
  Invalid = {1}
  Connections = {}
  WatchdogUsec = 30000000
  MaxSignals = 4
  MaxEdits = 2
INVARIANTS
  DaemonTypeOK
  ToldTruth
  ConfigsAgree
PROPERTIES
  KeepaliveSent
  ConfigForward
  QueuedShutdownStops
  QueuedReloadApplies
