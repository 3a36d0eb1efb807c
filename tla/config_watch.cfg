SPECIFICATION ConfigSpec
CONSTANTS
  Files <- SomeFiles
  Toml <- MCToml
  Domains <- MCDomains
  Watchers = {1, 2}
  Capacity = 1
  FreshTimes = TRUE
  MaxTime = 3
INVARIANTS
  ConfigTypeOK
  PatternsInEffectMean
PROPERTIES
  EditsArrive
