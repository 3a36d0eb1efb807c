SPECIFICATION Spec
CONSTANTS
  IndexMod = 4
  Ifaces = {"eth", "wl"}
  Ssids = {"Corp"}
  NoSsid = "none"
  Names = {"viaEth", "viaWl", "domain", "corp"}
  Dests = {"v4a", "v4b", "v6"}
  V4Dests = {"v4a", "v4b"}
  Unresolved = "unresolved"
  Rules <- MCRules
  Configs <- WifiConfigs
  BaseTables = {1}
  V6TableStart = 5
  MaxTableId = 8
  MaxInterfaces = 2
  MissingRule = 2
  MissingRoute = 3
  ControlAttached = TRUE
  NmAttached = TRUE
  CliDryRun = {FALSE, TRUE}
  MaxFaults = 0
  MaxDrops = 0
INVARIANTS
  CleanSlate
  DownCleans
PROPERTY
  DryRunPure
