SPECIFICATION Spec
CONSTANTS
  IndexMod = 4
  Ifaces = {"eth", "wl"}
  Ssids = {}
  NoSsid = "none"
  Names = {"viaEth", "viaWl", "corp", "home", "backup"}
  Dests = {"v4a", "v4b", "v6"}
  V4Dests = {"v4a", "v4b"}
  Unresolved = "unresolved"
  Rules <- MCRules
  Configs <- InterfaceConfigs
  BaseTables = {1, 3}
  V6TableStart = 6
  MaxTableId = 8
  MaxInterfaces = 2
  MissingRule = 2
  MissingRoute = 3
  ControlAttached = FALSE
  NmAttached = FALSE
  CliDryRun = {FALSE}
  MaxFaults = 0
  MaxDrops = 0
INVARIANT
  UniqueIndices
