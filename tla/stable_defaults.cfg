SPECIFICATION Spec
CONSTANTS
  IndexMod = 2
  Ifaces = {"eth", "wl"}
  Ssids = {}
  NoSsid = "none"
  Names = {"viaEth", "viaWl", "domain", "corp"}
  Dests = {"v4a", "v4b", "v6"}
  V4Dests = {"v4a", "v4b"}
  Unresolved = "unresolved"
  Rules <- MCRules
  Configs <- DefaultConfigs
  BaseTables = {1}
  V6TableStart = 5
  MaxTableId = 8
  MaxInterfaces = 2
  MissingRule = 2
  MissingRoute = 3
  ControlAttached = FALSE
  NmAttached = FALSE
  CliDryRun = {FALSE}
  MaxFaults = 1
  MaxDrops = 1
INVARIANTS
  TypeOK
  RoutesTracked
  DefaultRouteOnce
  PoliciesTracked
  UpInstalls
PROPERTIES
  RemovesOwnRoute
  RulesManaged
