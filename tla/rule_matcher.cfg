SPECIFICATION MatcherSpec
CONSTANTS
  Callers = {"a"}
  Domains <- MCDomains
  Zone <- MCZone
  V4Ips = {"4a", "4b"}
  Permits = 1
  Ttl = 0
  QueryTime = 1
  MaxTime = 2
  RouteRules <- MCRouteRules
  MaxRules = 2
  MaxPriority = 2
INVARIANTS
  MatcherTypeOK
  FirstBest
  AllInOrder
PROPERTY
  AnswersFit
