SPECIFICATION DnsSpec
CONSTANTS
  Callers = {"a", "b", "c"}
  Domains = {"corp"}
  Zone <- MCZone
  V4Ips = {"4a"}
  Permits = 2
  Ttl = 1
  QueryTime = 1
  MaxTime = 3
PROPERTIES
  AnswersRecent
  CallsReturn
