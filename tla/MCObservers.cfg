CONSTANTS
  a = a
  IPs = {a}
  CPUs = {c1}
  WhitelistTTL = 2
  UdpPeriod = 2
  UdpBurst = 1
  InitconnectPeriod = 2
  InitconnectBurst = 1
  GetinfoPeriod = 2
  GetinfoBurst = 1
  TcpGlobalPeriod = 0
  TcpGlobalBurst = 1
  TcpMaxOpenPerIP = 1
  HealthWindow = 1
  HealthThreshold = 2
  HealthBlacklist = 2
  DropHistoryEnabled = TRUE
  Evictable = {}
  MaxTime = 3
  MaxPerTick = 2
  MaxBacklog = 1
SPECIFICATION OSpec
VIEW View
INVARIANTS
  BlacklistJustified
  BlacklistComplete
  PacketsAddUp
  RequestsAccountedFor
  HistoryExplainsDrops
PROPERTIES
  BlacklistRunsItsTime
CHECK_DEADLOCK FALSE
