CONSTANTS
  a = a
  c1 = c1
  c2 = c2
  NoBucket = NoBucket
  Client = a
  Core = c1
  IPs = {a}
  CPUs = {c1, c2}
  WhitelistTTL = 5
  UdpPeriod = 2
  UdpBurst = 2
  InitconnectPeriod = 3
  InitconnectBurst = 1
  GetinfoPeriod = 0
  GetinfoBurst = 0
  TcpGlobalPeriod = 1
  TcpGlobalBurst = 2
  TcpMaxOpenPerIP = 0
  HealthWindow = 1
  HealthThreshold = 1
  HealthBlacklist = 0
  DropHistoryEnabled = FALSE
  Evictable = {"udp_ratelimit"}
  MaxTime = 5
  MaxPerTick = 3
  MaxBacklog = 1
SPECIFICATION Spec
VIEW View
PROPERTIES
  PlayersReconnect
CHECK_DEADLOCK FALSE
