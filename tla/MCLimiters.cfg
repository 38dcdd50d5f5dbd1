CONSTANTS
  a = a
  c1 = c1
  c2 = c2
  NoBucket = NoBucket
  Client = a
  Core = c1
  IPs = {a}
  CPUs = {c1, c2}
  WhitelistTTL <- MCWhitelistTTL
  UdpPeriod <- MCUdpPeriod
  UdpBurst <- MCUdpBurst
  InitconnectPeriod <- MCInitconnectPeriod
  InitconnectBurst <- MCInitconnectBurst
  GetinfoPeriod <- MCGetinfoPeriod
  GetinfoBurst <- MCGetinfoBurst
  TcpGlobalPeriod <- MCTcpGlobalPeriod
  TcpGlobalBurst <- MCTcpGlobalBurst
  TcpMaxOpenPerIP <- MCTcpMaxOpenPerIP
  HealthWindow <- MCHealthWindow
  HealthThreshold <- MCHealthThreshold
  HealthBlacklist <- MCHealthBlacklist
  DropHistoryEnabled <- MCDropHistoryEnabled
  Evictable = {"udp_ratelimit"}
  MaxTime = 4
  MaxPerTick = 3
  MaxBacklog = 1
SPECIFICATION Spec
VIEW View
PROPERTIES
  UdpLimiterRefines
  InitconnectLimiterRefines
  GlobalLimiterRefines
CHECK_DEADLOCK FALSE
