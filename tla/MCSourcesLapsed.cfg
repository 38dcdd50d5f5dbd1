CONSTANTS
  a = a
  b = b
  IPs = {a}
  CPUs = {c1}
  WhitelistTTL = 1
  UdpPeriod = 0
  UdpBurst = 0
  InitconnectPeriod = 2
  InitconnectBurst = 1
  GetinfoPeriod = 0
  GetinfoBurst = 1
  TcpGlobalPeriod = 1
  TcpGlobalBurst = 3
  TcpMaxOpenPerIP = 1
  HealthWindow = 2
  HealthThreshold = 2
  HealthBlacklist = 0
  DropHistoryEnabled = FALSE
  Evictable = {"tcp_whitelist", "tcp_established", "tcp_open_count"}
  MaxTime = 3
  MaxPerTick = 3
  MaxBacklog = 2
SPECIFICATION HSpec
VIEW View
INVARIANT LapsedMustReconnect
CHECK_DEADLOCK FALSE
