CONSTANTS
  CPUs = {c1, c2}
  WhitelistTTL = 2
  Period = 2
  Burst = 2
  Wrap <- MCWrap
  NoBucket = NoBucket
  HealthWindow = 1
  HealthThreshold = 3
  HealthBlacklist = 2
  NoEntry = NoEntry
  MaxTime = 4
  MaxPackets = 5
SPECIFICATION Spec
PROPERTY OnlyTheQuietExpire
CHECK_DEADLOCK FALSE
