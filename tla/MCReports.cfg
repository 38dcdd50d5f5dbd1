CONSTANTS
  k1 = k1
  k2 = k2
  k3 = k3
  Keys = {k1, k2, k3}
  Hash <- MCHash
  NoKey = NoKey
  Reasons = {r1, r2}
  AnyReason = AnyReason
  Second = 2
  Wrap = 64
  HealthWindow = 1
  HealthThreshold = 2
  HealthBlacklist = 2
  Burst = 2
  MaxEntries = 3
  Start = 2
  MaxTime = 3
  MaxRows = 2
  MaxChanges = 2
  NumCPUs = 2
  MaxRequests = 2
SPECIFICATION Spec
SYMMETRY Symmetry
INVARIANTS
  ReportComplete
  RowsTrue
  TopMissesNoHotter
  CountersReadTogether
CHECK_DEADLOCK FALSE
