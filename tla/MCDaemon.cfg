CONSTANTS
  k1 = k1
  k2 = k2
  k3 = k3
  Keys = {k1, k2, k3}
  Hash <- MCHash
  NoKey = NoKey
  MaxChurn = 2
  MaxHandlers = 1
SPECIFICATION Spec
INVARIANTS
  TypeOK
  ClearLeavesOnlyNewer
  TickerMapsOpen
PROPERTIES
  CountCoversStayers
  ShutdownCompletes
  ClearReturns
  GaugeCatchesUp
CHECK_DEADLOCK FALSE
