CONSTANTS
  Period = 3
  Burst = 2
  MaxTime = 14
  MaxEvictions = 2
  NoBucket = NoBucket
SPECIFICATION TSpec
INVARIANTS
  TypeOK
  Sandwich
  NoFalseDrop
  AcceptedConforms
