CONSTANTS
  CPUs = {c1, c2, c3}
  Sockets = {s1, s2, s3, s4, s5}
  NoEntry = NoEntry
  MaxCount = 4
SPECIFICATION Spec
SYMMETRY Symmetry
INVARIANTS
  TypeOK
  LoadAllOrNothing
  CountNeverOver
  CountBarelyBelowZero
  UndercountBounded
