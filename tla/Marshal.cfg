CONSTANTS
  Samples <- MCSamples
  Half = 4
  Scale = 2
  Null = Null
  MaxSize = 2
  MaxChanges = 2
SPECIFICATION Spec
INVARIANTS
  UndisturbedIsExact
  NothingInvented
  RoundTrip
  RefsBounded
CHECK_DEADLOCK FALSE
