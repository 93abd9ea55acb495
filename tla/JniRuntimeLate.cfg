CONSTANTS
  Classes = {c1, c2}
  Objects = {o1}
  Threads = {main, t1}
  Loader = main
  NoRef = NoRef
SPECIFICATION Spec
INVARIANTS
  UsedIsInitialised
CHECK_DEADLOCK FALSE
