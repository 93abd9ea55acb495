CONSTANTS
  Classes = {c1, c2, c3}
  Objects = {o1}
  Threads = {main, t1, t2}
  Loader = main
  NoRef = NoRef
SPECIFICATION Spec
INVARIANTS
  TypeOK
  NoClassRefLeaks
PROPERTIES
  LeaksOnlyAtTheEnd
SYMMETRY Symmetry
CHECK_DEADLOCK FALSE
