CONSTANTS
  Throwables = {e1, e2}
  None = None
  MaxDepth = 7
SPECIFICATION Spec
INVARIANTS
  TypeOK
  NoCallWhilePending
  ExceptionTravels
  
PROPERTIES
  ReturnsMeanSettled
