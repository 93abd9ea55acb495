CONSTANTS
  Objects = {o1, o2}
  Arrays = {a1}
  Maps = {m1}
  Ints <- MCInts
  Longs <- MCLongs
  Doubles <- MCDoubles
  Int32Bits = 3
  Mantissa = 8
  MaxItems = 2
SPECIFICATION Spec
SYMMETRY MCSymmetry
INVARIANTS
  OwnedOnce
  ReadBack
CHECK_DEADLOCK FALSE
