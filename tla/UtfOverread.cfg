CONSTANTS
  Sample8 = {65}
  Sample16 = {65, 55296, 56320}
  Sample32 = {65}
  MaxLen = 2
SPECIFICATION CrossSpec
INVARIANT StopsAtTheEnd
CHECK_DEADLOCK FALSE
