CONSTANTS
  Sample8 = {65, 128, 159, 160, 191, 193, 195, 224, 237, 240, 244, 248}
  Sample16 = {65, 55296, 56320, 56319, 57343, 65533}
  Sample32 = {65, 233, 8364, 55296, 65536, 1114111, 1114112}
  MaxLen = 4
SPECIFICATION CrossSpec
INVARIANTS
  TypeOK
  TextSurvives
  NativeTextIsValid
  JavaTextIsValid
  ReserveSuffices
PROPERTY NothingSwallowed
CHECK_DEADLOCK FALSE
