SPECIFICATION FairSpec
CONSTANTS
  MaxValue = 3
  Divisors = {1, 2}
INVARIANTS
  TypeOK
  RapidTurnsAtDelta
PROPERTIES
  StillKeyStaysDown
  ReleasedKeyRests
