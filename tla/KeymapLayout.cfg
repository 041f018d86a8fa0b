SPECIFICATION Spec
CONSTANTS
  Slots <- MCSlots
  NumCh = 2
  MaxDevices = 6
  Cols = 8
  PerCh = 16
CHECK_DEADLOCK FALSE
INVARIANTS
  TypeOK
  SortIsRight
  PlacesFit
