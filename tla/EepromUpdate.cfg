SPECIFICATION FairSpec
CONSTANTS
  Top = 4
  Byte = {0, 1}
  BufSize = 2
CHECK_DEADLOCK FALSE
INVARIANTS
  UpdateIsExact
  OneChunkTorn
PROPERTY Returns
