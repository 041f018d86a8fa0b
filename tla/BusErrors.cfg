SPECIFICATION StreakSpec
CONSTANTS
  k1 = k1
  Modules <- OneModule
  ChanOf <- OneChanOf
  KindOf <- OneKindOf
  NumCh = 1
  Addrs = {1}
  V2Addrs = {1}
  NumEnc = 0
  Threshold = 2
  ErrMax = 2
  RescanOnError = TRUE
  MaxFaults = 2
  MaxChanges = 0
  NoChannel = NoChannel
  Free = Free
PROPERTY RescanAfterConsecutiveErrors
