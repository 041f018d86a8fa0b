SPECIFICATION FairSpec
CONSTANTS
  k1 = k1
  e2 = e2
  u0 = u0
  Modules <- TwoModules
  ChanOf <- TwoChanOf
  KindOf <- TwoKindOf
  NumCh = 2
  Addrs = {1}
  V2Addrs = {1}
  NumEnc = 1
  Threshold = 2
  ErrMax = 2
  RescanOnError = TRUE
  MaxFaults = 1
  MaxChanges = 2
  NoChannel = NoChannel
  Free = Free
PROPERTIES
  KeysReleaseAfterUnplug
  DeadDeviceIsDropped
  PassCompletes
