SPECIFICATION Spec
CONSTANTS
  k1 = k1
  e2 = e2
  u0 = u0
  Modules <- MCModules
  ChanOf <- MCChanOf
  KindOf <- EncKindOf
  NumCh = 2
  Addrs = {1, 2}
  V2Addrs = {1, 2}
  NumEnc = 2
  Threshold = 2
  ErrMax = 3
  RescanOnError = TRUE
  MaxFaults = 2
  MaxChanges = 1
  NoChannel = NoChannel
  Free = Free
INVARIANTS
  TypeOK
  ReadsReachOwnModule
  ListedWhereMet
  CleanScanIsExact
  ErrorsAreFaults
  EncodersInOrder
