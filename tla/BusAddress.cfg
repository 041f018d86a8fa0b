SPECIFICATION Spec
CONSTANTS
  k1 = k1
  e2 = e2
  u0 = u0
  Modules <- MCModules
  ChanOf <- SharedChanOf
  KindOf <- MCKindOf
  NumCh = 1
  Addrs = {1, 2, 3}
  V2Addrs = {1, 2, 3}
  NumEnc = 1
  Threshold = 2
  ErrMax = 3
  RescanOnError = TRUE
  MaxFaults = 1
  MaxChanges = 1
  NoChannel = NoChannel
  Free = Free
PROPERTY UpdateKeepsAddressesApart
