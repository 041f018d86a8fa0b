SPECIFICATION MixSpec
CONSTANTS
  v1 = v1
  v2 = v2
  Modules <- MixModules
  ChanOf <- MixChanOf
  KindOf <- MixKindOf
  NumCh = 2
  Addrs = {1, 2}
  V2Addrs = {1}
  NumEnc = 2
  Threshold = 2
  ErrMax = 2
  RescanOnError = TRUE
  MaxFaults = 0
  MaxChanges = 0
  NoChannel = NoChannel
  Free = Free
INVARIANT EncoderReadsIndexedOne
