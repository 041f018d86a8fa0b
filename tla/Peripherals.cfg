SPECIFICATION PartsSpec
CONSTANTS
  TbSlots = {1, 2, 3}
  PairOf <- MCPairOf
  Wanted <- MCWanted
  Fallback <- MCFallback
  Lengths = {0, 1}
  Span = 4
  MaxMisreads = 2
  NumBalls = 2
  Speeds = {1, 3, 4}
  Strides = {0, 7, 2896}
  Sessions <- MCSessions
  HostValues = {0, 1, 4, 64, 360, 4096}
  Slots <- MCModuleSlots
  NumCh = 2
  MaxDevices = 3
  Cols = 5
  PerCh = 5
  ItemSize = 16
  PartSize = 25
  MaxItems = 60
  ReplyCounts = {0, 1, 2, 3, 14, 24, 25, 26, 37, 50, 59, 60, 61, 75}
  ScanPeriod = 3
  ClockSpan = 11
  MaxGap = 5
  Layers = {0, 21}
  Randoms = {6, 15}
  GaugeValues = {0, 200, 3551}
INVARIANTS
  PartsTypeOK
  AwakeAsConfigured
  DueWhenIdle
  EventsFollowShaft
  ReadsBackAsAsked
  RestartChangesNothing
  RowIsExact
  LookupsAgree
  ReplyIsWhole
  PageIsRight
PROPERTIES
  SleepsWhenIdle
  WiresServeSensors
  RestingKeepsCount
  ScrollFollowsBalls
  ScanIsSteady
CHECK_DEADLOCK FALSE
