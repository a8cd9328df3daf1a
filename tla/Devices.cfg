SPECIFICATION DevicesSpec
CONSTANTS
  NumPkt = 3
  PktLen = 3
  MaxPacket = 5
  LooksLikeB <- MCLooksLikeB
  MaxLosses = 1
  Base = 2
  Digits = 4
  TIME2017 = 8
  LeapMonths = {12}
  DayLength = 3
  Start = 11
  MaxTicks = 2
  NumServers = 2
  Alive = {0, 1}
  MaxSockets = 2
  MaxSyncs = 2
  MaxRtc = 2
  MaxLine = 15
  IndexSpan = 8
  SentLen = 3
  MaxSentences = 5
  MaxLost = 2
  FirstDay = 1
  LastDay = 4383
  Moments = {0, 1, 25200}
  LenBase = 4
  MqttPackets <- MCPackets
  BufLens = {2, 4, 8, 40}
  Scans <- MCScans
  SsidLen <- MCSsidLen
  Hidden = "hidden"
INVARIANTS
  CountedOnce
  SamplesAreKept
  InStepAgain
  AheadByLeapDay
  DayNamed
  SocketsReturned
  SentencesParsed
  CalendarRight
  RoundTrip
  NetworksListedOnce
CHECK_DEADLOCK FALSE
