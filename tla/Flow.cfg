SPECIFICATION FlowSpec
CONSTANTS
  Streams = {s1, s2}
  MaxWindow = 5
  ConnInitial = 3
  Initials = {1, 4, 6}
  Increments = {2}
  Body = 2
  FrameSize = 1
  PadOverhead = 1
  MaxEvents = 2
  Free = Free
  Downloads = {d1, d2}
  FrameSizes = {1, 4}
  ConnWindow = 4
  RefundThreshold = 3
  InitialWindow = 2
  StaticConnWindow = 6
  AutoTune = TRUE
  MaxRecvWindow = 5
  MinProbe = 1
  MaxProbe = 2
  MaxData = 4
  NRequests = 2
  BodyReads = 1
INVARIANTS
  CreditExact ParkedIsJustified  TimeoutIsOwn
PROPERTIES
  CloseEndsSends CallsEnd
CHECK_DEADLOCK FALSE
