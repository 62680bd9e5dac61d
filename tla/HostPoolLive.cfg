SPECIFICATION LiveSpec
CONSTANTS
  Callers = {k1, k2}
  Conns = {c1, c2}
  NoConn = NoConn
  MaxConnsPerHost = 1
  MaxStreamsPerConn = 1
  DefaultStreams = 2
  PeerCaps = {0}
  MaxLosses = 1
CHECK_DEADLOCK FALSE
PROPERTIES
  AcquireEnds CloseReleasesAll
