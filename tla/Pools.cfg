SPECIFICATION MCSpec
CONSTANTS
  Callers = {k1, k2}
  Conns = {c1, c2}
  NoConn = NoConn
  MaxConnsPerHost = 1
  MaxStreamsPerConn = 0
  DefaultStreams = 2
  PeerCaps = {0, 1}
  MaxLosses = 1
  Askers = {a1, a2}
  Quics = {q1, q2}
  MaxQuics = 1
  StreamCap = 1
  MaxTurns = 1
SYMMETRY Symmetric
CHECK_DEADLOCK FALSE
INVARIANTS
  SlotsMatchGrants H3PoolSound

   
