SPECIFICATION ExchangesSpec
CONSTANTS
  Requests = {r1, r2}
  Structs = {p1}
  MaxStreams = 1
  EventBuf = 1
  MaxFaults = 1
  None = None
  Callers = {k1, k2}
  Conns = {c1, c2}
  NoConn = NoConn
  MaxConnsPerHost = 1
  MaxSpoils = 1
  Answers <- MCAnswers
  Lengths = {1}
  Trailers <- MCTrailers
  Methods = {"GET", "HEAD", "POST"}
  Uploads = {"POST"}
  MaxExchanges = 2
  MaxInterim = 1
  AbandonsChunked = FALSE
SYMMETRY Symmetric
INVARIANTS
  SlotsExact  EndIsVisible NobodyStranded 
PROPERTIES
  ExclusiveCheckout
CHECK_DEADLOCK FALSE
