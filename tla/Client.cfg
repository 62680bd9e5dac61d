SPECIFICATION ClientSpec
CONSTANTS
  Callers = {k1, k2}
  Addrs = {a1}
  Subs = {s1, s2, s3}
  NoSub = NoSub
  NoAddr = NoAddr
  DrainMode = "graceful"
  MaxUpdates = 2
  MaxAttempts = 2
  MaxData = 2
  MaxBody = 1
  Openers = {o1, o2}
  Links = {1, 2}
  Protocols = {"h1", "h2", "h3", "alpn"}
  MaxCalls = 3
  Responses <- MCResponses
  MaxChunk = 3
  MaxMessage = 1
  RpcEvents = 2
  MaxFrames = 3
  Senders = {g1, g2}
  Pieces = 2
INVARIANTS
  NothingIsKept OneAttemptsAnswer SingleConnSound  
PROPERTIES
  LiveAddressKept DrainEnds CloseWakesReader
CHECK_DEADLOCK FALSE
