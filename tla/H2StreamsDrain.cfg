SPECIFICATION StreamsSpec
CONSTANTS
  Requests = {r1, r2}
  Structs = {s1}
  MaxStreams = 1
  EventBuf = 1
  MaxFaults = 1
  None = None
INVARIANT DrainWakes
CHECK_DEADLOCK FALSE
