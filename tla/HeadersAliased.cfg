SPECIFICATION PathSpec
CONSTANTS
  Writers = {w1, w2, w3}
  Calls = {"headers", "fused", "batch", "control", "data"}
  FlushBytes = 3
  Static <- MCStatic
  Size <- MCSize
  Hash <- MCHash
  Blocks <- MCAliasedBlocks
  CallerLimit = 3
  MaxLocal = 3
  NStreams = 1
  MaxBlocks = 3
  MaxInterim = 1
  MaxPushed = 1
  Resizes = 1
INVARIANT FieldsArriveAsSent
CHECK_DEADLOCK FALSE
