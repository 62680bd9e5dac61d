SPECIFICATION FairSpec
CONSTANTS
  Writers = {w1,w2}
  Calls = {"headers", "fused"}
  FlushBytes = 3
PROPERTIES SendsReturn
CHECK_DEADLOCK FALSE
