SPECIFICATION Spec
CONSTANTS
  Scenarios <- MCScenarios
  StreamWindow = 2
  ConnWindow = 1
  InitialCwnd = 2
  MinCwnd = 1
  PacketThreshold = 3
  MaxBackoff = 1
  MaxPN = 8
  MaxAckRanges = 3
  MaxSeq = 4
  ActiveCIDLimit = 2
  MaxPendingRetires = 4
  MaxKeyPN = 6
  SealLimit = 2
  Openers = {o1, o2}
  MaxLimit = 2
  Clients = {c1, c2}
  MaxRuns = 2
  Backlog = 1
  MaxFrames = 4
  ByteCap = 3
  InterimCap = 1
  Reqs = {r1, r2}
  MaxDynamic = 2
  MaxBlocked = 1
  TableMax = 2
  MaxInserts = 5
  MaxInstrs = 2
  MaxSections = 1
  Fields = {f1, f2, f3, s1}
  Secret = {s1}
  EncMax = 3
  OwnMax = 2
  MaxRequests = 2
INVARIANTS
  NothingForgotten TransferNeverStalls
  AckRangesExact CIDsInStep KeysFollow CreditReachesOpeners ListenerWindsDown
   AcksAddUp TablesInStep RequestsNeverBlock
CHECK_DEADLOCK FALSE
