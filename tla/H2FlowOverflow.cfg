SPECIFICATION SendSpec
CONSTANTS
  Streams = {s1}
  MaxWindow = 5
  ConnInitial = 3
  Initials = {1, 4}
  Increments = {2}
  Body = 2
  FrameSize = 1
  PadOverhead = 1
  MaxEvents = 1
  Free = Free
INVARIANT ParkedSeesClose
CHECK_DEADLOCK FALSE
