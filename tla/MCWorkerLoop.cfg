SPECIFICATION FairSpec
CONSTANTS
  None = None
  Handlers = {h1, h2}
  Loops = {l1, l2, l3}
  MaxRequests = 4
INVARIANTS OneLoop StopIsFinal
PROPERTIES LoopEndsSignedOut
CHECK_DEADLOCK FALSE
