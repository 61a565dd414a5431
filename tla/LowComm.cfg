SPECIFICATION FairSpec
CONSTANTS
  p1 = p1
  p2 = p2
  p3 = p3
  Proc = {p1, p2, p3}
  Exceptions = {1}
  MaxCalls = 2
  LatePhases = {1}
  Raising = {1}
  RecvFails = {1}
  Room <- ScarceRoom
  MaxMsgs = 4
INVARIANTS BuffersInv OneBufferIsEnough AnnouncedIsReceived
PROPERTIES PhaseReturns
CHECK_DEADLOCK FALSE
