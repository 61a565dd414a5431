SPECIFICATION FairSpec
CONSTANTS
  N = 4
  Exceptions = {1, 2}
  MaxCalls = 2
  MaxEvents = 2
INVARIANTS Barrier WaveInv
PROPERTIES ImplementsGlobalNotify NotifyReturns
CHECK_DEADLOCK FALSE
