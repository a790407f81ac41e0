SPECIFICATION Spec
CONSTANTS
  None = None
  k1 = k1
  k2 = k2
  c1 = c1
  TaskIds = {k1, k2}
  Cards = {}
  RunningCap = 1
  MaxContinuations = 1
  MaxBus = 2
  NoApi = FALSE
  MaxReloads = 0
CHECK_DEADLOCK FALSE
INVARIANT KilledIsEnded
