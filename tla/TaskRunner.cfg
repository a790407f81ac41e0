SPECIFICATION FairSpec
CONSTANTS
  None = None
  k1 = k1
  k2 = k2
  c1 = c1
  TaskIds = {k1, k2}
  Cards = {c1}
  RunningCap = 1
  MaxContinuations = 1
  MaxBus = 1
  NoApi = TRUE
  MaxReloads = 1
CHECK_DEADLOCK FALSE
INVARIANTS
  TypeOK
  SweepSparesOurs
  DoneLeavesNothing
PROPERTIES
  QueuedMovesOn
