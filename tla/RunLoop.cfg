SPECIFICATION Spec
CONSTANTS
  None = None
  h1 = h1
  h2 = h2
  h3 = h3
  c1 = c1
  c2 = c2
  l1 = l1
  l2 = l2
  l3 = l3
  r1 = r1
  Handlers = {h1, h2}
  Lines = {l1, l2}
  Remotes = {r1}
  Calls = {c1, c2}
  MaxContinuations = 1
  BusyRetries = 1
  MaxStops = 1
CHECK_DEADLOCK FALSE
CONSTRAINT Small
SYMMETRY Symmetry
INVARIANTS
  TypeOK
  ResultsKept
  StopHolds
  AnswersAreCarried
  QueueDrains

  
