SPECIFICATION Spec
CONSTANTS
  None = None
  h1 = h1
  h2 = h2
  h3 = h3
  c1 = c1
  c2 = c2
  l1 = l1
  l2 = l2
  l3 = l3
  r1 = r1
  Handlers = {h1}
  Lines = {l1, l2}
  Remotes = {}
  Calls = {c1}
  MaxContinuations = 0
  BusyRetries = 1
  MaxStops = 0
CHECK_DEADLOCK FALSE
SYMMETRY Symmetry
INVARIANT NoneUnasked
