SPECIFICATION FairGateSpec
CONSTANTS
  a1 = a1
  c1 = c1
  c2 = c2
  Cards = {a1}
  Legacy = {}
  Callers = {c1, c2}
  Options <- MCOptions
  Tokens <- MCTokens
  Ttl = 1
  Start = 1
  MaxTime = 2
INVARIANTS
  OneTrueRecord
  PolicyStillAllows
  RunsAtMostOnce
  FreshYes
PROPERTIES
  GateKeepsConsent
  LockGivenBack
