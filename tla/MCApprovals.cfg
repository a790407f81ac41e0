SPECIFICATION Spec
CONSTANTS
  a1 = a1
  a2 = a2
  c1 = c1
  c2 = c2
  Cards = {a1, a2}
  Legacy = {a1}
  Callers = {c1, c2}
  Options <- MCOptions
  Tokens <- MCTokens
  Ttl = 1
  Start = 2
  MaxTime = 3
SYMMETRY Symmetry
INVARIANTS
  TypeOK
  LegalTrails
  RowIsHead
  OneCallerTold
  NoLateAnswer
PROPERTIES
  ClosedIsFinal
  NoSilentChange
  KeepsConsent
