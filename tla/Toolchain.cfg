SPECIFICATION Spec
CONSTANTS
  p = p
  q = q
  r = r
  Endless = {r}
  Source <- Programs
  Request <- Requests
  None = none
  MAX_ROOTS = 1
  MaxHeld = 2
  MaxInits = 2
  Word = 8
INVARIANTS
  ExeAsRequested
  CountsAsLinked
  CrashesExplained
  PeakCovers
PROPERTY
  InvocationEnds
