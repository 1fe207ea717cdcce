CONSTANTS
  Calls = {c1, c2, c3}
  failureThreshold = 2
  recoveryTimeout = 2
SPECIFICATION FairSpec
INVARIANT TypeOK
INVARIANT ClosedBelowThreshold
PROPERTY StaysQuiet
PROPERTY OpenIsLeft
PROPERTY HalfOpenIsLeft
