CONSTANTS
  Connections = {c1, c2}
  Requests = {r1, r2, r3}
  None = None
  MaxHandlers = 1
  failureThreshold = 1
  recoveryTimeout = 1
SPECIFICATION FairSpec
INVARIANT TypeOK
INVARIANT ConnectionsAccounted
INVARIANT NothingRefused
PROPERTY EveryRequestEnds
