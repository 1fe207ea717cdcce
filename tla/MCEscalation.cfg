CONSTANTS
  Ids = {i1}
  Clients = {c1}
  Workers = {w1, w2}
  AutoKeys = {k1, k2, k3, k4}
  Staffed <- AllLevels
  Hits = FALSE
  MaxCalls = 1
  MaxFaults = 1
  Users = {helper}
  NoUser = nobody
  Texts = {none}
  NoText = none
  Absent = Absent
  failureThreshold = 1
  recoveryTimeout = 1
SYMMETRY Symmetry
SPECIFICATION Spec
INVARIANT TypeOK
INVARIANT WorkersHoldTheirJobs
INVARIANT LadderOrder
INVARIANT EmissionsBounded
CHECK_DEADLOCK FALSE
