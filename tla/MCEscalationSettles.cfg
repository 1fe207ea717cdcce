CONSTANTS
  Ids = {i1}
  Clients = {c1}
  Workers = {w1, w2}
  AutoKeys = {k1, k2, k3, k4}
  Staffed <- AllLevels
  Hits = FALSE
  MaxCalls = 0
  MaxFaults = 1
  Users = {}
  NoUser = nobody
  Texts = {none}
  NoText = none
  Absent = Absent
  failureThreshold = 1
  recoveryTimeout = 1
SPECIFICATION FairSpec
PROPERTY EveryJobSettles
CHECK_DEADLOCK FALSE
