CONSTANTS
  Ids = {i1}
  Clients = {c1}
  Workers = {w1}
  AutoKeys = {k1, k2}
  Staffed <- NoLevel
  Hits = FALSE
  MaxCalls = 1
  MaxFaults = 0
  Users = {helper}
  NoUser = nobody
  Texts = {none}
  NoText = none
  Absent = Absent
  failureThreshold = 1
  recoveryTimeout = 1
SPECIFICATION Spec
PROPERTY AcknowledgedNotEscalated
CHECK_DEADLOCK FALSE
