CONSTANTS
  Schedules = {s1}
  Users = {u1, u2, u9}
  KnownUsers = {u1, u2}
  Requests = {r1, r2}
  Priorities = {1, 2}
  Types = {"daily", "weekly"}
  Dates = {0, 7}
  Day = 1
  Absent = Absent
  MaxNow = 8
  MaxAssignments = 2
  MaxRuns = 2
  MaxOverrides = 1
SYMMETRY Symmetry
SPECIFICATION Spec
INVARIANT TypeOK
INVARIANT CoveredOnce
INVARIANT NeverNobody
INVARIANT UnknownOnlyByOverride
INVARIANT TurnsShared
CHECK_DEADLOCK FALSE
