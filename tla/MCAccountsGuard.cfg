CONSTANTS
  Ids = {a, u, v}
  Emails = {e1, e2}
  Passwords = {p1, p2}
  e1 = e1
  e2 = e2
  p1 = p1
  p2 = p2
  Roles <- MCRoles
  Requests = {r1, r2}
  Creates <- MCCreates
  Updates <- MCUpdates
  FirstUser = a
  FirstRow <- MCFirstRow
  RoleNames = FALSE
  Absent = Absent
SPECIFICATION Spec
INVARIANT AdminsServed
