CONSTANTS
  i1 = i1
  i2 = i2
  p1 = p1
  creator = creator
  helper = helper
  boss = boss
  stranger = stranger
  nobody = nobody
  none = none
  text = text
  Absent = Absent
  NoUser = nobody
  NoText = none
  Users <- MCUsers
  Texts <- MCTexts
  Ids = {i1}
  Requests = {r1, r2}
  Calls <- MixedCalls
  KnownUsers <- MCKnownUsers
  Leads = {boss}
  Admins = {boss}
  Existing <- MCExisting
  Stores = {p1}
  StoreOf <- OneStore
  Serial = TRUE
  Faults = {}
  Hydrates = FALSE
SPECIFICATION Spec
INVARIANT CachedIncidentUsable
