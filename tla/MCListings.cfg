CONSTANTS
  MaxId = 2
  MaxWrites = 4
  MaxEntries = 2
  Readers = {r1}
  Lists <- MCLists
  Targets = {"acknowledged"}
  defaultLimit = 1
  statsLimit = 1
  ListTtl = 2
  StatsTtl = 1
  Users = {}
  NoUser = NoUser
  Texts = {none}
  NoText = none
  Absent = Absent
SPECIFICATION FairSpec
INVARIANT TypeOK
INVARIANT ServedToTheRightQuery
INVARIANT RowsMatchTotal
PROPERTY FinalStateShows
