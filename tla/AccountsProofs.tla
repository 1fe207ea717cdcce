---- MODULE AccountsProofs ----
(***************************************************************************)
(* Theorems about Accounts, for any number of concurrent requests.         *)
(*                                                                         *)
(* The invariant says of every request what it may rely on when it goes on *)
(* (TaskOK), and of every two what keeps them apart (Apart): transactions  *)
(* that have written hold different addresses, creates different           *)
(* identifiers, updates different rows.                                    *)
(***************************************************************************)
EXTENDS Accounts, TLAPS

Creating(t) == t.step \in {"c_roles", "c_commit"}
Written(t) == t.step \in {"c_roles", "c_commit", "s_commit"}
Saving(t) == t.step \in {"s_load", "s_update", "s_commit"}

\* Each value of a row about to be written is the row's own, or the DTO's, or
\* was read at the beginning.
Explained(t) == \A c \in Columns : \/ t.row[c] = users[t.id][c]
                                   \/ c \in DOMAIN t.dto /\ t.row[c] = t.dto[c]
                                   \/ t.row[c] = t.read[c]

\* No other account has the address a transaction has written.
Clear(t) == \A id \in Ids \ {t.id} : users[id] # Absent => users[id].email # t.row.email

TaskOK(t) ==
  /\ t.step \in Steps
  /\ t.step = "c_insert" => t.row \in User /\ t.roles \in SUBSET Roles
  /\ Creating(t) => t.id \in born /\ t.roles \in SUBSET Roles /\ users[t.id] = Absent
  /\ Written(t) => t.row \in User /\ Clear(t)
  /\ Saving(t) => t.id \in Ids /\ users[t.id] # Absent
  /\ t.step \in {"s_load", "s_update"} =>
       t.entity \in User /\ \A c \in Columns : \/ c \in DOMAIN t.dto /\ t.entity[c] = t.dto[c]
                                               \/ t.entity[c] = t.read[c]
  /\ t.step = "s_commit" => Explained(t)
  /\ t.step = "l_compare" => /\ t.sub \in Ids /\ users[t.sub] # Absent
                             /\ t.roles = userRoles[t.sub] /\ t.hash \in had[t.sub]

Apart(t, u) == /\ Written(t) /\ Written(u) => t.row.email # u.row.email
               /\ Creating(t) /\ Creating(u) => t.id # u.id
               /\ t.step = "s_commit" /\ u.step = "s_commit" => t.id # u.id

TablesOK == /\ users \in [Ids -> User \cup {Absent}]
            /\ userRoles \in [Ids -> SUBSET Roles]
            /\ had \in [Ids -> SUBSET {Hash(p) : p \in Passwords}]
            /\ FirstUser \in born /\ born \subseteq Ids
            /\ \A id \in Ids : users[id] # Absent =>
                 /\ id \in born
                 /\ users[id].status = "active" => users[id].passwordHash \in had[id]

TokensOK == \A t \in tokens : /\ t.sub \in Ids /\ users[t.sub] # Absent
                              /\ t.roles = userRoles[t.sub] /\ Hash(t.password) \in had[t.sub]

TasksOK == /\ DOMAIN task = Requests
           /\ \A r \in Requests : TaskOK(task[r])
           /\ \A p, q \in Requests : p # q => Apart(task[p], task[q])

IInv == TablesOK /\ TokensOK /\ UniqueEmail /\ TasksOK
-----------------------------------------------------------------------------
(* Rows *)

\* A row is known by its columns.
LEMMA RowByColumns ==
  ASSUME NEW f, f = [c \in Columns |-> f[c]],
         f["email"] \in Emails, f["status"] \in UserStatus,
         f["passwordHash"] \in {Hash(p) : p \in Passwords}
  PROVE  f \in User
  BY DEF Columns, User

\* Choosing each column from one of two rows makes a row.
LEMMA MixedRow ==
  ASSUME NEW a \in User, NEW b \in User, NEW cols
  PROVE  [c \in Columns |-> IF c \in cols THEN a[c] ELSE b[c]] \in User
<1> DEFINE f == [c \in Columns |-> IF c \in cols THEN a[c] ELSE b[c]]
<1>1. /\ f["email"] \in Emails /\ f["status"] \in UserStatus
      /\ f["passwordHash"] \in {Hash(p) : p \in Passwords}
  BY DEF User, Columns
<1>2. f = [c \in Columns |-> f[c]]
  OBVIOUS
<1> HIDE DEF f
<1>3. f \in User
  BY <1>1, <1>2, RowByColumns
<1> QED BY <1>3 DEF f

\* What an update assigns to a row is a row.
LEMMA AssignedRow ==
  ASSUME NEW user \in User, NEW row \in User, NEW cols \in SUBSET Columns
  PROVE  LET dto == [c \in cols |-> row[c]] IN
           /\ Assigned(user, dto) \in User
           /\ \A c \in Columns : \/ c \in DOMAIN dto /\ Assigned(user, dto)[c] = dto[c]
                                 \/ Assigned(user, dto)[c] = user[c]
<1> DEFINE dto == [c \in cols |-> row[c]]
<1>1. Assigned(user, dto) = [c \in Columns |-> IF c \in cols THEN row[c] ELSE user[c]]
  BY DEF Assigned
<1>2. [c \in Columns |-> IF c \in cols THEN row[c] ELSE user[c]] \in User
  BY MixedRow
<1>3. \A c \in Columns : \/ c \in DOMAIN dto /\ Assigned(user, dto)[c] = dto[c]
                         \/ Assigned(user, dto)[c] = user[c]
  BY <1>1
<1> QED BY <1>1, <1>2, <1>3
-----------------------------------------------------------------------------
LEMMA IdleOK == TaskOK(Idle)
  BY DEF TaskOK, Idle, Steps, Creating, Written, Saving

LEMMA InitInv == Init => IInv
<1> SUFFICES ASSUME Init PROVE IInv
  OBVIOUS
<1>1. TablesOK
  <2>1. FirstRow.passwordHash \in {Hash(p) : p \in Passwords}
    BY AccountsAssumption DEF User
  <2> QED BY <2>1, AccountsAssumption DEF Init, TablesOK
<1>2. TokensOK /\ UniqueEmail
  BY DEF Init, TokensOK, UniqueEmail
<1>3. \A r \in Requests : task[r] = Idle
  BY DEF Init
<1>4. TasksOK
  BY <1>3, IdleOK DEF Init, TasksOK, Apart, Idle, Written, Creating
<1> QED BY <1>1, <1>2, <1>4 DEF IInv

\* A step of one request that commits nothing.
LEMMA QuietStep ==
  ASSUME IInv, NEW r \in Requests, NEW t, Do(r, t), UNCHANGED <<users, userRoles, had>>,
         born \subseteq born', born' \subseteq Ids, TokensOK', TaskOK(t)',
         \A q \in Requests \ {r} : Apart(t, task[q])
  PROVE  IInv'
<1>1. task' = [task EXCEPT ![r] = t] /\ DOMAIN task = Requests
  BY DEF Do, IInv, TasksOK
<1>2. /\ UNCHANGED <<users, userRoles, had>>
      /\ born \subseteq born' /\ born' \subseteq Ids /\ TokensOK'
  OBVIOUS
<1>3. TablesOK' /\ UniqueEmail'
  BY <1>2 DEF IInv, TablesOK, UniqueEmail
<1>4. ASSUME NEW q \in Requests PROVE TaskOK(task[q])'
  <2>1. CASE q = r
    <3>1. task'[q] = t
      BY <1>1, <2>1
    <3> QED BY <3>1 DEF TaskOK, Clear, Explained
  <2>2. CASE q # r
    <3>1. task'[q] = task[q] /\ TaskOK(task[q])
      BY <1>1, <2>2 DEF IInv, TasksOK
    <3> QED BY <1>2, <3>1 DEF TaskOK, Clear, Explained
  <2> QED BY <2>1, <2>2
<1>5. ASSUME NEW p \in Requests, NEW q \in Requests, p # q PROVE Apart(task[p], task[q])'
  <2>1. Apart(task[p], task[q])
    BY <1>5 DEF IInv, TasksOK
  <2>2. CASE p = r
    <3>1. task'[p] = t /\ task'[q] = task[q] /\ Apart(t, task[q])
      BY <1>1, <1>5, <2>2
    <3> QED BY <3>1 DEF Apart
  <2>3. CASE q = r
    <3>1. task'[q] = t /\ task'[p] = task[p] /\ Apart(t, task[p])
      BY <1>1, <1>5, <2>3
    <3> QED BY <3>1 DEF Apart
  <2>4. CASE p # r /\ q # r
    BY <1>1, <2>1, <2>4 DEF Apart
  <2> QED BY <2>2, <2>3, <2>4
<1> QED BY <1>1, <1>2, <1>3, <1>4, <1>5 DEF IInv, TasksOK

\* A step of one request within its transaction, or outside any.
LEMMA OwnStep ==
  ASSUME IInv, NEW r \in Requests, NEW t, Do(r, t), NoCommit, TaskOK(t),
         \A q \in Requests \ {r} : Apart(t, task[q])
  PROVE  IInv'
<1>1. UNCHANGED <<users, userRoles, born, tokens, had>>
  BY DEF NoCommit
<1>2. TokensOK' /\ TaskOK(t)' /\ born' \subseteq Ids
  BY <1>1 DEF IInv, TokensOK, TaskOK, Clear, Explained, TablesOK
<1> QED BY <1>1, <1>2, QuietStep

\* A task that has written nothing is apart from every other.
LEMMA UnwrittenApart ==
  ASSUME NEW t, ~Written(t), NEW u
  PROVE  Apart(t, u)
  BY DEF Apart, Written, Creating

\* The steps that end without effect.
LEMMA ToIdle == ASSUME IInv, NEW r \in Requests, Do(r, Idle), NoCommit PROVE IInv'
<1>1. ~Written(Idle)
  BY DEF Written, Idle
<1> QED BY <1>1, IdleOK, UnwrittenApart, OwnStep
-----------------------------------------------------------------------------
(* The guards, and create *)

LEMMA RefuseOK == ASSUME IInv, NEW r \in Requests, Refuse(r) PROVE IInv'
<1>1. PICK t \in tokens : Do(r, [step |-> "refused", actor |-> t.sub])
  BY DEF Refuse
<1> DEFINE u == [step |-> "refused", actor |-> t.sub]
<1>2. TaskOK(u) /\ ~Written(u)
  BY DEF TaskOK, Steps, Creating, Written, Saving
<1> HIDE DEF u
<1>3. NoCommit /\ Do(r, u)
  BY <1>1 DEF Refuse, u
<1> QED BY <1>2, <1>3, UnwrittenApart, OwnStep

LEMMA CreateFindOK == ASSUME IInv, NEW r \in Requests, CreateFind(r) PROVE IInv'
<1>1. PICK dto \in Creates :
        Do(r, [ step  |-> "c_insert", roles |-> dto.roles,
                row   |-> [email |-> dto.email, passwordHash |-> Hash(dto.password),
                           status |-> "active"] ])
  BY DEF CreateFind
<1> DEFINE u == [ step  |-> "c_insert", roles |-> dto.roles,
                  row   |-> [email |-> dto.email, passwordHash |-> Hash(dto.password),
                             status |-> "active"] ]
<1>2. dto.roles \in SUBSET Roles /\ dto.email \in Emails /\ dto.password \in Passwords
  BY AccountsAssumption DEF DTO
<1>3. u.row \in User /\ u.roles \in SUBSET Roles /\ u.step = "c_insert"
  BY <1>2 DEF User, UserStatus
<1>4. NoCommit /\ Do(r, u)
  BY <1>1 DEF CreateFind
<1> HIDE DEF u
<1>5. TaskOK(u) /\ ~Written(u)
  BY <1>3 DEF TaskOK, Steps, Creating, Written, Saving
<1> QED BY <1>4, <1>5, UnwrittenApart, OwnStep

\* The insertion found the address neither committed nor written.
LEMMA CreateInsertOK == ASSUME IInv, NEW r \in Requests, CreateInsert(r) PROVE IInv'
<1> DEFINE t == task[r]
<1>1. /\ t.step = "c_insert" /\ ~Locked(r, t.row.email)
      /\ UNCHANGED <<users, userRoles, tokens, had>>
  BY DEF CreateInsert
<1>2. TaskOK(t)
  BY DEF IInv, TasksOK
<1>3. CASE Taken(t.row.email, Absent)
  <2>1. Do(r, Idle) /\ NoCommit
    BY <1>1, <1>3 DEF CreateInsert, NoCommit
  <2> QED BY <2>1, ToIdle
<1>4. CASE ~Taken(t.row.email, Absent)
  <2>1. PICK id \in Ids \ born :
          /\ born' = born \cup {id}
          /\ Do(r, [ step |-> IF t.roles = {} THEN "c_commit" ELSE "c_roles", id |-> id,
                     roles |-> t.roles, row |-> t.row ])
    BY <1>1, <1>4 DEF CreateInsert
  <2>1a. PICK u : u = [ step |-> IF t.roles = {} THEN "c_commit" ELSE "c_roles", id |-> id,
                        roles |-> t.roles, row |-> t.row ]
    OBVIOUS
  <2>2. /\ u.step \in {"c_roles", "c_commit"} /\ u.id = id /\ u.roles = t.roles /\ u.row = t.row
    BY <2>1a
  <2>3. Do(r, u)
    BY <2>1, <2>1a
  <2>4. users[id] = Absent
    BY <2>1 DEF IInv, TablesOK
  <2>5. Clear(u)
    BY <1>4, <2>2, AccountsAssumption DEF Taken, Clear
  <2>6. TaskOK(u)'
    <3>1. t.row \in User /\ t.roles \in SUBSET Roles
      BY <1>1, <1>2 DEF TaskOK
    <3>2. Clear(u)'
      BY <1>1, <2>5 DEF Clear
    <3> QED BY <1>1, <2>1, <2>2, <2>4, <3>1, <3>2 DEF TaskOK, Steps, Creating, Written, Saving
  <2>7. ASSUME NEW q \in Requests \ {r} PROVE Apart(u, task[q])
    <3>1. Written(task[q]) => task[q].row.email # u.row.email
      BY <1>1, <2>2 DEF Locked, Written
    <3>2. Creating(task[q]) => task[q].id # id
      BY <2>1 DEF IInv, TasksOK, TaskOK
    <3> QED BY <2>2, <3>1, <3>2 DEF Apart
  <2>8. TokensOK'
    BY <1>1 DEF IInv, TokensOK
  <2>9. born \subseteq born' /\ born' \subseteq Ids
    BY <2>1 DEF IInv, TablesOK
  <2> QED BY <1>1, <2>3, <2>6, <2>7, <2>8, <2>9, QuietStep
<1> QED BY <1>3, <1>4

LEMMA AssignRolesOK == ASSUME IInv, NEW r \in Requests, AssignRoles(r) PROVE IInv'
<1> DEFINE t == task[r]
<1> DEFINE u == [step |-> "c_commit", id |-> t.id, roles |-> t.roles, row |-> t.row]
<1>1. t.step = "c_roles" /\ Do(r, u) /\ NoCommit
  BY DEF AssignRoles
<1>2. u.step = "c_commit" /\ u.id = t.id /\ u.roles = t.roles /\ u.row = t.row
  OBVIOUS
<1> HIDE DEF u
<1>3. TaskOK(t) /\ \A q \in Requests \ {r} : Apart(t, task[q])
  BY DEF IInv, TasksOK
<1>4. TaskOK(u)
  BY <1>1, <1>2, <1>3 DEF TaskOK, Clear, Creating, Written, Saving, Steps
<1>5. \A q \in Requests \ {r} : Apart(u, task[q])
  BY <1>1, <1>2, <1>3 DEF Apart, Written, Creating
<1> QED BY <1>1, <1>4, <1>5, OwnStep
-----------------------------------------------------------------------------
(* update and remove *)

LEMMA ChangeOK ==
  ASSUME IInv, NEW r \in Requests, NEW row \in User, NEW cols \in SUBSET Columns,
         Change(r, [c \in cols |-> row[c]])
  PROVE  IInv'
<1> DEFINE dto == [c \in cols |-> row[c]]
<1>1. PICK id \in Ids : /\ users[id] # Absent
                       /\ Do(r, [ step |-> "s_load", id |-> id, dto |-> dto, read |-> users[id],
                                  entity |-> Assigned(users[id], dto) ])
  BY DEF Change
<1>2. users[id] \in User
  BY <1>1 DEF IInv, TablesOK
<1>3. /\ Assigned(users[id], dto) \in User
      /\ \A c \in Columns : \/ c \in DOMAIN dto /\ Assigned(users[id], dto)[c] = dto[c]
                            \/ Assigned(users[id], dto)[c] = users[id][c]
  BY <1>2, AssignedRow
<1> HIDE DEF dto
<1> DEFINE u == [ step |-> "s_load", id |-> id, dto |-> dto, read |-> users[id],
                  entity |-> Assigned(users[id], dto) ]
<1>4. /\ u.step = "s_load" /\ u.id = id /\ u.dto = dto /\ u.read = users[id]
      /\ u.entity = Assigned(users[id], dto)
  OBVIOUS
<1>5. NoCommit /\ Do(r, u)
  BY <1>1 DEF Change
<1> HIDE DEF u
<1>6. TaskOK(u) /\ ~Written(u)
  BY <1>1, <1>3, <1>4 DEF TaskOK, Steps, Creating, Written, Saving
<1> QED BY <1>5, <1>6, UnwrittenApart, OwnStep

LEMMA UpdateOK == ASSUME IInv, NEW r \in Requests, update(r) PROVE IInv'
<1>1. PICK dto \in Updates : Change(r, dto)
  BY DEF update
<1>2. PICK row \in User, cols \in SUBSET Columns : dto = [c \in cols |-> row[c]]
  BY AccountsAssumption
<1> QED BY <1>1, <1>2, ChangeOK

\* A DTO of the status alone.
LEMMA RemoveOK == ASSUME IInv, NEW r \in Requests, remove(r) PROVE IInv'
<1>1. PICK id \in Ids : users[id] # Absent
  BY DEF remove, Change
<1>2. users[id] \in User
  BY <1>1 DEF IInv, TablesOK
<1> DEFINE row == [users[id] EXCEPT !.status = "inactive"]
<1>3. row \in User /\ row.status = "inactive"
  BY <1>2 DEF User, UserStatus
<1> HIDE DEF row
<1>4. [status |-> "inactive"] = [c \in {"status"} |-> row[c]]
  BY <1>3
<1>5. Change(r, [c \in {"status"} |-> row[c]])
  BY <1>4 DEF remove
<1> QED BY <1>3, <1>5, ChangeOK DEF Columns

LEMMA SaveLoadOK == ASSUME IInv, NEW r \in Requests, SaveLoad(r) PROVE IInv'
<1> DEFINE t == task[r]
<1> DEFINE u == [ step |-> "s_update", id |-> t.id, dto |-> t.dto, read |-> t.read,
                  entity |-> t.entity, cols |-> {c \in Columns : t.entity[c] # users[t.id][c]} ]
<1>1. t.step = "s_load" /\ Do(r, u) /\ NoCommit
  BY DEF SaveLoad
<1>2. /\ u.step = "s_update" /\ u.id = t.id /\ u.dto = t.dto /\ u.read = t.read
      /\ u.entity = t.entity
  OBVIOUS
<1> HIDE DEF u
<1>3. TaskOK(t)
  BY DEF IInv, TasksOK
<1>4. TaskOK(u) /\ ~Written(u)
  BY <1>1, <1>2, <1>3 DEF TaskOK, Creating, Written, Saving, Steps
<1> QED BY <1>1, <1>4, UnwrittenApart, OwnStep

\* The row written is free of others' addresses: the index says so of a new
\* address, UniqueEmail of the account's own.
LEMMA SaveUpdateOK == ASSUME IInv, NEW r \in Requests, SaveUpdate(r) PROVE IInv'
<1> DEFINE t == task[r]
<1> DEFINE row == [c \in Columns |-> IF c \in t.cols THEN t.entity[c] ELSE users[t.id][c]]
<1>1. /\ t.step = "s_update" /\ NoCommit
      /\ \A q \in Requests \ {r} : ~(task[q].step = "s_commit" /\ task[q].id = t.id)
      /\ "email" \in t.cols => ~Locked(r, row.email)
  BY DEF SaveUpdate
<1>2. TaskOK(t)
  BY DEF IInv, TasksOK
<1>3. /\ t.id \in Ids /\ users[t.id] \in User /\ users[t.id] # Absent /\ t.entity \in User
      /\ \A c \in Columns : \/ c \in DOMAIN t.dto /\ t.entity[c] = t.dto[c]
                            \/ t.entity[c] = t.read[c]
  BY <1>1, <1>2 DEF TaskOK, Saving, IInv, TablesOK
<1>4. CASE t.cols = {} \/ ("email" \in t.cols /\ Taken(row.email, t.id))
  <2>1. Do(r, Idle)
    BY <1>4 DEF SaveUpdate
  <2> QED BY <1>1, <2>1, ToIdle
<1>5. CASE ~(t.cols = {} \/ ("email" \in t.cols /\ Taken(row.email, t.id)))
  <2>1. Do(r, [step |-> "s_commit", id |-> t.id, dto |-> t.dto, read |-> t.read, row |-> row])
    BY <1>5 DEF SaveUpdate
  <2>2. row \in User
    BY <1>3, MixedRow
  <2>3. /\ "email" \in t.cols => row.email = t.entity.email
        /\ "email" \notin t.cols => row.email = users[t.id].email
        /\ \A c \in Columns : row[c] = t.entity[c] \/ row[c] = users[t.id][c]
    BY DEF Columns
  <2> HIDE DEF row
  <2>4. PICK u : u = [step |-> "s_commit", id |-> t.id, dto |-> t.dto, read |-> t.read, row |-> row]
    OBVIOUS
  <2>5. /\ u.step = "s_commit" /\ u.id = t.id /\ u.dto = t.dto /\ u.read = t.read /\ u.row = row
    BY <2>4
  <2>6. Do(r, u)
    BY <2>1, <2>4
  <2>7. Clear(u)
    <3>1. CASE "email" \in t.cols
      BY <1>5, <2>5, <3>1 DEF Clear, Taken
    <3>2. CASE "email" \notin t.cols
      BY <1>3, <2>3, <2>5, <3>2 DEF Clear, IInv, UniqueEmail
    <3> QED BY <3>1, <3>2
  <2>8. Explained(u)
    BY <1>3, <2>3, <2>5 DEF Explained
  <2>9. TaskOK(u)
    BY <1>3, <2>2, <2>5, <2>7, <2>8 DEF TaskOK, Steps, Creating, Written, Saving
  <2>10. ASSUME NEW q \in Requests \ {r} PROVE Apart(u, task[q])
    <3>1. TaskOK(task[q])
      BY DEF IInv, TasksOK
    <3>2. ASSUME Written(task[q]) PROVE task[q].row.email # row.email
      <4>1. CASE "email" \in t.cols
        BY <1>1, <3>2, <4>1 DEF Locked, Written
      <4>2. CASE "email" \notin t.cols
        <5>1. task[q].id # t.id
          BY <1>1, <1>3, <3>1, <3>2 DEF TaskOK, Creating, Written
        <5> QED BY <1>3, <2>3, <3>1, <3>2, <4>2, <5>1 DEF TaskOK, Clear
      <4> QED BY <4>1, <4>2
    <3> QED BY <1>1, <2>5, <3>2 DEF Apart, Creating
  <2> QED BY <1>1, <2>6, <2>9, <2>10, OwnStep
<1> QED BY <1>4, <1>5
-----------------------------------------------------------------------------
(* The commits *)

\* A transaction that has written commits: what others rely on stays true of
\* other rows, and they are kept apart from this one.
LEMMA CommitStep ==
  ASSUME IInv, NEW r \in Requests, task[r].step \in {"c_commit", "s_commit"},
         Commit(task[r].id, task[r].row), Do(r, Idle), UNCHANGED <<born, tokens>>,
         userRoles' \in [Ids -> SUBSET Roles],
         \A i \in Ids : users[i] # Absent => userRoles'[i] = userRoles[i]
  PROVE  IInv'
<1>1. PICK id, row : id = task[r].id /\ row = task[r].row
  OBVIOUS
<1>2. TaskOK(task[r]) /\ Written(task[r])
  BY DEF IInv, TasksOK, Written
<1>3. /\ id \in Ids /\ id \in born /\ row \in User /\ row # Absent
      /\ \A i \in Ids \ {id} : users[i] # Absent => users[i].email # row.email
  BY <1>1, <1>2, AccountsAssumption
     DEF TaskOK, Written, Creating, Saving, Clear, IInv, TablesOK
<1>4. /\ users' = [users EXCEPT ![id] = row]
      /\ had' = [had EXCEPT ![id] = IF row.status = "active" THEN @ \cup {row.passwordHash} ELSE @]
  BY <1>1 DEF Commit
<1>5. /\ users \in [Ids -> User \cup {Absent}]
      /\ had \in [Ids -> SUBSET {Hash(p) : p \in Passwords}]
      /\ row.passwordHash \in {Hash(p) : p \in Passwords}
  BY <1>3 DEF IInv, TablesOK, User
<1>6. /\ users' \in [Ids -> User \cup {Absent}] /\ users'[id] = row
      /\ \A i \in Ids \ {id} : users'[i] = users[i]
      /\ \A i \in Ids : users[i] # Absent => users'[i] # Absent
  BY <1>3, <1>4, <1>5
<1>7. /\ had' \in [Ids -> SUBSET {Hash(p) : p \in Passwords}]
      /\ \A i \in Ids : had[i] \subseteq had'[i]
      /\ row.status = "active" => row.passwordHash \in had'[id]
  BY <1>3, <1>4, <1>5
<1>8. /\ UNCHANGED <<born, tokens>> /\ userRoles' \in [Ids -> SUBSET Roles]
      /\ \A i \in Ids : users[i] # Absent => userRoles'[i] = userRoles[i]
  OBVIOUS
<1>9. TablesOK'
  <2>1. ASSUME NEW i \in Ids, users'[i] # Absent
        PROVE  /\ i \in born
               /\ users'[i].status = "active" => users'[i].passwordHash \in had'[i]
    <3>1. CASE i = id
      BY <1>3, <1>6, <1>7, <3>1
    <3>2. CASE i # id
      BY <1>6, <1>7, <2>1, <3>2 DEF IInv, TablesOK
    <3> QED BY <3>1, <3>2
  <2> QED BY <1>6, <1>7, <1>8, <2>1 DEF IInv, TablesOK
<1>10. TokensOK'
  BY <1>6, <1>7, <1>8 DEF IInv, TokensOK
<1>11. UniqueEmail'
  BY <1>3, <1>6 DEF IInv, UniqueEmail
<1>12. TasksOK'
  <2>1. task' = [task EXCEPT ![r] = Idle] /\ DOMAIN task = Requests
    BY DEF Do, IInv, TasksOK
  <2>2. ASSUME NEW q \in Requests PROVE TaskOK(task[q])'
    <3>1. CASE q = r
      <4>1. task'[q] = Idle
        BY <2>1, <3>1
      <4> QED BY <4>1 DEF TaskOK, Idle, Steps, Creating, Written, Saving
    <3>2. CASE q # r
      <4>1. PICK u : u = task[q]
        OBVIOUS
      <4>2. task'[q] = u
        BY <2>1, <3>2, <4>1
      <4>3. TaskOK(u) /\ Apart(task[r], u)
        BY <3>2, <4>1 DEF IInv, TasksOK
      <4>4. Creating(u) \/ u.step = "s_commit" => u.id # id
        BY <1>1, <1>2, <4>3 DEF TaskOK, Apart, Creating, Written, Saving
      <4>5. Written(u) => u.row.email # row.email
        BY <1>1, <1>2, <4>3 DEF Apart
      <4>6. Written(u) => \A i \in Ids \ {u.id} : users'[i] # Absent => users'[i].email # u.row.email
        BY <1>6, <4>3, <4>5 DEF TaskOK, Clear
      <4>7. u.step = "s_commit" => u.id \in Ids /\ users'[u.id] = users[u.id]
        BY <1>6, <4>3, <4>4 DEF TaskOK, Saving
      <4>8. Creating(u) => u.id \in Ids /\ users'[u.id] = Absent
        BY <1>6, <4>3, <4>4 DEF TaskOK, IInv, TablesOK
      <4>9. Saving(u) => u.id \in Ids /\ users'[u.id] # Absent
        BY <1>6, <4>3 DEF TaskOK
      <4>10. u.step = "l_compare" => /\ u.sub \in Ids /\ users'[u.sub] # Absent
                                     /\ u.roles = userRoles'[u.sub] /\ u.hash \in had'[u.sub]
        BY <1>6, <1>7, <1>8, <4>3 DEF TaskOK
      <4>11. u.step = "s_commit" => \A c \in Columns : \/ u.row[c] = users'[u.id][c]
                                                       \/ c \in DOMAIN u.dto /\ u.row[c] = u.dto[c]
                                                       \/ u.row[c] = u.read[c]
        BY <4>3, <4>7 DEF TaskOK, Explained
      <4> QED BY <1>8, <4>2, <4>3, <4>6, <4>8, <4>9, <4>10, <4>11
              DEF TaskOK, Clear, Explained, Creating, Written, Saving
    <3> QED BY <3>1, <3>2
  <2>3. ASSUME NEW p \in Requests, NEW q \in Requests, p # q PROVE Apart(task[p], task[q])'
    <3>1. task'[p] \in {task[p], Idle} /\ task'[q] \in {task[q], Idle}
      BY <2>1
    <3>2. Apart(task[p], task[q])
      BY <2>3 DEF IInv, TasksOK
    <3> QED BY <3>1, <3>2 DEF Apart, Idle, Written, Creating
  <2> QED BY <2>1, <2>2, <2>3 DEF TasksOK
<1> QED BY <1>9, <1>10, <1>11, <1>12 DEF IInv

\* The account was not there until now.
LEMMA CreateCommitOK == ASSUME IInv, NEW r \in Requests, CreateCommit(r) PROVE IInv'
<1>1. /\ task[r].step = "c_commit" /\ Commit(task[r].id, task[r].row) /\ Do(r, Idle)
      /\ userRoles' = [userRoles EXCEPT ![task[r].id] = task[r].roles]
      /\ UNCHANGED <<born, tokens>>
  BY DEF CreateCommit
<1>2. /\ task[r].id \in born /\ task[r].roles \in SUBSET Roles /\ users[task[r].id] = Absent
      /\ userRoles \in [Ids -> SUBSET Roles]
  BY <1>1 DEF IInv, TasksOK, TaskOK, Creating, TablesOK
<1>3. /\ userRoles' \in [Ids -> SUBSET Roles]
      /\ \A i \in Ids : users[i] # Absent => userRoles'[i] = userRoles[i]
  BY <1>1, <1>2
<1> QED BY <1>1, <1>3, CommitStep

LEMMA SaveCommitOK == ASSUME IInv, NEW r \in Requests, SaveCommit(r) PROVE IInv'
<1>1. /\ task[r].step = "s_commit" /\ Commit(task[r].id, task[r].row) /\ Do(r, Idle)
      /\ UNCHANGED <<userRoles, born, tokens>>
  BY DEF SaveCommit
<1>2. userRoles' \in [Ids -> SUBSET Roles]
  BY <1>1 DEF IInv, TablesOK
<1> QED BY <1>1, <1>2, CommitStep
-----------------------------------------------------------------------------
(* login *)

LEMMA LoginFindOK == ASSUME IInv, NEW r \in Requests, LoginFind(r) PROVE IInv'
<1>1. PICK id \in Ids, p \in Passwords :
        /\ users[id] # Absent
        /\ users[id].status = "active"
        /\ Do(r, [ step |-> "l_compare", password |-> p, sub |-> id, roles |-> userRoles[id],
                   hash |-> users[id].passwordHash ])
  BY DEF LoginFind
<1> DEFINE u == [ step |-> "l_compare", password |-> p, sub |-> id, roles |-> userRoles[id],
                  hash |-> users[id].passwordHash ]
<1>2. /\ u.step = "l_compare" /\ u.sub = id /\ u.roles = userRoles[id]
      /\ u.hash = users[id].passwordHash
  OBVIOUS
<1>3. NoCommit /\ Do(r, u)
  BY <1>1 DEF LoginFind
<1> HIDE DEF u
<1>4. users[id].passwordHash \in had[id]
  BY <1>1 DEF IInv, TablesOK
<1>5. TaskOK(u) /\ ~Written(u)
  BY <1>1, <1>2, <1>4 DEF TaskOK, Steps, Creating, Written, Saving
<1> QED BY <1>3, <1>5, UnwrittenApart, OwnStep

LEMMA LoginCompareOK == ASSUME IInv, NEW r \in Requests, LoginCompare(r) PROVE IInv'
<1> DEFINE t == task[r]
<1>1. /\ t.step = "l_compare" /\ Do(r, Idle) /\ UNCHANGED <<users, userRoles, born, had>>
      /\ \/ /\ compare(t.password, t.hash)
            /\ tokens' = tokens \cup {[sub |-> t.sub, roles |-> t.roles, password |-> t.password]}
         \/ UNCHANGED tokens
  BY DEF LoginCompare
<1>2. /\ t.sub \in Ids /\ users[t.sub] # Absent
      /\ t.roles = userRoles[t.sub] /\ t.hash \in had[t.sub]
  BY <1>1 DEF IInv, TasksOK, TaskOK
<1>3. TokensOK
  BY DEF IInv
<1>4. TokensOK'
  <2>1. CASE UNCHANGED tokens
    BY <1>1, <1>3, <2>1 DEF TokensOK
  <2>2. CASE /\ compare(t.password, t.hash)
             /\ tokens' = tokens \cup {[sub |-> t.sub, roles |-> t.roles, password |-> t.password]}
    <3>1. Hash(t.password) \in had[t.sub]
      BY <1>2, <2>2 DEF compare
    <3> QED BY <1>1, <1>2, <1>3, <2>2, <3>1 DEF TokensOK
  <2> QED BY <1>1, <2>1, <2>2
<1>5. ~Written(Idle) /\ TaskOK(Idle)'
  BY DEF Written, Idle, TaskOK, Steps, Creating, Saving
<1>6. born \subseteq born' /\ born' \subseteq Ids
  BY <1>1 DEF IInv, TablesOK
<1> QED BY <1>1, <1>4, <1>5, <1>6, UnwrittenApart, QuietStep
-----------------------------------------------------------------------------
LEMMA NextInv == IInv /\ [Next]_vars => IInv'
<1> SUFFICES ASSUME IInv, [Next]_vars PROVE IInv'
  OBVIOUS
<1>1. CASE UNCHANGED vars
  BY <1>1 DEF vars, IInv, TablesOK, TokensOK, UniqueEmail, TasksOK, TaskOK, Apart, Clear, Explained
<1>2. CASE Next
  <2> SUFFICES ASSUME NEW r \in Requests,
                      \/ Refuse(r) \/ AnswerRefused(r)
                      \/ CreateFind(r) \/ CreateInsert(r) \/ AssignRoles(r) \/ CreateCommit(r)
                      \/ update(r) \/ remove(r) \/ SaveLoad(r) \/ SaveUpdate(r) \/ SaveCommit(r)
                      \/ Fail(r) \/ LoginFind(r) \/ LoginCompare(r)
               PROVE  IInv'
    BY <1>2 DEF Next
  <2>1. CASE AnswerRefused(r) \/ Fail(r)
    <3>1. Do(r, Idle) /\ NoCommit
      BY <2>1 DEF AnswerRefused, Fail
    <3> QED BY <3>1, ToIdle
  <2> QED BY <2>1, RefuseOK, CreateFindOK, CreateInsertOK, AssignRolesOK, CreateCommitOK, UpdateOK,
             RemoveOK, SaveLoadOK, SaveUpdateOK, SaveCommitOK, LoginFindOK, LoginCompareOK
<1> QED BY <1>1, <1>2

LEMMA Invariant == Spec => []IInv
  BY InitInv, NextInv, PTL DEF Spec

\* The tables and the requests hold what the code can put in them.
THEOREM AccountsTyped == Spec => []TypeOK
<1>1. IInv => TypeOK
  BY DEF IInv, TablesOK, TasksOK, TaskOK, TypeOK, Creating, Written, Saving
<1> QED BY <1>1, Invariant, PTL

\* No two accounts ever share an e-mail address, whatever creates and updates
\* are under way at the same time.
THEOREM AddressesUnique == Spec => []UniqueEmail
<1>1. IInv => UniqueEmail
  BY DEF IInv
<1> QED BY <1>1, Invariant, PTL

\* A token says the roles its user has.
THEOREM TokensTellRoles == Spec => []TokenRolesCurrent
<1>1. IInv => TokenRolesCurrent
  BY DEF IInv, TokensOK, TokenRolesCurrent
<1> QED BY <1>1, Invariant, PTL

\* A token was given to who knew the password of an active account, at one
\* and the same moment.
THEOREM LoginsOfOneMoment == Spec => []LoggedInAsWas
<1>1. IInv => LoggedInAsWas
  BY DEF IInv, TokensOK, LoggedInAsWas
<1> QED BY <1>1, Invariant, PTL

\* What an account takes on was asked for, or read, by the request that
\* commits it.
THEOREM ChangesComeFromTheRequest == Spec => ChangesExplained
<1> DEFINE A == \A id \in Ids : \A c \in Columns :
                  users[id] # Absent /\ users'[id][c] # users[id][c]
                    => \E r \in Requests :
                         /\ task[r].step = "s_commit" /\ task[r].id = id
                         /\ \/ c \in DOMAIN task[r].dto /\ users'[id][c] = task[r].dto[c]
                            \/ users'[id][c] = task[r].read[c]
<1>1. IInv /\ [Next]_vars => [A]_vars
  <2> SUFFICES ASSUME IInv, Next, NEW id \in Ids, NEW c \in Columns,
                      users[id] # Absent, users'[id][c] # users[id][c]
               PROVE  \E r \in Requests :
                        /\ task[r].step = "s_commit" /\ task[r].id = id
                        /\ \/ c \in DOMAIN task[r].dto /\ users'[id][c] = task[r].dto[c]
                           \/ users'[id][c] = task[r].read[c]
    OBVIOUS
  <2>1. PICK r \in Requests : CreateCommit(r) \/ SaveCommit(r) \/ UNCHANGED users
    <3>1. \A r \in Requests : \A dto : Change(r, dto) => UNCHANGED users
      BY DEF Change, NoCommit
    <3> QED BY <3>1 DEF Next, Refuse, AnswerRefused, CreateFind, CreateInsert, AssignRoles,
                        update, remove, SaveLoad, SaveUpdate, Fail, LoginFind, LoginCompare, NoCommit
  <2>2. TaskOK(task[r]) /\ users \in [Ids -> User \cup {Absent}]
    BY DEF IInv, TasksOK, TablesOK
  <2>3. CASE CreateCommit(r)
    <3>1. task[r].step = "c_commit" /\ users' = [users EXCEPT ![task[r].id] = task[r].row]
      BY <2>3 DEF CreateCommit, Commit
    <3>2. users[task[r].id] = Absent
      BY <2>2, <3>1 DEF TaskOK, Creating
    <3> QED BY <2>2, <3>1, <3>2
  <2>4. CASE SaveCommit(r)
    <3>1. task[r].step = "s_commit" /\ users' = [users EXCEPT ![task[r].id] = task[r].row]
      BY <2>4 DEF SaveCommit, Commit
    <3>2. Explained(task[r])
      BY <2>2, <3>1 DEF TaskOK
    <3>3. task[r].id = id /\ users'[id] = task[r].row
      BY <2>2, <3>1
    <3>4. \/ task[r].row[c] = users[id][c]
          \/ c \in DOMAIN task[r].dto /\ task[r].row[c] = task[r].dto[c]
          \/ task[r].row[c] = task[r].read[c]
      BY <3>2, <3>3 DEF Explained
    <3> QED BY <3>1, <3>3, <3>4
  <2> QED BY <2>1, <2>3, <2>4
<1>2. Spec => [][A]_vars
  BY <1>1, Invariant, PTL DEF Spec
<1> QED BY <1>2 DEF ChangesExplained
====
