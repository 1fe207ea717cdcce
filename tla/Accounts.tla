---- MODULE Accounts ----
(***************************************************************************)
(* UsersService, AuthService and the guards of UsersController: accounts   *)
(* are created, changed and deactivated by clients with a token, which a   *)
(* login gives them.  A request that goes on after an `await` is a task:   *)
(*                                                                         *)
(*   c_insert, c_roles, c_commit   create, in a transaction                *)
(*   s_load, s_update, s_commit    update, in a transaction, and remove,   *)
(*                                 in that of `save`                       *)
(*   l_compare                     login                                   *)
(*   refused                       the guard has turned the request away   *)
(*                                                                         *)
(* Hashing is a pause between two steps.  A row another transaction has    *)
(* written, and an e-mail address it has put in the unique index, are      *)
(* locked until it ends.  Tokens do not expire within the model, and the   *)
(* Supabase methods, which nothing calls, are left out.                    *)
(***************************************************************************)
EXTENDS Naturals, FiniteSets

CONSTANTS Ids, Emails, Passwords,
          Roles,      \* the role names
          Requests,   \* request slots, each running one request at a time
          Creates,    \* what clients ask create for: [row, roles]
          Updates,    \* DTOs of update: what the columns they name shall hold
          FirstUser, FirstRow, \* the administrator there is to begin with
          RoleNames,  \* request.user.roles holds names (else entities)
          Absent

UserStatus == {"active", "inactive", "suspended"}

\* bcrypt: what is stored tells a password from others.
Hash(password) == [bcrypt |-> password]
compare(password, hash) == hash = Hash(password)

Columns == {"email", "passwordHash", "status"}
User == [email : Emails, passwordHash : {Hash(p) : p \in Passwords}, status : UserStatus]
DTO == [email : Emails, password : Passwords, roles : SUBSET Roles]

ASSUME AccountsAssumption == /\ Creates \subseteq DTO
                             /\ \A dto \in Updates : \E row \in User :
                                  \E cols \in SUBSET Columns : dto = [c \in cols |-> row[c]]
                             /\ FirstUser \in Ids /\ FirstRow \in User
                             /\ {"admin", "lead"} \subseteq Roles
                             /\ RoleNames \in BOOLEAN
                             /\ Absent \notin User /\ Absent \notin Ids

VARIABLES users,     \* committed rows: identifier -> row or Absent
          userRoles, \* committed roles: identifier -> role names
          task,      \* what each request is doing
          born,      \* auxiliary: identifiers handed out
          tokens,    \* auxiliary: the tokens given to clients
          had        \* auxiliary: the hashes each account had while active

vars == <<users, userRoles, task, born, tokens, had>>

Idle == [step |-> "idle"]
Steps == {"idle", "refused", "c_insert", "c_roles", "c_commit",
          "s_load", "s_update", "s_commit", "l_compare"}

Init == /\ users = [id \in Ids |-> IF id = FirstUser THEN FirstRow ELSE Absent]
        /\ userRoles = [id \in Ids |-> IF id = FirstUser THEN {"admin"} ELSE {}]
        /\ task = [r \in Requests |-> Idle]
        /\ born = {FirstUser}
        /\ tokens = {}
        /\ had = [id \in Ids |-> IF id = FirstUser THEN {FirstRow.passwordHash} ELSE {}]

Do(r, t) == task' = [task EXCEPT ![r] = t]

\* The committed row of id becomes `row`.
Commit(id, row) ==
  /\ users' = [users EXCEPT ![id] = row]
  /\ had' = [had EXCEPT ![id] = IF row.status = "active" THEN @ \cup {row.passwordHash} ELSE @]
NoCommit == UNCHANGED <<users, userRoles, born, tokens, had>>

\* An e-mail address in the unique index for another account than id:
\* committed, or by a transaction under way.
Taken(email, id) == \E other \in Ids \ {id} : users[other] # Absent /\ users[other].email = email
Locked(r, email) == \E q \in Requests \ {r} :
  /\ task[q].step \in {"c_roles", "c_commit", "s_commit"}
  /\ task[q].row.email = email
-----------------------------------------------------------------------------
(* JwtStrategy.validate and RolesGuard.canActivate *)

\* The user's roles as the strategy hands them to the guard: strings, or
\* entities of user_roles, no two of which are ever the same value.
String(role) == [string |-> role]
Entity(id, role) == [userId |-> id, role |-> role]
RequestRoles(id) == {IF RoleNames THEN String(role) ELSE Entity(id, role) : role \in userRoles[id]}

\* requiredRoles.some(role => user.roles.includes(role))
canActivate(requiredRoles, id) == \E role \in requiredRoles : String(role) \in RequestRoles(id)

\* A client with a token may do what needs the role admin.
Admits(actor) == canActivate({"admin"}, actor)

Refuse(r) == /\ task[r] = Idle
             /\ \E t \in tokens : /\ ~Admits(t.sub)
                                  /\ Do(r, [step |-> "refused", actor |-> t.sub])
             /\ NoCommit

AnswerRefused(r) == task[r].step = "refused" /\ Do(r, Idle) /\ NoCommit

Allowed(r) == task[r] = Idle /\ \E t \in tokens : Admits(t.sub)
-----------------------------------------------------------------------------
(* create *)

\* Planted bug: the password is stored as it was given.
StoresPassword(r) ==
  /\ Allowed(r)
  /\ \E dto \in Creates :
       Do(r, [ step  |-> "c_insert", roles |-> dto.roles,
               row   |-> [email |-> dto.email, passwordHash |-> dto.password,
                          status |-> "active"] ])
  /\ NoCommit

\* Nobody has the address yet (a ConflictException otherwise).  No create
\* once the identifiers are used up, which bounds the model.
CreateFind(r) ==
  /\ Allowed(r)
  /\ Cardinality({q \in Requests : task[q].step = "c_insert"}) < Cardinality(Ids \ born)
  /\ \E dto \in Creates :
       /\ \A id \in Ids : users[id] # Absent => users[id].email # dto.email
       /\ Do(r, [ step  |-> "c_insert", roles |-> dto.roles,
                  row   |-> [email |-> dto.email, passwordHash |-> Hash(dto.password),
                             status |-> "active"] ])
  /\ NoCommit

\* Planted bug: the table has no unique index.
InsertAnyway(r) == LET t == task[r] IN
  /\ t.step = "c_insert"
  /\ \E id \in Ids \ born :
       /\ born' = born \cup {id}
       /\ Do(r, [ step |-> IF t.roles = {} THEN "c_commit" ELSE "c_roles", id |-> id,
                  roles |-> t.roles, row |-> t.row ])
  /\ UNCHANGED <<users, userRoles, tokens, had>>

\* INSERT: waits for a transaction that holds the address, fails when it is
\* taken by now.
CreateInsert(r) == LET t == task[r] IN
  /\ t.step = "c_insert"
  /\ ~Locked(r, t.row.email)
  /\ IF Taken(t.row.email, Absent)
     THEN Do(r, Idle) /\ UNCHANGED born
     ELSE \E id \in Ids \ born :
            /\ born' = born \cup {id}
            /\ Do(r, [ step |-> IF t.roles = {} THEN "c_commit" ELSE "c_roles", id |-> id,
                       roles |-> t.roles, row |-> t.row ])
  /\ UNCHANGED <<users, userRoles, tokens, had>>

\* Planted bug: the user is inserted outside the transaction.
CommitsTooEarly(r) == LET t == task[r] IN
  /\ t.step = "c_roles"
  /\ Commit(t.id, t.row)
  /\ Do(r, [t EXCEPT !.step = "c_commit"])
  /\ UNCHANGED <<userRoles, born, tokens>>

\* assignRoles: DELETE and INSERT in the same transaction.
AssignRoles(r) == LET t == task[r] IN
  /\ t.step = "c_roles"
  /\ Do(r, [step |-> "c_commit", id |-> t.id, roles |-> t.roles, row |-> t.row])
  /\ NoCommit

CreateCommit(r) == LET t == task[r] IN
  /\ t.step = "c_commit"
  /\ Commit(t.id, t.row)
  /\ userRoles' = [userRoles EXCEPT ![t.id] = t.roles]
  /\ Do(r, Idle)
  /\ UNCHANGED <<born, tokens>>
-----------------------------------------------------------------------------
(* update and remove *)

Assigned(user, dto) == [c \in Columns |-> IF c \in DOMAIN dto THEN dto[c] ELSE user[c]]

\* The user is read, the DTO or the status assigned to it.  (`dto` and `read`
\* are kept to state a property with.)
Change(r, dto) ==
  /\ Allowed(r)
  /\ \E id \in Ids : /\ users[id] # Absent
                     /\ Do(r, [ step |-> "s_load", id |-> id, dto |-> dto, read |-> users[id],
                                entity |-> Assigned(users[id], dto) ])
  /\ NoCommit

update(r) == \E dto \in Updates : Change(r, dto)
remove(r) == Change(r, [status |-> "inactive"])

\* save reads the row again for the columns that differ.
SaveLoad(r) == LET t == task[r] IN
  /\ t.step = "s_load"
  /\ Do(r, [ step |-> "s_update", id |-> t.id, dto |-> t.dto, read |-> t.read,
             entity |-> t.entity, cols |-> {c \in Columns : t.entity[c] # users[t.id][c]} ])
  /\ NoCommit

\* Planted bug: the row is written as it was some time ago.
NoRowLock(r) ==
  LET t == task[r]
      row == [c \in Columns |-> IF c \in t.cols THEN t.entity[c] ELSE users[t.id][c]]
  IN /\ t.step = "s_update"
     /\ "email" \in t.cols => ~Locked(r, row.email)
     /\ IF t.cols = {} \/ ("email" \in t.cols /\ Taken(row.email, t.id))
        THEN Do(r, Idle)
        ELSE Do(r, [step |-> "s_commit", id |-> t.id, dto |-> t.dto, read |-> t.read, row |-> row])
     /\ NoCommit

\* UPDATE of these columns: waits for the row and the address, fails when
\* the address is taken.
SaveUpdate(r) ==
  LET t == task[r]
      row == [c \in Columns |-> IF c \in t.cols THEN t.entity[c] ELSE users[t.id][c]]
  IN /\ t.step = "s_update"
     /\ \A q \in Requests \ {r} : ~(task[q].step = "s_commit" /\ task[q].id = t.id)
     /\ "email" \in t.cols => ~Locked(r, row.email)
     /\ IF t.cols = {} \/ ("email" \in t.cols /\ Taken(row.email, t.id))
        THEN Do(r, Idle)
        ELSE Do(r, [step |-> "s_commit", id |-> t.id, dto |-> t.dto, read |-> t.read, row |-> row])
     /\ NoCommit

SaveCommit(r) == LET t == task[r] IN
  /\ t.step = "s_commit"
  /\ Commit(t.id, t.row)
  /\ Do(r, Idle)
  /\ UNCHANGED <<userRoles, born, tokens>>

\* Any step of a transaction may fail: it is rolled back and the error
\* rethrown.  (An update that names roles may fail in save, and changes no
\* role when it does not.)
Fail(r) == /\ task[r].step \notin {"idle", "refused", "l_compare"}
           /\ Do(r, Idle)
           /\ NoCommit
-----------------------------------------------------------------------------
(* login *)

\* Planted bug: the status is not looked at.
LoginAnyStatus(r) ==
  /\ task[r] = Idle
  /\ \E id \in Ids, p \in Passwords :
       /\ users[id] # Absent
       /\ Do(r, [ step |-> "l_compare", password |-> p, sub |-> id, roles |-> userRoles[id],
                  hash |-> users[id].passwordHash ])
  /\ NoCommit

\* The user of the address is read, with his roles, and is active.
LoginFind(r) ==
  /\ task[r] = Idle
  /\ \E id \in Ids, p \in Passwords :
       /\ users[id] # Absent
       /\ users[id].status = "active"
       /\ Do(r, [ step |-> "l_compare", password |-> p, sub |-> id, roles |-> userRoles[id],
                  hash |-> users[id].passwordHash ])
  /\ NoCommit

\* The password is compared with the hash read then; tokens, if it is right
\* and the device identifier long enough.
LoginCompare(r) == LET t == task[r] IN
  /\ t.step = "l_compare"
  /\ \/ /\ compare(t.password, t.hash)
        /\ tokens' = tokens \cup {[sub |-> t.sub, roles |-> t.roles, password |-> t.password]}
     \/ UNCHANGED tokens
  /\ Do(r, Idle)
  /\ UNCHANGED <<users, userRoles, born, had>>

Next == \E r \in Requests :
  \/ Refuse(r) \/ AnswerRefused(r)
  \/ CreateFind(r) \/ CreateInsert(r) \/ AssignRoles(r) \/ CreateCommit(r)
  \/ update(r) \/ remove(r) \/ SaveLoad(r) \/ SaveUpdate(r) \/ SaveCommit(r) \/ Fail(r)
  \/ LoginFind(r) \/ LoginCompare(r)

Spec == Init /\ [][Next]_vars
-----------------------------------------------------------------------------
\* The variables hold what the code can put in them.
TypeOK == /\ users \in [Ids -> User \cup {Absent}]
          /\ userRoles \in [Ids -> SUBSET Roles]
          /\ DOMAIN task = Requests /\ \A r \in Requests : task[r].step \in Steps
          /\ \A r \in Requests : task[r].step \in {"c_roles", "c_commit", "s_commit"}
                                   => task[r].id \in born /\ task[r].row \in User
          /\ FirstUser \in born /\ born \subseteq Ids

\* No two accounts share an e-mail address: creates that both found it free,
\* and updates that move to it, are kept apart by the index.
UniqueEmail == \A i, j \in Ids :
  i # j /\ users[i] # Absent /\ users[j] # Absent => users[i].email # users[j].email

\* A token says exactly the roles its user has, also when it was given
\* before or while other requests changed the account: an account appears
\* together with its roles, and no later operation changes them.
TokenRolesCurrent == \A t \in tokens : t.roles = userRoles[t.sub]

\* Who got a token had, at one and the same moment, an active account and the
\* password he gave, whatever was changed while it was compared.
LoggedInAsWas == \A t \in tokens : Hash(t.password) \in had[t.sub]

\* A value an account takes is one the request asked for or the one the
\* request had read: concurrent updates undo at worst what happened since
\* they began (a deactivation, say), and never mix in anything else.
ChangesExplained ==
  [][ \A id \in Ids : \A c \in Columns :
        users[id] # Absent /\ users'[id][c] # users[id][c]
          => \E r \in Requests : 
               /\ task[r].step = "s_commit" /\ task[r].id = id
               /\ \/ c \in DOMAIN task[r].dto /\ users'[id][c] = task[r].dto[c]
                  \/ users'[id][c] = task[r].read[c] ]_vars

\* README: what is for administrators ("admin only") is not refused to one.
AdminsServed == \A r \in Requests :
  task[r].step = "refused" => "admin" \notin userRoles[task[r].actor]
====
