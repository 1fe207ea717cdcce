---- MODULE Listings ----
(***************************************************************************)
(* IncidentsService.findAll and getStats: each reads the table in two      *)
(* queries, one for the rows and one for their number, and keeps the       *)
(* answer in the cache until its time to live is over.  Writers call       *)
(* deletePattern to have it removed earlier, which only logs.  What they   *)
(* commit in the meantime is all that is modelled of them.  The cache      *)
(* swallows its errors: a failing get is a miss, a failing set stores      *)
(* nothing.  Lists of somebody's incidents (assignedTo, createdBy) are     *)
(* read in the same way, are not cached, and are left out, as is the       *)
(* priority, a filter and part of the key like the status.  The rows of    *)
(* the statistics stand for the counts made of them.                       *)
(***************************************************************************)
EXTENDS IncidentEntity, Integers, FiniteSets

CONSTANTS MaxId,      \* incidents are numbered in the order of their creation
          MaxWrites,  \* bound of the model: commits to the table
          MaxEntries, \* bound of the model: entries in the cache at a time
          Readers,    \* request slots, each running one request at a time
          Lists,      \* the filters of findAll in use
          Targets,    \* the statuses transition is called with
          defaultLimit, statsLimit,
          ListTtl, StatsTtl \* in ticks of the clock

Ids == 1..MaxId
Filter == [status : IncidentStatus \cup {"any"}, limit : Nat, offset : Nat]

ASSUME ListingsAssumption == /\ {MaxId, MaxWrites, MaxEntries} \subseteq Nat /\ Lists \subseteq Filter
                             /\ Targets \subseteq IncidentStatus /\ Absent \notin IncidentStatus
                             /\ {defaultLimit, statsLimit, ListTtl, StatsTtl} \subseteq Nat \ {0}

VARIABLES incidents, \* the table: status of each incident, or Absent
          last,      \* the last incident created
          writes,    \* commits so far
          cache,     \* key -> [answer, left], left being the time it has to live, or Absent
          task       \* what each request is doing

vars == <<incidents, last, writes, cache, task>>

\* limit || 20, offset || 0
Normalised(f) == [f EXCEPT !.limit = IF @ = 0 THEN defaultLimit ELSE @]

\* What clients ask: a list, or the statistics.
StatsFilter == [status |-> "any", limit |-> statsLimit, offset |-> 0]
ListQuery(f) == [op |-> "list", filter |-> Normalised(f)]
Stats == [op |-> "stats", filter |-> StatsFilter]
Queries == {ListQuery(f) : f \in Lists} \cup {Stats}

\* Planted bugs: one part of what is asked for is not part of the key.
KeyWithoutStatus(q) == <<q.op, q.filter.offset, q.filter.limit>>
KeyWithoutLimit(q) == <<q.op, q.filter.status, q.filter.offset>>
KeyWithoutOffset(q) == <<q.op, q.filter.status, q.filter.limit>>

\* generateIncidentsListKey, 'incidents:stats'
Key(q) == <<q.op, q.filter.status, q.filter.offset, q.filter.limit>>
Keys == {Key(q) : q \in Queries}

\* Planted bug: statistics live as long as lists.
SameTtl(q) == ListTtl

\* The ttl option findAll and getStats give to getOrSet.
Ttl(q) == IF q.op = "list" THEN ListTtl ELSE StatsTtl

Table == [Ids -> IncidentStatus \cup {Absent}]

Idle == [step |-> "idle"]

\* Auxiliary in an answer: `seen`, the table its rows were read from, and
\* `writes`, the commits between its two queries.
NoAnswer == [rows |-> {}, total |-> 0, seen |-> [i \in Ids |-> Absent], writes |-> 0]

Init == /\ incidents = [i \in Ids |-> Absent]
        /\ last = 0 /\ writes = 0
        /\ cache = [k \in Keys |-> Absent]
        /\ task = [r \in Readers |-> Idle]
-----------------------------------------------------------------------------
(* buildQuery *)

Matching(f, table) == {i \in Ids : table[i] # Absent /\ f.status \in {"any", table[i]}}

\* ORDER BY createdAt DESC LIMIT limit OFFSET offset
Page(f, ids) == {i \in ids : LET before == Cardinality({j \in ids : j > i}) IN
                               f.offset <= before /\ before < f.offset + f.limit}

RowsOf(f, table) == {<<i, table[i]>> : i \in Page(f, Matching(f, table))}

(* What other requests commit. *)

Commit(i, status) ==
  /\ writes < MaxWrites
  /\ writes' = writes + 1
  /\ incidents' = [incidents EXCEPT ![i] = status]
  /\ task' = [r \in Readers |-> IF task[r].step = "count"
                                THEN [task[r] EXCEPT !.answer.writes = @ + 1] ELSE task[r]]
  /\ UNCHANGED cache

Created == last < MaxId /\ last' = last + 1 /\ Commit(last + 1, "created")

\* The save of a transition.  It was checked on the incident as it was
\* before: by now it may have another status, or be deleted, in which case
\* save inserts it again.
Saved(i, to) == i <= last /\ incidents[i] # to /\ Commit(i, to) /\ UNCHANGED last

\* So was the deletion: the status may be any.
Deleted(i) == incidents[i] # Absent /\ Commit(i, Absent) /\ UNCHANGED last
-----------------------------------------------------------------------------
Do(r, t) == task' = [task EXCEPT ![r] = t]

\* Planted bug: an entry that is read lives on.
HitRenews(r, q) ==
  /\ task[r] = Idle
  /\ cache[Key(q)] # Absent
  /\ cache' = [cache EXCEPT ![Key(q)].left = Ttl(q)]
  /\ Do(r, [step |-> "served", query |-> q, answer |-> cache[Key(q)].answer])
  /\ UNCHANGED <<incidents, last, writes>>

\* CacheService.get: a hit is the answer; the request goes on otherwise.
Hit(r, q) == /\ task[r] = Idle
             /\ cache[Key(q)] # Absent
             /\ Do(r, [step |-> "served", query |-> q, answer |-> cache[Key(q)].answer])
             /\ UNCHANGED <<incidents, last, writes, cache>>

Miss(r, q) == /\ task[r] = Idle
              /\ Do(r, [step |-> "rows", query |-> q, answer |-> NoAnswer])
              /\ UNCHANGED <<incidents, last, writes, cache>>

\* getManyAndCount: the rows ...
Rows(r) == LET q == task[r].query IN
  /\ task[r].step = "rows"
  /\ Do(r, [ step |-> "count", query |-> q,
             answer |-> [ rows |-> RowsOf(q.filter, incidents), total |-> 0,
                          seen |-> incidents, writes |-> 0 ] ])
  /\ UNCHANGED <<incidents, last, writes, cache>>

\* Planted bug: the number of all incidents, whatever their status.
CountsAll(r) ==
  /\ task[r].step = "count"
  /\ Do(r, [task[r] EXCEPT !.step = "fill",
                           !.answer.total = Cardinality(Matching(StatsFilter, incidents))])
  /\ UNCHANGED <<incidents, last, writes, cache>>

\* ... and the number of all that match.
Count(r) ==
  /\ task[r].step = "count"
  /\ Do(r, [task[r] EXCEPT !.step = "fill",
                           !.answer.total = Cardinality(Matching(task[r].query.filter, incidents))])
  /\ UNCHANGED <<incidents, last, writes, cache>>

\* CacheService.set, and the answer.
Fill(r) == LET t == task[r] IN
  /\ t.step = "fill"
  /\ \/ /\ Cardinality({k \in Keys : cache[k] # Absent} \cup {Key(t.query)}) <= MaxEntries
        /\ cache' = [cache EXCEPT ![Key(t.query)] =
                       [answer |-> t.answer, left |-> Ttl(t.query)]]
     \/ UNCHANGED cache
  /\ Do(r, Idle)
  /\ UNCHANGED <<incidents, last, writes>>

Answer(r) == /\ task[r].step = "served"
             /\ Do(r, Idle)
             /\ UNCHANGED <<incidents, last, writes, cache>>

\* Time passes; what has lived its time is gone.
Tick ==
  /\ cache' = [k \in Keys |-> IF cache[k] = Absent THEN Absent
                              ELSE IF cache[k].left = 1 THEN Absent
                              ELSE [cache[k] EXCEPT !.left = @ - 1]]
  /\ UNCHANGED <<incidents, last, writes, task>>

GoOn(r) == Rows(r) \/ Count(r) \/ Fill(r) \/ Answer(r)

Next == \/ Created
        \/ \E i \in Ids : Deleted(i) \/ \E to \in Targets : Saved(i, to)
        \/ \E r \in Readers : GoOn(r) \/ \E q \in Queries : Hit(r, q) \/ Miss(r, q)
        \/ Tick

Spec == Init /\ [][Next]_vars

\* A request that has a step to take takes it, and time passes.
FairSpec == Spec /\ WF_vars(Tick) /\ \A r \in Readers : WF_vars(GoOn(r))
-----------------------------------------------------------------------------
Steps == {"idle", "rows", "count", "fill", "served"}

Result == [ rows : SUBSET (Ids \X IncidentStatus), total : 0..MaxId,
            seen : Table, writes : Nat ]

\* The variables hold what the code can put in them, no entry outliving its
\* time.
TypeOK == /\ incidents \in Table
          /\ last \in 0..MaxId /\ writes \in 0..MaxWrites
          /\ \A r \in Readers :
               /\ task[r].step \in Steps
               /\ task[r] # Idle => task[r].query \in Queries /\ task[r].answer \in Result
          /\ \A q \in Queries : cache[Key(q)] # Absent =>
               /\ cache[Key(q)].answer \in Result
               /\ cache[Key(q)].left \in 1..(IF q.op = "list" THEN ListTtl ELSE StatsTtl)

\* r has the answer it will give, from the cache or from the table.
Served(r) == task[r].step \in {"served", "fill"}

\* How many of n rows follow the first f.offset, up to f.limit.
PageSize(f, n) == LET left == n - f.offset IN
  IF left < 0 THEN 0 ELSE IF left < f.limit THEN left ELSE f.limit

\* The incidents a client asking for f wants of what an answer's rows were
\* read from.
Wanted(f, a) == {i \in Ids : a.seen[i] \in IF f.status = "any" THEN IncidentStatus ELSE {f.status}}

\* Whatever comes out of the cache answers the question that was asked,
\* whoever asked the one it was filled for.  Its rows are as many as the
\* page asked for has, of incidents of the status wanted as the table had
\* them, and of these exactly as many newer ones are missing as the offset
\* says.
ServedToTheRightQuery == \A r \in Readers : Served(r) =>
  LET f == task[r].query.filter
      a == task[r].answer
  IN /\ Cardinality(a.rows) = PageSize(f, Cardinality(Wanted(f, a)))
     /\ \A row \in a.rows :
          /\ row[1] \in Wanted(f, a) /\ row[2] = a.seen[row[1]]
          /\ f.offset = Cardinality({j \in Wanted(f, a) : j > row[1] /\ <<j, a.seen[j]>> \notin a.rows})

\* Rows and total of an answer come from two queries.  They fit each other
\* (for the statistics: the counts by status add up to the total, up to the
\* limit) but for one row for each commit in between.
RowsMatchTotal == \A r \in Readers : Served(r) =>
  LET f == task[r].query.filter
      a == task[r].answer
  IN Cardinality(a.rows) \in PageSize(f, a.total - a.writes)..PageSize(f, a.total + a.writes)

\* No entry shows i otherwise than it is.
ShownAsItIs(i) == \A k \in Keys : cache[k] # Absent =>
  \A row \in cache[k].answer.rows : row[1] = i => row[2] = incidents[i]

\* Although nothing invalidates lists and statistics, an incident that is
\* written no more is in the end not shown otherwise than it is any more,
\* however often the entries are read and whatever happens to the others.
FinalStateShows == \A i \in Ids :
  <>[][incidents'[i] = incidents[i]]_vars => <>[]ShownAsItIs(i)
====
