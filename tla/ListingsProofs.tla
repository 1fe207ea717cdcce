---- MODULE ListingsProofs ----
(***************************************************************************)
(* Theorems about Listings, for any number of incidents, commits, readers  *)
(* and filters.  The first part is about pages: numbering the incidents    *)
(* that match by age is one-to-one, so that a page has as many rows as its *)
(* place and size leave it, and its rows come after as many others as its  *)
(* offset says.  The invariant is that every answer a request or the cache *)
(* has fits its question (Fits): its rows are the page of the table they   *)
(* were read from, and as many matched there as its total says, but for    *)
(* one for each commit in between.  Of a request which has yet to count    *)
(* the same is said of what matches now (Reading).                         *)
(***************************************************************************)
EXTENDS Listings, FiniteSetTheorems, TLAPS

\* An answer's rows are those of the page q asks for.
Shaped(q, a) == a \in Result /\ a.rows = RowsOf(q.filter, a.seen)

\* As many as n matched when an answer's rows were read, but for one for each
\* commit since.
About(q, a, n) == Cardinality(Matching(q.filter, a.seen)) \in (n - a.writes)..(n + a.writes)

Fits(q, a) == Shaped(q, a) /\ About(q, a, a.total)

Reading(q, a) == Shaped(q, a) /\ About(q, a, Cardinality(Matching(q.filter, incidents)))

TaskOK(t) == \/ t = Idle
             \/ /\ t \in [step : Steps \ {"idle"}, query : Queries, answer : Result]
                /\ t.step \in {"served", "fill"} => Fits(t.query, t.answer)
                /\ t.step = "count" => Reading(t.query, t.answer)

EntryOK(q, e) == /\ e \in [answer : Result, left : 1..Ttl(q)]
                 /\ Fits(q, e.answer)

IInv == /\ incidents \in Table
        /\ last \in 0..MaxId /\ writes \in 0..MaxWrites
        /\ DOMAIN task = Readers /\ \A r \in Readers : TaskOK(task[r])
        /\ cache = [k \in Keys |-> cache[k]]
        /\ \A q \in Queries : cache[Key(q)] # Absent => EntryOK(q, cache[Key(q)])
-----------------------------------------------------------------------------
(* Pages *)

LEMMA SomeIdsFinite ==
  ASSUME NEW ids \in SUBSET Ids
  PROVE  /\ IsFiniteSet(ids) /\ Cardinality(ids) \in 0..MaxId
         /\ \A i \in ids : i \in Nat
<1>1. IsFiniteSet(Ids) /\ Cardinality(Ids) = MaxId
  BY FS_Interval, ListingsAssumption DEF Ids
<1>2. IsFiniteSet(ids) /\ Cardinality(ids) <= Cardinality(Ids)
  BY <1>1, FS_Subset
<1>3. Cardinality(ids) \in Nat
  BY <1>2, FS_CardinalityType
<1> QED BY <1>1, <1>2, <1>3, ListingsAssumption DEF Ids

Younger(ids, i) == {j \in ids : j > i}

\* Counting the younger ones numbers the elements of a set from 0.
LEMMA Ranks ==
  ASSUME NEW ids \in SUBSET Ids
  PROVE  [i \in ids |-> Cardinality(Younger(ids, i))] \in Bijection(ids, 0..(Cardinality(ids) - 1))
<1> DEFINE rank == [i \in ids |-> Cardinality(Younger(ids, i))]
<1> DEFINE n == Cardinality(ids)
<1> DEFINE T == 0..(n - 1)
<1>1. IsFiniteSet(ids) /\ n \in Nat /\ \A i \in ids : i \in Nat
  BY SomeIdsFinite, ListingsAssumption
<1>2. \A i \in ids : IsFiniteSet(Younger(ids, i)) /\ Cardinality(Younger(ids, i)) \in T
  <2> SUFFICES ASSUME NEW i \in ids
               PROVE  IsFiniteSet(Younger(ids, i)) /\ Cardinality(Younger(ids, i)) \in T
    OBVIOUS
  <2>1. IsFiniteSet(ids \ {i}) /\ Cardinality(ids \ {i}) = n - 1
    BY <1>1, FS_RemoveElement
  <2>2. Younger(ids, i) \in SUBSET (ids \ {i})
    BY <1>1 DEF Younger
  <2>3. /\ IsFiniteSet(Younger(ids, i))
        /\ Cardinality(Younger(ids, i)) <= Cardinality(ids \ {i})
    BY <2>1, <2>2, FS_Subset
  <2>4. Cardinality(Younger(ids, i)) \in Nat
    BY <2>3, FS_CardinalityType
  <2> QED BY <1>1, <2>1, <2>3, <2>4
<1>3. ASSUME NEW i \in ids, NEW k \in ids, i < k
      PROVE  Cardinality(Younger(ids, i)) # Cardinality(Younger(ids, k))
  <2>1. Younger(ids, k) \in SUBSET Younger(ids, i)
    BY <1>1, <1>3 DEF Younger
  <2>2. k \in Younger(ids, i) /\ k \notin Younger(ids, k)
    BY <1>1, <1>3 DEF Younger
  <2> QED BY <1>2, <2>1, <2>2, FS_Subset
<1>4. \A i, k \in ids : rank[i] = rank[k] => i = k
  <2> SUFFICES ASSUME NEW i \in ids, NEW k \in ids, i # k PROVE rank[i] # rank[k]
    OBVIOUS
  <2>1. i < k \/ k < i
    BY <1>1
  <2> QED BY <1>3, <2>1
<1>5. rank \in Injection(ids, T)
  BY <1>2, <1>4 DEF Injection, IsInjective
<1>6. IsFiniteSet(T) /\ Cardinality(T) = n
  BY <1>1, FS_Interval
<1> HIDE DEF rank, T
<1>7. rank \in Surjection(ids, T)
  BY <1>5, <1>6, FS_Injection
<1>8. rank \in Bijection(ids, T)
  BY <1>5, <1>7 DEF Bijection
<1> QED BY <1>8 DEF rank, T

LEMMA PageHasSize ==
  ASSUME NEW ids \in SUBSET Ids, NEW f, f.limit \in Nat, f.offset \in Nat
  PROVE  /\ Page(f, ids) \in SUBSET ids
         /\ Cardinality(Page(f, ids)) = PageSize(f, Cardinality(ids))
<1> DEFINE rank == [i \in ids |-> Cardinality(Younger(ids, i))]
<1> DEFINE n == Cardinality(ids)
<1> DEFINE page == Page(f, ids)
<1> DEFINE m == IF n < f.offset + f.limit THEN n ELSE f.offset + f.limit
<1> DEFINE T == f.offset..(m - 1)
<1>1. IsFiniteSet(ids) /\ n \in Nat
  BY SomeIdsFinite, ListingsAssumption
<1>2. rank \in Bijection(ids, 0..(n - 1))
  BY Ranks
<1>3. /\ \A i \in ids : rank[i] \in 0..(n - 1)
      /\ \A i, k \in ids : rank[i] = rank[k] => i = k
      /\ \A x \in 0..(n - 1) : \E i \in ids : rank[i] = x
  <2> HIDE DEF rank, n
  <2> QED BY <1>2 DEF Bijection, Injection, Surjection, IsInjective
<1>4. page = {i \in ids : f.offset <= rank[i] /\ rank[i] < f.offset + f.limit}
  BY DEF Page, Younger
<1>5. PICK rk : rk = rank
  OBVIOUS
<1> HIDE DEF rank
<1> DEFINE g == [i \in page |-> rk[i]]
<1>6. n \in Nat /\ m \in Nat
  BY <1>1
<1>7. \A i \in page : i \in ids /\ g[i] = rk[i] /\ g[i] \in T
  <2> SUFFICES ASSUME NEW i \in page PROVE i \in ids /\ rk[i] \in T
    OBVIOUS
  <2>1. i \in ids /\ f.offset <= rk[i] /\ rk[i] < f.offset + f.limit
    BY <1>4, <1>5
  <2>2. rk[i] \in 0..(n - 1)
    BY <1>3, <1>5, <2>1
  <2> HIDE DEF n, page
  <2> QED BY <1>6, <2>1, <2>2
<1>8. \A x \in T : \E i \in page : g[i] = x
  <2> SUFFICES ASSUME NEW x \in T PROVE \E i \in page : rk[i] = x
    OBVIOUS
  <2>1. x \in 0..(n - 1) /\ f.offset <= x /\ x < f.offset + f.limit
    <3> HIDE DEF n
    <3> QED BY <1>6
  <2>2. PICK i \in ids : rk[i] = x
    BY <1>3, <1>5, <2>1
  <2> QED BY <1>4, <1>5, <2>1, <2>2
<1>9. \A i, k \in page : g[i] = g[k] => i = k
  BY <1>3, <1>5, <1>7
<1> HIDE DEF page, T
<1>10. g \in Bijection(page, T)
  BY <1>7, <1>8, <1>9 DEF Bijection, Injection, Surjection, IsInjective
<1>11. page \in SUBSET ids
  BY <1>7
<1>12. Cardinality(page) = Cardinality(T)
  <2>1. IsFiniteSet(page)
    BY <1>1, <1>11, FS_Subset
  <2> HIDE DEF g
  <2>2. ExistsBijection(page, T)
    BY <1>10 DEF ExistsBijection
  <2> QED BY <2>1, <2>2, FS_Bijection
<1>13. Cardinality(T) = IF f.offset > m - 1 THEN 0 ELSE m - f.offset
  <2> HIDE DEF n
  <2>1. f.offset \in Int /\ m - 1 \in Int
    BY <1>6
  <2>2. Cardinality(f.offset..(m - 1)) = IF f.offset > m - 1 THEN 0 ELSE (m - 1) - f.offset + 1
    <3> HIDE DEF m
    <3> QED BY <2>1, FS_Interval
  <2> QED BY <1>6, <2>2 DEF T
<1>14. Cardinality(page) = PageSize(f, n)
  <2> HIDE DEF n
  <2> QED BY <1>6, <1>12, <1>13 DEF PageSize
<1> QED BY <1>11, <1>14 DEF page

\* The rows before a page are the younger ones that are not on it.
LEMMA BeforePage ==
  ASSUME NEW ids \in SUBSET Ids, NEW f, f.limit \in Nat, f.offset \in Nat,
         NEW i \in Page(f, ids)
  PROVE  Cardinality({j \in ids : j > i /\ j \notin Page(f, ids)}) = f.offset
<1> DEFINE g == [limit |-> f.offset, offset |-> 0]
<1>1. /\ IsFiniteSet(ids) /\ Cardinality(ids) \in Nat
      /\ \A j \in ids : j \in Nat
  BY SomeIdsFinite, ListingsAssumption
<1>2. /\ i \in ids /\ f.offset <= Cardinality(Younger(ids, i))
      /\ Cardinality(Younger(ids, i)) < f.offset + f.limit
  BY DEF Page, Younger
<1>3. \A j \in ids : /\ IsFiniteSet(Younger(ids, j)) /\ Cardinality(Younger(ids, j)) \in Nat
                     /\ Cardinality(Younger(ids, j)) < Cardinality(ids)
  <2> SUFFICES ASSUME NEW j \in ids
               PROVE  /\ IsFiniteSet(Younger(ids, j)) /\ Cardinality(Younger(ids, j)) \in Nat
                      /\ Cardinality(Younger(ids, j)) < Cardinality(ids)
    OBVIOUS
  <2>1. Younger(ids, j) \in SUBSET ids /\ j \notin Younger(ids, j)
    BY <1>1 DEF Younger
  <2>2. IsFiniteSet(Younger(ids, j)) /\ Cardinality(Younger(ids, j)) <= Cardinality(ids)
    BY <1>1, <2>1, FS_Subset
  <2>3. Cardinality(Younger(ids, j)) # Cardinality(ids)
    BY <1>1, <2>1, FS_Subset
  <2>4. Cardinality(Younger(ids, j)) \in Nat
    BY <2>2, FS_CardinalityType
  <2> QED BY <1>1, <2>2, <2>3, <2>4
\* Younger ones have fewer before them.
<1>4. ASSUME NEW j \in ids, NEW k \in ids, k > j
      PROVE  Cardinality(Younger(ids, k)) < Cardinality(Younger(ids, j))
  <2>1. Younger(ids, k) \in SUBSET Younger(ids, j)
    BY <1>1, <1>4 DEF Younger
  <2>2. k \in Younger(ids, j) /\ k \notin Younger(ids, k)
    BY <1>1, <1>4 DEF Younger
  <2>3. /\ Cardinality(Younger(ids, k)) <= Cardinality(Younger(ids, j))
        /\ Cardinality(Younger(ids, k)) # Cardinality(Younger(ids, j))
    BY <1>3, <2>1, <2>2, FS_Subset
  <2> QED BY <1>3, <2>3
<1>5. \A j \in ids : j \in Page(g, ids) <=> Cardinality(Younger(ids, j)) < f.offset
  <2>1. g.offset = 0 /\ g.limit = f.offset
    OBVIOUS
  <2>2. \A j \in ids : j \in Page(g, ids) <=> /\ 0 <= Cardinality(Younger(ids, j))
                                              /\ Cardinality(Younger(ids, j)) < 0 + f.offset
    BY <2>1 DEF Page, Younger
  <2> QED BY <1>3, <2>2
<1>6. ASSUME NEW j \in ids
      PROVE  (j > i /\ j \notin Page(f, ids)) <=> j \in Page(g, ids)
  <2>1. j \in Page(f, ids) <=> /\ f.offset <= Cardinality(Younger(ids, j))
                              /\ Cardinality(Younger(ids, j)) < f.offset + f.limit
    BY DEF Page, Younger
  <2>2. CASE j > i
    <3>1. Cardinality(Younger(ids, j)) < Cardinality(Younger(ids, i))
      BY <1>2, <1>4, <2>2
    <3> QED BY <1>2, <1>3, <1>5, <2>1, <2>2, <3>1
  <2>3. CASE j = i
    BY <1>2, <1>3, <1>5, <2>3
  <2>4. CASE i > j
    <3>1. Cardinality(Younger(ids, i)) < Cardinality(Younger(ids, j))
      BY <1>2, <1>4, <2>4
    <3> QED BY <1>1, <1>2, <1>3, <1>5, <2>4, <3>1
  <2> QED BY <1>1, <1>2, <2>2, <2>3, <2>4
<1>7. Page(g, ids) \in SUBSET ids /\ Cardinality(Page(g, ids)) = PageSize(g, Cardinality(ids))
  BY PageHasSize
<1>8. {j \in ids : j > i /\ j \notin Page(f, ids)} = Page(g, ids)
  BY <1>6, <1>7
<1>9. PageSize(g, Cardinality(ids)) = f.offset
  BY <1>1, <1>2, <1>3 DEF PageSize
<1> QED BY <1>7, <1>8, <1>9

\* The rows of a page: of which incidents, how many, and how many younger
\* ones are left out.
LEMMA RowsRead ==
  ASSUME NEW table \in Table, NEW f, f.limit \in Nat, f.offset \in Nat
  PROVE  /\ Matching(f, table) \in SUBSET Ids
         /\ RowsOf(f, table) \in SUBSET (Ids \X IncidentStatus)
         /\ Cardinality(RowsOf(f, table)) = PageSize(f, Cardinality(Matching(f, table)))
         /\ \A row \in RowsOf(f, table) :
              /\ row[1] \in Matching(f, table) /\ row[2] = table[row[1]]
              /\ f.offset = Cardinality({j \in Matching(f, table) :
                                          j > row[1] /\ <<j, table[j]>> \notin RowsOf(f, table)})
<1> DEFINE ids == Matching(f, table)
<1> DEFINE page == Page(f, ids)
<1>1. ids \in SUBSET Ids
  BY DEF Matching
<1>2. page \in SUBSET ids /\ Cardinality(page) = PageSize(f, Cardinality(ids))
  BY <1>1, PageHasSize
<1>3. \A i \in page : i \in Ids /\ table[i] \in IncidentStatus
  BY <1>2 DEF Matching, Table
<1>4. IsFiniteSet(page)
  BY <1>1, <1>2, SomeIdsFinite
<1>5. \A i \in page : Cardinality({j \in ids : j > i /\ j \notin page}) = f.offset
  BY <1>1, BeforePage
<1> DEFINE h == [i \in page |-> <<i, table[i]>>]
<1>6. RowsOf(f, table) = {<<i, table[i]>> : i \in page}
  BY DEF RowsOf
<1> HIDE DEF page, ids
<1>7. h \in Bijection(page, RowsOf(f, table))
  BY <1>6 DEF Bijection, Injection, Surjection, IsInjective
<1>8. Cardinality(RowsOf(f, table)) = Cardinality(page)
  <2> HIDE DEF h
  <2>1. ExistsBijection(page, RowsOf(f, table))
    BY <1>7 DEF ExistsBijection
  <2> QED BY <1>4, <2>1, FS_Bijection
<1>9. ASSUME NEW row \in RowsOf(f, table)
      PROVE  /\ row[1] \in ids /\ row[2] = table[row[1]]
             /\ f.offset = Cardinality({j \in ids :
                                         j > row[1] /\ <<j, table[j]>> \notin RowsOf(f, table)})
  <2>1. PICK i \in page : row = <<i, table[i]>>
    BY <1>6
  <2>2. \A j \in ids : <<j, table[j]>> \in RowsOf(f, table) <=> j \in page
    BY <1>2, <1>6
  <2>3. {j \in ids : j > i /\ <<j, table[j]>> \notin RowsOf(f, table)}
          = {j \in ids : j > i /\ j \notin page}
    BY <2>2
  <2> QED BY <1>2, <1>5, <2>1, <2>3
<1> QED BY <1>1, <1>2, <1>3, <1>6, <1>8, <1>9 DEF ids

\* A commit changes by at most one how many match.
LEMMA OneCommit ==
  ASSUME NEW old \in Table, NEW new \in Table, NEW i \in Ids, NEW status,
         new = [old EXCEPT ![i] = status], NEW f
  PROVE  /\ Cardinality(Matching(f, old)) \in Nat /\ Cardinality(Matching(f, new)) \in Nat
         /\ Cardinality(Matching(f, new)) \in
              (Cardinality(Matching(f, old)) - 1)..(Cardinality(Matching(f, old)) + 1)
<1> DEFINE A == Matching(f, old)
<1> DEFINE B == Matching(f, new)
<1>1. A \in SUBSET Ids /\ B \in SUBSET Ids
  BY DEF Matching
<1>2. A \ {i} = B \ {i}
  BY DEF Matching, Table
<1> HIDE DEF A, B
<1>3. /\ IsFiniteSet(A) /\ Cardinality(A) \in Nat
      /\ IsFiniteSet(B) /\ Cardinality(B) \in Nat
  BY <1>1, SomeIdsFinite, ListingsAssumption
<1>4. /\ Cardinality(A \ {i}) = IF i \in A THEN Cardinality(A) - 1 ELSE Cardinality(A)
      /\ Cardinality(B \ {i}) = IF i \in B THEN Cardinality(B) - 1 ELSE Cardinality(B)
  BY <1>3, FS_RemoveElement
<1>5. Cardinality(A \ {i}) = Cardinality(B \ {i})
  BY <1>2
<1>6. PICK m, n : m = Cardinality(A) /\ n = Cardinality(B)
  OBVIOUS
<1>7. n = m \/ n = m - 1 \/ n - 1 = m
  BY <1>3, <1>4, <1>5, <1>6
<1>8. Cardinality(B) \in (Cardinality(A) - 1)..(Cardinality(A) + 1)
  BY <1>3, <1>6, <1>7
<1> QED BY <1>3, <1>8 DEF A, B
-----------------------------------------------------------------------------
(* Questions and answers *)

LEMMA QueryTyped ==
  ASSUME NEW q \in Queries
  PROVE  /\ q.op \in {"list", "stats"} /\ q.filter.limit \in Nat /\ q.filter.offset \in Nat
         /\ q.filter.status \in IncidentStatus \cup {"any"} /\ Key(q) \in Keys
<1>1. CASE q = Stats
  BY <1>1, ListingsAssumption DEF Stats, StatsFilter, Keys
<1>2. CASE q # Stats
  <2>1. PICK f \in Lists : q = ListQuery(f)
    BY <1>2 DEF Queries
  <2>2. f \in Filter
    BY ListingsAssumption
  <2>3. /\ Normalised(f).limit \in Nat /\ Normalised(f).offset \in Nat
        /\ Normalised(f).status \in IncidentStatus \cup {"any"}
    BY <2>2, ListingsAssumption DEF Filter, Normalised
  <2> QED BY <2>1, <2>3 DEF ListQuery, Keys
<1> QED BY <1>1, <1>2

\* What fits one question fits every question with the same key.
LEMMA OneKey ==
  ASSUME NEW q, NEW p, Key(q) = Key(p), NEW e, EntryOK(p, e)
  PROVE  EntryOK(q, e)
<1>1. /\ q.op = p.op /\ q.filter.status = p.filter.status
      /\ q.filter.limit = p.filter.limit /\ q.filter.offset = p.filter.offset
  BY DEF Key
<1>2. \A table : /\ Matching(q.filter, table) = Matching(p.filter, table)
                 /\ RowsOf(q.filter, table) = RowsOf(p.filter, table)
  BY <1>1 DEF Matching, RowsOf, Page
<1> QED BY <1>1, <1>2 DEF EntryOK, Fits, Shaped, About, Ttl

\* What an update of a task's fields makes of it.
LEMMA UpdatedTask ==
  ASSUME NEW x \in [step : Steps \ {"idle"}, query : Queries, answer : Result], NEW n
  PROVE  /\ [x EXCEPT !.step = "fill", !.answer.total = n]
              = [step |-> "fill", query |-> x.query, answer |-> [x.answer EXCEPT !.total = n]]
         /\ [x EXCEPT !.answer.writes = @ + 1]
              = [ step |-> x.step, query |-> x.query,
                  answer |-> [x.answer EXCEPT !.writes = @ + 1] ]
<1>1. \A b : [x EXCEPT !.answer = b] = [step |-> x.step, query |-> x.query, answer |-> b]
  OBVIOUS
<1>2. \A b : [x EXCEPT !.step = "fill", !.answer = b]
              = [step |-> "fill", query |-> x.query, answer |-> b]
  <2>1. PICK y : y = [x EXCEPT !.step = "fill"]
    OBVIOUS
  <2>2. y = [step |-> "fill", query |-> x.query, answer |-> x.answer]
    BY <2>1
  <2>3. \A b : [y EXCEPT !.answer = b] = [step |-> "fill", query |-> x.query, answer |-> b]
    BY <2>2
  <2> QED BY <2>1, <2>3
<1>3. /\ [x EXCEPT !.step = "fill", !.answer.total = n]
           = [x EXCEPT !.step = "fill", !.answer = [x.answer EXCEPT !.total = n]]
      /\ [x EXCEPT !.answer.writes = @ + 1] = [x EXCEPT !.answer = [x.answer EXCEPT !.writes = @ + 1]]
  OBVIOUS
<1> QED BY <1>1, <1>2, <1>3

\* The answers these updates make.
LEMMA UpdatedAnswer ==
  ASSUME NEW a \in Result, NEW n
  PROVE  /\ [a EXCEPT !.total = n]
              = [rows |-> a.rows, total |-> n, seen |-> a.seen, writes |-> a.writes]
         /\ [a EXCEPT !.writes = @ + 1]
              = [rows |-> a.rows, total |-> a.total, seen |-> a.seen, writes |-> a.writes + 1]
  BY DEF Result

LEMMA IdleOK == TaskOK(Idle)
  BY DEF TaskOK

LEMMA InitInv == Init => IInv
<1> SUFFICES ASSUME Init PROVE IInv
  OBVIOUS
<1>1. \A q \in Queries : cache[Key(q)] = Absent
  BY QueryTyped DEF Init
<1>2. \A r \in Readers : task[r] = Idle
  BY DEF Init
<1>3. cache = [k \in Keys |-> cache[k]] /\ DOMAIN task = Readers
  BY DEF Init
<1>4. /\ incidents \in Table
      /\ last \in 0..MaxId /\ writes \in 0..MaxWrites
  BY ListingsAssumption DEF Init, Table
<1> QED BY <1>1, <1>2, <1>3, <1>4, IdleOK DEF IInv

\* What is claimed of a request's locals depends on the table alone.
LEMMA TaskKept ==
  ASSUME UNCHANGED incidents, NEW r, NEW t, task'[r] = t, TaskOK(t)
  PROVE  TaskOK(task[r])'
<1>1. ASSUME NEW q, NEW a, Reading(q, a) PROVE Reading(q, a)'
  BY <1>1 DEF Reading, Shaped, About, RowsOf, Matching
<1>2. ASSUME NEW q, NEW a, Fits(q, a) PROVE Fits(q, a)'
  BY <1>2 DEF Fits, Shaped, About, RowsOf, Matching
<1>3. TaskOK(t)'
  BY <1>1, <1>2 DEF TaskOK
<1> QED BY <1>3

\* A step of one request that leaves table and cache alone.
LEMMA OwnStep ==
  ASSUME IInv, NEW r \in Readers, NEW t, TaskOK(t), Do(r, t),
         UNCHANGED <<incidents, last, writes, cache>>
  PROVE  IInv'
<1>1. task' = [task EXCEPT ![r] = t] /\ DOMAIN task = Readers
  BY DEF Do, IInv
<1>2. ASSUME NEW q \in Readers PROVE TaskOK(task[q])'
  <2>1. PICK u : u = task'[q]
    OBVIOUS
  <2>2. TaskOK(u)
    BY <1>1, <2>1 DEF IInv
  <2> QED BY <2>1, <2>2, TaskKept
<1>3. DOMAIN task' = Readers
  BY <1>1
<1>4. /\ (incidents \in Table)'
      /\ (last \in 0..MaxId /\ writes \in 0..MaxWrites)'
      /\ (cache = [k \in Keys |-> cache[k]])'
      /\ (\A q \in Queries : cache[Key(q)] # Absent => EntryOK(q, cache[Key(q)]))'
  BY DEF IInv
<1> QED BY <1>2, <1>3, <1>4 DEF IInv
-----------------------------------------------------------------------------
(* Readers *)

\* What the cache holds for a question fits it.
LEMMA HitOK == ASSUME IInv, NEW r \in Readers, NEW q \in Queries, Hit(r, q) PROVE IInv'
<1> DEFINE t == [step |-> "served", query |-> q, answer |-> cache[Key(q)].answer]
<1>1. /\ cache[Key(q)] # Absent /\ Do(r, t)
      /\ UNCHANGED <<incidents, last, writes, cache>>
  BY DEF Hit
<1>2. EntryOK(q, cache[Key(q)])
  BY <1>1 DEF IInv
<1>3. TaskOK(t)
  BY <1>2 DEF TaskOK, EntryOK, Steps
<1> QED BY <1>1, <1>3, OwnStep

LEMMA MissOK == ASSUME IInv, NEW r \in Readers, NEW q \in Queries, Miss(r, q) PROVE IInv'
<1> DEFINE t == [step |-> "rows", query |-> q, answer |-> NoAnswer]
<1>1. Do(r, t) /\ UNCHANGED <<incidents, last, writes, cache>>
  BY DEF Miss
<1>2. NoAnswer \in Result
  BY ListingsAssumption DEF NoAnswer, Result, Table
<1>3. TaskOK(t)
  BY <1>2 DEF TaskOK, Steps
<1> QED BY <1>1, <1>3, OwnStep

LEMMA RowsOK == ASSUME IInv, NEW r \in Readers, Rows(r) PROVE IInv'
<1> DEFINE q == task[r].query
<1> DEFINE a == [rows |-> RowsOf(q.filter, incidents), total |-> 0, seen |-> incidents, writes |-> 0]
<1> DEFINE t == [step |-> "count", query |-> q, answer |-> a]
<1>1. /\ task[r].step = "rows" /\ Do(r, t)
      /\ UNCHANGED <<incidents, last, writes, cache>>
  BY DEF Rows
<1>2. TaskOK(task[r])
  BY DEF IInv
<1>3. q \in Queries
  BY <1>1, <1>2 DEF TaskOK, Idle
<1>4. q.filter.limit \in Nat /\ q.filter.offset \in Nat
  BY <1>3, QueryTyped
<1>5. incidents \in Table
  BY DEF IInv
<1>6. /\ Matching(q.filter, incidents) \in SUBSET Ids
      /\ RowsOf(q.filter, incidents) \in SUBSET (Ids \X IncidentStatus)
  BY <1>4, <1>5, RowsRead
<1>7. Cardinality(Matching(q.filter, incidents)) \in Nat
  BY <1>6, SomeIdsFinite, ListingsAssumption
<1>8. a \in Result
  BY <1>5, <1>6, ListingsAssumption DEF Result
<1>9. Reading(q, a)
  <2>1. /\ a.rows = RowsOf(q.filter, incidents)
        /\ a.seen = incidents /\ a.writes = 0
    OBVIOUS
  <2> HIDE DEF q, a
  <2> QED BY <1>7, <1>8, <2>1 DEF Reading, Shaped, About
<1>10. TaskOK(t)
  <2> HIDE DEF q, a
  <2> QED BY <1>3, <1>8, <1>9 DEF TaskOK, Steps
<1> QED BY <1>1, <1>10, OwnStep

\* What matches now is counted.
LEMMA CountOK == ASSUME IInv, NEW r \in Readers, Count(r) PROVE IInv'
<1>1. PICK q, a, n : /\ q = task[r].query /\ a = task[r].answer
                     /\ n = Cardinality(Matching(q.filter, incidents))
  OBVIOUS
<1> DEFINE b == [rows |-> a.rows, total |-> n, seen |-> a.seen, writes |-> a.writes]
<1> DEFINE t == [step |-> "fill", query |-> q, answer |-> b]
<1>2. /\ task[r].step = "count" /\ UNCHANGED <<incidents, last, writes, cache>>
      /\ Do(r, [task[r] EXCEPT !.step = "fill", !.answer.total = n])
  BY <1>1 DEF Count
<1>3. TaskOK(task[r])
  BY DEF IInv
<1>4. /\ task[r] \in [step : Steps \ {"idle"}, query : Queries, answer : Result]
      /\ q \in Queries /\ a \in Result /\ Reading(q, a)
  BY <1>1, <1>2, <1>3 DEF TaskOK, Idle
<1>5. [task[r] EXCEPT !.step = "fill", !.answer.total = n] = t
  <2>1. [task[r] EXCEPT !.step = "fill", !.answer.total = n]
          = [step |-> "fill", query |-> q, answer |-> [a EXCEPT !.total = n]]
    BY <1>1, <1>4, UpdatedTask
  <2> QED BY <1>4, <2>1, UpdatedAnswer
<1>7. Matching(q.filter, incidents) \in SUBSET Ids
  BY DEF Matching
<1>8. n \in 0..MaxId
  BY <1>1, <1>7, SomeIdsFinite
<1>9. b \in Result
  BY <1>4, <1>8 DEF Result
<1>10. Fits(q, b)
  BY <1>1, <1>4, <1>9 DEF Fits, Reading, Shaped, About
<1>11. TaskOK(t)
  <2> HIDE DEF b
  <2> QED BY <1>4, <1>9, <1>10 DEF TaskOK, Steps
<1> QED BY <1>2, <1>5, <1>11, OwnStep

LEMMA FillOK == ASSUME IInv, NEW r \in Readers, Fill(r) PROVE IInv'
<1>1. PICK q, e : q = task[r].query /\ e = [answer |-> task[r].answer, left |-> Ttl(q)]
  OBVIOUS
<1>2. /\ task[r].step = "fill" /\ Do(r, Idle) /\ UNCHANGED <<incidents, last, writes>>
      /\ cache' = [cache EXCEPT ![Key(q)] = e] \/ UNCHANGED cache
  BY <1>1 DEF Fill
<1>3. CASE UNCHANGED cache
  BY <1>2, <1>3, IdleOK, OwnStep
<1>4. CASE cache' = [cache EXCEPT ![Key(q)] = e]
  <2>1. TaskOK(task[r])
    BY DEF IInv
  <2>2. q \in Queries /\ task[r].answer \in Result /\ Fits(q, task[r].answer)
    BY <1>1, <1>2, <2>1 DEF TaskOK, Idle
  <2>3. EntryOK(q, e)
    BY <1>1, <2>2, ListingsAssumption DEF EntryOK, Ttl
  <2>4. cache' = [k \in Keys |-> cache'[k]]
    BY <1>4 DEF IInv
  <2>5. ASSUME NEW p \in Queries, cache'[Key(p)] # Absent PROVE EntryOK(p, cache'[Key(p)])
    <3>1. CASE Key(p) = Key(q)
      <4>1. Key(p) \in Keys
        BY QueryTyped
      <4>2. cache'[Key(p)] = e
        BY <1>4, <3>1, <4>1 DEF IInv
      <4>3. EntryOK(p, e)
        BY <2>3, <3>1, OneKey
      <4> QED BY <4>2, <4>3
    <3>2. CASE Key(p) # Key(q)
      <4>1. Key(p) \in Keys
        BY QueryTyped
      <4>2. cache'[Key(p)] = cache[Key(p)]
        BY <1>4, <3>2, <4>1 DEF IInv
      <4> QED BY <2>5, <4>2 DEF IInv
    <3> QED BY <3>1, <3>2
  <2>6. task' = [task EXCEPT ![r] = Idle] /\ DOMAIN task = Readers
    BY <1>2 DEF Do, IInv
  <2>7. ASSUME NEW p \in Readers PROVE TaskOK(task[p])'
    <3>1. PICK u : u = task'[p]
      OBVIOUS
    <3>2. TaskOK(u)
      BY <2>6, <3>1, IdleOK DEF IInv
    <3> QED BY <1>2, <3>1, <3>2, TaskKept
  <2>8. /\ (incidents \in Table)'
        /\ (last \in 0..MaxId /\ writes \in 0..MaxWrites)'
    BY <1>2 DEF IInv
  <2>9. (\A p \in Queries : cache[Key(p)] # Absent => EntryOK(p, cache[Key(p)]))'
    BY <2>5 DEF EntryOK, Fits, Shaped, About, RowsOf, Matching
  <2> QED BY <2>4, <2>6, <2>7, <2>8, <2>9 DEF IInv
<1> QED BY <1>2, <1>3, <1>4
-----------------------------------------------------------------------------
(* Writers and time *)

\* Readers between their two queries know that the table has changed; the
\* others do not depend on it.
LEMMA CommitOK ==
  ASSUME IInv, NEW i \in Ids, NEW status \in IncidentStatus \cup {Absent},
         Commit(i, status), last' \in 0..MaxId
  PROVE  IInv'
<1>1. /\ writes < MaxWrites /\ writes' = writes + 1
      /\ incidents' = [incidents EXCEPT ![i] = status]
      /\ task' = [r \in Readers |-> IF task[r].step = "count"
                                    THEN [task[r] EXCEPT !.answer.writes = @ + 1] ELSE task[r]]
      /\ UNCHANGED cache
  BY DEF Commit
<1>2. incidents' \in Table /\ writes' \in 0..MaxWrites
  BY <1>1, ListingsAssumption DEF IInv, Table
<1>3. ASSUME NEW r \in Readers PROVE TaskOK(task[r])'
  <2>1. TaskOK(task[r])
    BY DEF IInv
  <2>2. CASE task[r].step = "count"
    <3>1. PICK q, a : q = task[r].query /\ a = task[r].answer
      OBVIOUS
    <3>2. PICK b : b = [ rows |-> a.rows, total |-> a.total, seen |-> a.seen,
                         writes |-> a.writes + 1 ]
      OBVIOUS
    <3>3. /\ task[r] \in [step : Steps \ {"idle"}, query : Queries, answer : Result]
          /\ q \in Queries /\ a \in Result /\ Reading(q, a)
      BY <2>1, <2>2, <3>1 DEF TaskOK, Idle
    <3>4. task'[r] = [step |-> "count", query |-> q, answer |-> b]
      <4>1. task'[r] = [task[r] EXCEPT !.answer.writes = @ + 1]
        BY <1>1, <2>2
      <4>2. [task[r] EXCEPT !.answer.writes = @ + 1] = [step |-> "count", query |-> q, answer |-> b]
        <5>1. [task[r] EXCEPT !.answer.writes = @ + 1]
                = [step |-> "count", query |-> q, answer |-> [a EXCEPT !.writes = @ + 1]]
          BY <2>2, <3>1, <3>3, UpdatedTask
        <5> QED BY <3>2, <3>3, <5>1, UpdatedAnswer
      <4> QED BY <4>1, <4>2
    <3>5. b \in Result
      BY <3>2, <3>3 DEF Result
    <3>6. Reading(q, b)'
      <4>1. PICK n, m, k : /\ n = Cardinality(Matching(q.filter, incidents))
                           /\ m = Cardinality(Matching(q.filter, incidents'))
                           /\ k = Cardinality(Matching(q.filter, a.seen))
        OBVIOUS
      <4>2. n \in Nat /\ m \in Nat /\ m \in (n - 1)..(n + 1)
        <5>1. incidents \in Table /\ incidents' \in Table
          BY <1>2 DEF IInv
        <5> QED BY <1>1, <4>1, <5>1, OneCommit
      <4>3. a.writes \in Nat /\ a.seen \in Table /\ a.rows = RowsOf(q.filter, a.seen)
        BY <3>3 DEF Reading, Shaped, Result
      <4>4. k \in (n - a.writes)..(n + a.writes)
        BY <3>3, <4>1 DEF Reading, About
      <4>5. k \in (m - (a.writes + 1))..(m + (a.writes + 1))
        BY <4>2, <4>3, <4>4
      <4>6. b.seen = a.seen /\ b.rows = a.rows /\ b.writes = a.writes + 1
        BY <3>2
      <4> QED BY <3>5, <4>1, <4>3, <4>5, <4>6 DEF Reading, Shaped, About, Matching, RowsOf
    <3> QED BY <3>3, <3>4, <3>5, <3>6 DEF TaskOK, Steps
  <2>3. CASE task[r].step # "count"
    <3>1. PICK u : u = task[r]
      OBVIOUS
    <3>2. task'[r] = u /\ u.step # "count" /\ TaskOK(u)
      BY <1>1, <2>1, <2>3, <3>1
    <3>3. ASSUME NEW q, NEW a, Fits(q, a) PROVE Fits(q, a)'
      BY <3>3 DEF Fits, Shaped, About, RowsOf, Matching
    <3> QED BY <3>2, <3>3 DEF TaskOK
  <2> QED BY <2>2, <2>3
<1>4. DOMAIN task' = Readers
  BY <1>1
<1>5. /\ (cache = [k \in Keys |-> cache[k]])'
      /\ (\A q \in Queries : cache[Key(q)] # Absent => EntryOK(q, cache[Key(q)]))'
  BY <1>1 DEF IInv
<1> QED BY <1>2, <1>3, <1>4, <1>5 DEF IInv

LEMMA TickOK == ASSUME IInv, Tick PROVE IInv'
<1>1. /\ cache' = [k \in Keys |-> IF cache[k] = Absent THEN Absent
                                  ELSE IF cache[k].left = 1 THEN Absent
                                  ELSE [cache[k] EXCEPT !.left = @ - 1]]
      /\ UNCHANGED <<incidents, last, writes, task>>
  BY DEF Tick
<1>2. ASSUME NEW q \in Queries, cache'[Key(q)] # Absent PROVE EntryOK(q, cache'[Key(q)])
  <2>1. PICK k, e : k = Key(q) /\ e = cache[k]
    OBVIOUS
  <2>2. k \in Keys
    BY <2>1, QueryTyped
  <2>3. e # Absent /\ e.left # 1 /\ cache'[k] = [e EXCEPT !.left = @ - 1]
    BY <1>1, <1>2, <2>1, <2>2
  <2>4. EntryOK(q, e)
    BY <2>1, <2>3 DEF IInv
  <2>5. Ttl(q) \in Nat
    BY ListingsAssumption DEF Ttl
  <2>6. [e EXCEPT !.left = @ - 1] \in [answer : Result, left : 1..Ttl(q)]
    BY <2>3, <2>4, <2>5 DEF EntryOK
  <2>7. [e EXCEPT !.left = @ - 1].answer = e.answer
    BY <2>4 DEF EntryOK
  <2> QED BY <2>1, <2>3, <2>4, <2>6, <2>7 DEF EntryOK
<1>3. (\A q \in Queries : cache[Key(q)] # Absent => EntryOK(q, cache[Key(q)]))'
  BY <1>2 DEF EntryOK, Fits, Shaped, About, RowsOf, Matching
<1>4. ASSUME NEW r \in Readers PROVE TaskOK(task[r])'
  <2>1. TaskOK(task[r])
    BY DEF IInv
  <2>2. PICK t : t = task[r]
    OBVIOUS
  <2>3. task'[r] = t /\ TaskOK(t)
    BY <1>1, <2>1, <2>2
  <2> QED BY <1>1, <2>3, TaskKept
<1>5. cache' = [k \in Keys |-> cache'[k]]
  BY <1>1
<1>6. /\ (incidents \in Table)'
      /\ (last \in 0..MaxId /\ writes \in 0..MaxWrites /\ DOMAIN task = Readers)'
  BY <1>1 DEF IInv
<1> QED BY <1>3, <1>4, <1>5, <1>6 DEF IInv
-----------------------------------------------------------------------------
LEMMA NextInv == IInv /\ [Next]_vars => IInv'
<1> SUFFICES ASSUME IInv, [Next]_vars PROVE IInv'
  OBVIOUS
<1>1. CASE UNCHANGED vars
  <2>1. ASSUME NEW r \in Readers PROVE TaskOK(task[r])'
    <3>1. TaskOK(task[r])
      BY DEF IInv
    <3> QED BY <1>1, <3>1 DEF vars, TaskOK, Reading, About, Matching
  <2> QED BY <1>1, <2>1 DEF vars, IInv
<1>2. CASE Created
  <2>1. last \in Nat /\ last < MaxId /\ last' = last + 1 /\ Commit(last + 1, "created")
    BY <1>2 DEF Created, IInv
  <2>2. last + 1 \in Ids /\ last' \in 0..MaxId /\ "created" \in IncidentStatus
    BY <2>1, ListingsAssumption DEF Ids, IncidentStatus
  <2> QED BY <2>1, <2>2, CommitOK
<1>3. ASSUME NEW i \in Ids, Deleted(i) PROVE IInv'
  BY <1>3, CommitOK DEF Deleted, IInv
<1>4. ASSUME NEW i \in Ids, NEW to \in Targets, Saved(i, to) PROVE IInv'
  BY <1>4, CommitOK, ListingsAssumption DEF Saved, IInv
<1>5. ASSUME NEW r \in Readers, Answer(r) PROVE IInv'
  BY <1>5, IdleOK, OwnStep DEF Answer
<1> QED BY <1>1, <1>2, <1>3, <1>4, <1>5, HitOK, MissOK, RowsOK, CountOK, FillOK, TickOK
        DEF Next, GoOn

LEMMA Invariant == Spec => []IInv
  BY InitInv, NextInv, PTL DEF Spec

\* The table, the cache and what requests carry keep their types, and no
\* entry outlives its time.
THEOREM ListingsTyped == Spec => []TypeOK
<1>1. IInv => TypeOK
  <2> SUFFICES ASSUME IInv PROVE TypeOK
    OBVIOUS
  <2>1. ASSUME NEW r \in Readers
        PROVE  /\ task[r].step \in Steps
               /\ task[r] # Idle => task[r].query \in Queries /\ task[r].answer \in Result
    <3>1. TaskOK(task[r])
      BY DEF IInv
    <3> QED BY <3>1 DEF TaskOK, Idle, Steps
  <2>2. ASSUME NEW q \in Queries, cache[Key(q)] # Absent
        PROVE  /\ cache[Key(q)].answer \in Result
               /\ cache[Key(q)].left \in 1..(IF q.op = "list" THEN ListTtl ELSE StatsTtl)
    BY <2>2 DEF IInv, EntryOK, Ttl
  <2> QED BY <2>1, <2>2 DEF IInv, TypeOK
<1> QED BY <1>1, Invariant, PTL

LEMMA ServedFits ==
  ASSUME IInv, NEW r \in Readers, Served(r)
  PROVE  Fits(task[r].query, task[r].answer)
<1>1. TaskOK(task[r])
  BY DEF IInv
<1> QED BY <1>1 DEF TaskOK, Served, Idle

\* Every answer of findAll or getStats, cached or not, has the rows of the
\* page that was asked for, as the table had them when they were read.
THEOREM AnswersFit == Spec => []ServedToTheRightQuery
<1> DEFINE Right(f, a) ==
             /\ Cardinality(a.rows) = PageSize(f, Cardinality(Wanted(f, a)))
             /\ \A row \in a.rows :
                  /\ row[1] \in Wanted(f, a) /\ row[2] = a.seen[row[1]]
                  /\ f.offset = Cardinality({j \in Wanted(f, a) :
                                              j > row[1] /\ <<j, a.seen[j]>> \notin a.rows})
<1>1. ASSUME IInv, NEW r \in Readers, Served(r) PROVE Right(task[r].query.filter, task[r].answer)
  <2> DEFINE f == task[r].query.filter
  <2> DEFINE a == task[r].answer
  <2>1. task[r].query \in Queries
    <3>1. TaskOK(task[r])
      BY <1>1 DEF IInv
    <3> QED BY <1>1, <3>1 DEF TaskOK, Served, Idle
  <2>2. f.limit \in Nat /\ f.offset \in Nat
    BY <1>1, <2>1, QueryTyped
  <2>3. a.seen \in Table /\ a.rows = RowsOf(f, a.seen)
    BY <1>1, ServedFits DEF Fits, Shaped, Result
  <2>4. Wanted(f, a) = Matching(f, a.seen)
    <3>1. f.status \in IncidentStatus \cup {"any"}
      BY <1>1, <2>1, QueryTyped
    <3> QED BY <2>3, <3>1, ListingsAssumption DEF Wanted, Matching, Table
  <2>5. /\ Cardinality(RowsOf(f, a.seen)) = PageSize(f, Cardinality(Matching(f, a.seen)))
        /\ \A row \in RowsOf(f, a.seen) :
             /\ row[1] \in Matching(f, a.seen) /\ row[2] = a.seen[row[1]]
             /\ f.offset = Cardinality({j \in Matching(f, a.seen) :
                                         j > row[1] /\ <<j, a.seen[j]>> \notin RowsOf(f, a.seen)})
    BY <2>2, <2>3, RowsRead
  <2> HIDE DEF f, a
  <2>6. Right(f, a)
    BY <2>3, <2>4, <2>5
  <2> QED BY <2>6 DEF f, a
<1>2. IInv => ServedToTheRightQuery
  BY <1>1 DEF ServedToTheRightQuery
<1> QED BY <1>2, Invariant, PTL

\* An answer's total says how many rows its page has, but for one for each
\* commit between the two queries.
THEOREM TotalsFit == Spec => []RowsMatchTotal
<1> DEFINE Near(f, a) ==
             Cardinality(a.rows) \in PageSize(f, a.total - a.writes)..PageSize(f, a.total + a.writes)
<1>1. ASSUME IInv, NEW r \in Readers, Served(r) PROVE Near(task[r].query.filter, task[r].answer)
  <2> DEFINE f == task[r].query.filter
  <2> DEFINE a == task[r].answer
  <2>1. task[r].query \in Queries
    <3>1. TaskOK(task[r])
      BY <1>1 DEF IInv
    <3> QED BY <1>1, <3>1 DEF TaskOK, Served, Idle
  <2>2. f.limit \in Nat /\ f.offset \in Nat
    BY <1>1, <2>1, QueryTyped
  <2>3. Fits(task[r].query, a)
    BY <1>1, ServedFits
  <2>4. /\ a.seen \in Table /\ a.rows = RowsOf(f, a.seen)
        /\ a.total \in Nat /\ a.writes \in Nat
    BY <1>1, <2>3, ListingsAssumption DEF Fits, Shaped, Result
  <2>5. PICK n : n = Cardinality(Matching(f, a.seen))
    OBVIOUS
  <2>6. n \in Nat /\ Cardinality(a.rows) = PageSize(f, n)
    <3>1. Matching(f, a.seen) \in SUBSET Ids
      BY DEF Matching
    <3> QED BY <2>2, <2>4, <2>5, <3>1, RowsRead, SomeIdsFinite, ListingsAssumption
  <2>7. n \in (a.total - a.writes)..(a.total + a.writes)
    BY <1>1, <2>3, <2>5 DEF Fits, About
  <2> QED BY <2>2, <2>4, <2>6, <2>7 DEF PageSize
<1>2. IInv => RowsMatchTotal
  BY <1>1 DEF RowsMatchTotal
<1> QED BY <1>2, Invariant, PTL
====
