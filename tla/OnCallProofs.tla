---- MODULE OnCallProofs ----
(***************************************************************************)
(* Theorems about OnCall, for every set of schedules, users and requests,  *)
(* all dates and any length of the day: the types, that the rows of a run  *)
(* cover each moment of its dates once, that the lookup then finds one of  *)
(* them or a later one, that the turns go round the list evenly, and that  *)
(* an unknown user is only ever found by way of an override.               *)
(***************************************************************************)
EXTENDS OnCall, FiniteSetTheorems, WellFoundedInduction, TLAPS

\* The list the loop goes through begins with the most urgent.
Ordered(list) == \A i, j \in DOMAIN list : i < j => list[i].priority <= list[j].priority

\* The rows of a run are those the loop makes of its list and dates.
RunOK(g) == /\ g \in Run
            /\ Len(g.list) # 0 /\ Ordered(g.list)
            /\ \E period \in Nat \ {0} : g.rows = Rows(g.schedule, g.list, period, g.from, g.to)
            /\ \A x \in g.rows : x.user \in KnownUsers

AssignmentsOK == /\ assignments \in Seq(Assignment)
                 /\ \A i \in DOMAIN assignments : assignments[i].user \in KnownUsers

RotationsOK == /\ rotations \in SUBSET Rotation
               /\ \A x \in rotations : ~x.isOverride => x.user \in KnownUsers

TaskOK(t) == /\ t \in Task
             /\ t.step = "a_save" => t.row.user \in KnownUsers
             /\ t.step = "g_save" => RunOK(t.run)
             /\ t.step = "l_user" => t.row \in rotations

GeneratedOK == \A g \in generated : RunOK(g) /\ g.rows \subseteq rotations

IInv == /\ schedules \in [Schedules -> Types \cup {Absent}]
        /\ AssignmentsOK
        /\ RotationsOK
        /\ now \in Nat
        /\ task \in [Requests -> Task]
        /\ \A r \in Requests : TaskOK(task[r])
        /\ GeneratedOK

-----------------------------------------------------------------------------
\* A record of Task is known by its step.
LEMMA TaskByStep ==
  ASSUME NEW t \in Task
  PROVE  /\ t.step \in {"a_user", "a_save"} => t \in [step : {"a_user", "a_save"}, row : Assignment]
         /\ t.step = "g_save" => t \in [step : {"g_save"}, run : Run]
         /\ t.step = "l_user" => t \in [step : {"l_user"}, row : Rotation]
  BY DEF Task, Idle

\* getRotationPeriod never answers zero.
LEMMA PeriodPositive ==
  ASSUME NEW type \in Types
  PROVE  Period(type) \in Nat \ {0}
  <1>1. CASE type = "daily"
    BY <1>1, OnCallAssumption DEF Period
  <1>2. CASE type = "weekly"
    BY <1>2, OnCallAssumption DEF Period
  <1>3. CASE type = "monthly"
    BY <1>3, OnCallAssumption DEF Period
  <1> QED BY <1>1, <1>2, <1>3, OnCallAssumption

\* The period a moment falls into, counted from the start, is the only one.
LEMMA PeriodOfMoment ==
  ASSUME NEW from \in Int, NEW t \in Int, NEW period \in Nat \ {0}, from <= t
  PROVE  LET i == (t - from) \div period IN
           /\ i \in 0..(t - from)
           /\ from + i * period <= t /\ t < from + (i + 1) * period
  <1> DEFINE d == t - from
  <1> DEFINE i == d \div period
  <1>1. d \in Nat
    OBVIOUS
  <1> HIDE DEF d
  <1>2. i \in Nat /\ i * period <= d /\ d < (i + 1) * period
    BY <1>1, SMTT(30)
  <1>3. i <= d
    BY <1>1, <1>2, SMTT(30)
  <1> HIDE DEF i
  <1>4. i \in 0..d /\ from + i * period <= from + d /\ from + d < from + (i + 1) * period
    <2>1. i * period \in Int /\ (i + 1) * period \in Int
      BY <1>2
    <2> QED BY <1>1, <1>2, <1>3, <2>1
  <1> QED BY <1>4 DEF d, i

LEMMA PeriodsApart ==
  ASSUME NEW from \in Int, NEW t \in Int, NEW period \in Nat \ {0}, NEW i \in Nat, NEW j \in Nat,
         from + i * period <= t, t < from + (i + 1) * period,
         from + j * period <= t, t < from + (j + 1) * period
  PROVE  i = j
  <1>1. \A a, b \in Nat : a < b => (a + 1) * period <= b * period
    BY SMTT(30)
  <1>2. \A a \in Nat : a * period \in Int /\ (a + 1) * period \in Int
    OBVIOUS
  <1> QED BY <1>1, <1>2
-----------------------------------------------------------------------------
(* The rows of one run *)

\* Exactly one row of a run covers a moment of its dates.
LEMMA RowsCoverOnce ==
  ASSUME NEW g, RunOK(g), NEW t \in g.from..g.to
  PROVE  Cardinality({x \in g.rows : x.start <= t /\ t < x.end}) = 1
<1> DEFINE S == {x \in g.rows : x.start <= t /\ t < x.end}
<1>0. g.from \in Dates /\ g.to \in Dates
  BY DEF RunOK, Run
<1>1. g.from \in Int /\ g.to \in Int /\ t \in Int /\ g.from <= t /\ t <= g.to
  <2>1. g.from \in Int /\ g.to \in Int
    BY <1>0, OnCallAssumption, Zenon
  <2>2. \A a, b \in Int : \A c \in a..b : c \in Int /\ a <= c /\ c <= b
    OBVIOUS
  <2> QED BY <2>1, <2>2, Zenon
<1>2. PICK period \in Nat \ {0} : g.rows = Rows(g.schedule, g.list, period, g.from, g.to)
  BY DEF RunOK
<1> DEFINE Row(i) == [ schedule |-> g.schedule, user |-> UserOfTurn(g.list, i),
                       start |-> g.from + i * period, end |-> g.from + (i + 1) * period,
                       isOverride |-> FALSE ]
<1> DEFINE I == (t - g.from) \div period
<1>3. I \in 0..(t - g.from) /\ g.from + I * period <= t /\ t < g.from + (I + 1) * period
  BY <1>1, PeriodOfMoment
<1>4. I \in Turns(period, g.from, g.to)
  BY <1>1, <1>3 DEF Turns
<1>5. g.rows = {Row(i) : i \in Turns(period, g.from, g.to)}
  BY <1>2 DEF Rows
<1> HIDE DEF I
<1>6. Row(I) \in S
  BY <1>3, <1>4, <1>5
<1>7. \A x \in S : x = Row(I)
  <2> SUFFICES ASSUME NEW i \in Turns(period, g.from, g.to), Row(i) \in S PROVE i = I
    BY <1>5
  <2>1. i \in Nat /\ I \in Nat
    BY <1>1, <1>3 DEF Turns
  <2>2. g.from + i * period <= t /\ t < g.from + (i + 1) * period
    OBVIOUS
  <2> QED BY <1>1, <1>3, <2>1, <2>2, PeriodsApart
<1>8. S = {Row(I)}
  BY <1>6, <1>7
<1> QED BY <1>8, FS_Singleton

\* What the sort leaves is a list of assignments of the schedule.
LEMMA SortedTypes ==
  ASSUME AssignmentsOK, NEW s \in Schedules, AssignmentsOf(s) # {}, NEW list \in Sorted(s)
  PROVE  /\ list \in Seq(Assignment) /\ Len(list) \in Nat \ {0} /\ Ordered(list)
         /\ \A i \in 1..Len(list) : list[i].user \in KnownUsers
<1> DEFINE n == Cardinality(AssignmentsOf(s))
<1>1. AssignmentsOf(s) \subseteq 1..Len(assignments) /\ Len(assignments) \in Nat
  BY DEF AssignmentsOf, AssignmentsOK
<1>2. IsFiniteSet(AssignmentsOf(s))
  <2>1. IsFiniteSet(1..Len(assignments))
    BY <1>1, FS_Interval
  <2> QED BY <1>1, <2>1, FS_Subset
<1>3. n \in Nat \ {0}
  BY <1>2, FS_CardinalityType, FS_EmptySet
<1>4. PICK p \in [1..n -> AssignmentsOf(s)] :
        /\ list = [i \in 1..n |-> assignments[p[i]]]
        /\ \A i, j \in 1..n : i < j => assignments[p[i]].priority <= assignments[p[j]].priority
  BY DEF Sorted
<1> HIDE DEF n
<1>5. \A i \in 1..n : /\ p[i] \in DOMAIN assignments /\ assignments[p[i]] \in Assignment
                       /\ assignments[p[i]].user \in KnownUsers
  BY <1>1, <1>4 DEF AssignmentsOK
<1>6. list \in Seq(Assignment) /\ Len(list) = n
  BY <1>3, <1>4, <1>5
<1>7. Ordered(list)
  BY <1>4, <1>6 DEF Ordered
<1> QED BY <1>3, <1>4, <1>5, <1>6, <1>7

\* The rows are rotations of users the list names.
LEMMA RowsTypes ==
  ASSUME NEW s \in Schedules, NEW list \in Seq(Assignment), Len(list) \in Nat \ {0},
         \A i \in 1..Len(list) : list[i].user \in KnownUsers,
         NEW period \in Nat \ {0}, NEW from \in Int, NEW to \in Int,
         NEW x \in Rows(s, list, period, from, to)
  PROVE  x \in Rotation /\ x.user \in KnownUsers
<1>1. PICK i \in Turns(period, from, to) :
        x = [ schedule |-> s, user |-> UserOfTurn(list, i), start |-> from + i * period,
              end |-> from + (i + 1) * period, isOverride |-> FALSE ]
  BY DEF Rows
<1>2. i \in Nat
  BY DEF Turns
<1>3. (i % Len(list)) + 1 \in 1..Len(list)
  BY <1>2
<1>4. UserOfTurn(list, i) \in KnownUsers
  BY <1>3 DEF UserOfTurn
<1>5. from + i * period \in Int /\ from + (i + 1) * period \in Int
  BY <1>2
<1> QED BY <1>1, <1>4, <1>5, OnCallAssumption DEF Rotation
-----------------------------------------------------------------------------
(* The turns of a run *)

\* Multiples of a period keep the order of their factors.
LEMMA MultiplesOrdered ==
  ASSUME NEW L \in Nat \ {0}
  PROVE  /\ \A a \in Nat : a * L \in Nat /\ (a + 1) * L = a * L + L
         /\ \A a, b \in Nat : a < b => (a + 1) * L <= b * L
         /\ \A a, b \in Nat : a <= b => a * L <= b * L
<1>1. \A a, b \in Nat : a <= b => a * L <= b * L
  BY SMTT(30)
<1>2. \A a \in Nat : a * L \in Nat /\ (a + 1) * L = a * L + L
  BY SMTT(30)
<1>3. \A a, b \in Nat : a < b => a + 1 \in Nat /\ a + 1 <= b
  OBVIOUS
<1> QED BY <1>1, <1>2, <1>3, Zenon

\* Which round a turn is of, and which place it has in the round.
LEMMA RoundAndPlace ==
  ASSUME NEW L \in Nat \ {0}, NEW a \in Nat
  PROVE  a \div L \in Nat /\ a % L \in 0..(L - 1) /\ a = (a \div L) * L + (a % L)
BY SMTT(30)

LEMMA OneRoundAndPlace ==
  ASSUME NEW L \in Nat \ {0}, NEW k \in Nat, NEW c \in 0..(L - 1)
  PROVE  k * L + c \in Nat /\ (k * L + c) \div L = k /\ (k * L + c) % L = c
<1>1. PICK a \in Nat : a = k * L + c
  BY MultiplesOrdered
<1>2. PICK q \in Nat, d \in 0..(L - 1) : q = a \div L /\ d = a % L /\ a = q * L + d
  BY RoundAndPlace
<1>3. /\ q < k => q * L + L <= k * L
      /\ k < q => k * L + L <= q * L
      /\ k * L \in Nat /\ q * L \in Nat
  BY MultiplesOrdered
<1>4. ~(q < k) /\ ~(k < q)
  BY <1>1, <1>2, <1>3
<1>5. q = k
  BY <1>4
<1>6. d = c
  BY <1>1, <1>2, <1>3, <1>5
<1> QED BY <1>1, <1>2, <1>5, <1>6

LEMMA PairOf ==
  ASSUME NEW A, NEW B, NEW x \in A \X B
  PROVE  x[1] \in A /\ x[2] \in B /\ x = <<x[1], x[2]>>
OBVIOUS

\* Of the first n turns, those at some places are as many as the places in
\* each full round, and no more than that in the rounds begun.
LEMMA TurnsAtPlaces ==
  ASSUME NEW L \in Nat \ {0}, NEW n \in Nat, NEW P \in SUBSET (1..L)
  PROVE  LET S == {i \in 0..(n - 1) : (i % L) + 1 \in P} IN
           /\ (n \div L) * Cardinality(P) <= Cardinality(S)
           /\ Cardinality(S) <= ((n + L - 1) \div L) * Cardinality(P)
<1> DEFINE S == {i \in 0..(n - 1) : (i % L) + 1 \in P}
           T(q) == (0..(q - 1)) \X P
<1>1. IsFiniteSet(P) /\ IsFiniteSet(S)
  <2>1. IsFiniteSet(1..L) /\ IsFiniteSet(0..(n - 1))
    BY FS_Interval
  <2> QED BY <2>1, FS_Subset
<1>2. ASSUME NEW q \in Nat PROVE IsFiniteSet(T(q)) /\ Cardinality(T(q)) = q * Cardinality(P)
  <2>1. IsFiniteSet(0..(q - 1)) /\ Cardinality(0..(q - 1)) = q
    BY FS_Interval
  <2> QED BY <1>1, <2>1, FS_Product
<1>3. Cardinality(T(n \div L)) <= Cardinality(S)
  <2>1. PICK q \in Nat : q = n \div L /\ q * L <= n
    <3>1. n \div L \in Nat /\ n % L \in Nat /\ n = (n \div L) * L + (n % L)
      BY RoundAndPlace
    <3>2. (n \div L) * L \in Nat
      BY <3>1, MultiplesOrdered
    <3> QED BY <3>1, <3>2
  <2> DEFINE f == [x \in T(q) |-> x[1] * L + (x[2] - 1)]
  <2>2. ASSUME NEW x \in T(q)
        PROVE  x[1] \in 0..(q - 1) /\ x[2] \in P /\ x[2] - 1 \in 0..(L - 1) /\ x = <<x[1], x[2]>>
    <3>1. x[1] \in 0..(q - 1) /\ x[2] \in P /\ x = <<x[1], x[2]>>
      BY PairOf
    <3>2. \A p \in P : p - 1 \in 0..(L - 1)
      OBVIOUS
    <3> QED BY <3>1, <3>2, Zenon
  <2>3. ASSUME NEW x \in T(q)
        PROVE  f[x] \in S /\ f[x] \div L = x[1] /\ f[x] % L = x[2] - 1
    <3>1. PICK k \in Nat, c \in 0..(L - 1) : k = x[1] /\ c = x[2] - 1 /\ k < q
      BY <2>2
    <3>2. k * L + c \in Nat /\ (k * L + c) \div L = k /\ (k * L + c) % L = c
      BY OneRoundAndPlace
    <3>3. (k + 1) * L = k * L + L /\ (k + 1) * L <= q * L /\ k * L \in Nat /\ q * L \in Nat
      BY <3>1, MultiplesOrdered
    <3>4. k * L + c <= n - 1
      BY <2>1, <3>3
    <3>5. c + 1 \in P
      <4>1. x[2] \in P /\ x[2] \in 1..L
        BY <2>2
      <4> QED BY <3>1, <4>1
    <3> QED BY <3>1, <3>2, <3>4, <3>5
  <2>4. f \in Injection(T(q), S)
    <3>1. f \in [T(q) -> S]
      BY <2>3
    <3>2. ASSUME NEW x \in T(q), NEW y \in T(q), f[x] = f[y] PROVE x = y
      <4> HIDE DEF f
      <4>1. x[1] = y[1] /\ x[2] - 1 = y[2] - 1
        BY <2>3, <3>2
      <4>2. x[2] \in P /\ y[2] \in P
        BY <2>2
      <4>3. \A p \in P : p \in Int
        OBVIOUS
      <4>4. \A a, b \in Int : a - 1 = b - 1 => a = b
        OBVIOUS
      <4>5. x[2] = y[2]
        BY <4>1, <4>2, <4>3, <4>4, Zenon
      <4> QED BY <2>2, <4>1, <4>5
    <3> HIDE DEF f
    <3> QED BY <3>1, <3>2 DEF Injection, IsInjective
  <2> HIDE DEF f, T, S
  <2> QED BY <1>1, <2>1, <2>4, FS_Injection
<1>4. Cardinality(S) <= Cardinality(T((n + L - 1) \div L))
  <2> DEFINE m == n + L - 1
  <2>1. PICK q \in Nat : q = m \div L /\ m < (q + 1) * L
    <3>1. m \in Nat
      OBVIOUS
    <3> HIDE DEF m
    <3>2. m \div L \in Nat /\ m % L \in 0..(L - 1) /\ m = (m \div L) * L + (m % L)
      BY <3>1, RoundAndPlace
    <3>3. (m \div L + 1) * L = (m \div L) * L + L /\ (m \div L) * L \in Nat
      BY <3>2, MultiplesOrdered
    <3> QED BY <3>2, <3>3
  <2> DEFINE f == [i \in S |-> <<i \div L, (i % L) + 1>>]
  <2>2. ASSUME NEW i \in S
        PROVE  /\ i \div L \in 0..(q - 1) /\ i % L \in Int /\ (i % L) + 1 \in P
               /\ i = (i \div L) * L + (i % L)
    <3>1. PICK k \in Nat, c \in 0..(L - 1) : k = i \div L /\ c = i % L /\ i = k * L + c
      <4>1. i \in Nat
        OBVIOUS
      <4> QED BY <4>1, RoundAndPlace
    <3>2. k * L \in Nat /\ (k + 1) * L = k * L + L
      BY MultiplesOrdered
    <3>3. (k + 1) * L < (q + 1) * L
      <4>1. (q + 1) * L \in Nat
        BY MultiplesOrdered
      <4>2. k * L + L <= m
        BY <3>1, <3>2
      <4>3. m \in Nat
        OBVIOUS
      <4> HIDE DEF m
      <4> QED BY <2>1, <3>2, <4>1, <4>2, <4>3
    <3>4. ~(q + 1 <= k + 1)
      <4>1. q + 1 <= k + 1 => (q + 1) * L <= (k + 1) * L
        BY MultiplesOrdered
      <4>2. (q + 1) * L \in Nat /\ (k + 1) * L \in Nat
        BY MultiplesOrdered
      <4> QED BY <3>3, <4>1, <4>2
    <3>5. k \in 0..(q - 1)
      BY <3>4
    <3> QED BY <3>1, <3>5
  <2>3. f \in Injection(S, T(q))
    <3>1. f \in [S -> T(q)]
      BY <2>2
    <3>2. ASSUME NEW i \in S, NEW j \in S, f[i] = f[j] PROVE i = j
      <4>1. i \div L = j \div L /\ (i % L) + 1 = (j % L) + 1
        BY <3>2
      <4>2. i % L = j % L
        <5>1. i % L \in Int /\ j % L \in Int
          BY <2>2
        <5> QED BY <4>1, <5>1
      <4> QED BY <2>2, <4>1, <4>2
    <3> HIDE DEF f
    <3> QED BY <3>1, <3>2 DEF Injection, IsInjective
  <2>4. IsFiniteSet(T(q))
    BY <1>2
  <2> HIDE DEF f, T, S
  <2> QED BY <2>1, <2>3, <2>4, FS_Injection
<1>5. n \div L \in Nat /\ (n + L - 1) \div L \in Nat
  <2>1. n + L - 1 \in Nat
    OBVIOUS
  <2> QED BY <2>1, RoundAndPlace
<1> HIDE DEF T, S
<1>6. /\ Cardinality(T(n \div L)) = (n \div L) * Cardinality(P)
      /\ Cardinality(T((n + L - 1) \div L)) = ((n + L - 1) \div L) * Cardinality(P)
  BY <1>2, <1>5
<1>7. (n \div L) * Cardinality(P) <= Cardinality(S)
  BY <1>3, <1>6
<1>8. Cardinality(S) <= ((n + L - 1) \div L) * Cardinality(P)
  BY <1>4, <1>6
<1> QED BY <1>7, <1>8 DEF S
\* The loop takes the turns from 0 on.
LEMMA TurnsFromZero ==
  ASSUME NEW period \in Nat \ {0}, NEW from \in Int, NEW to \in Int
  PROVE  \E n \in Nat : Turns(period, from, to) = 0..(n - 1)
<1>1. CASE to < from
  <2>1. 0..(to - from) = {} /\ 0..(0 - 1) = {}
    BY <1>1
  <2>2. Turns(period, from, to) = 0..(0 - 1)
    BY <2>1 DEF Turns
  <2> QED BY <2>2
<1>2. CASE from <= to
  <2>1. PICK q \in 0..(to - from) : from + q * period <= to /\ to < from + (q + 1) * period
    BY <1>2, PeriodOfMoment
  <2>2. ASSUME NEW i \in Nat PROVE from + i * period <= to <=> i <= q
    <3>1. /\ i <= q => i * period <= q * period
          /\ q < i => (q + 1) * period <= i * period
          /\ i * period \in Nat /\ q * period \in Nat /\ (q + 1) * period \in Nat
      BY MultiplesOrdered
    <3> QED BY <2>1, <3>1
  <2>3. Turns(period, from, to) = 0..((q + 1) - 1)
    BY <2>1, <2>2 DEF Turns
  <2> QED BY <2>1, <2>3
<1> QED BY <1>1, <1>2

\* A user of a run has as many rows as there are turns at his places in the
\* list; the run has as many as it has turns.
LEMMA TurnsOfRun ==
  ASSUME NEW g, RunOK(g), NEW u
  PROVE  LET n == Cardinality(g.rows)
             L == Len(g.list)
             P == {p \in 1..L : g.list[p].user = u}
         IN  n \in Nat /\ TurnsOf(g, u) = Cardinality({i \in 0..(n - 1) : (i % L) + 1 \in P})
<1> DEFINE L == Len(g.list)
           P == {p \in 1..L : g.list[p].user = u}
<1>1. L \in Nat \ {0} /\ g.from \in Int /\ g.to \in Int
  <2>1. g.list \in Seq(Assignment) /\ L # 0 /\ g.from \in Dates /\ g.to \in Dates
    BY DEF RunOK, Run
  <2>2. g.from \in Int /\ g.to \in Int
    BY <2>1, OnCallAssumption, Zenon
  <2> QED BY <2>1, <2>2
<1>2. PICK period \in Nat \ {0} : g.rows = Rows(g.schedule, g.list, period, g.from, g.to)
  BY DEF RunOK
<1>3. PICK n \in Nat : Turns(period, g.from, g.to) = 0..(n - 1)
  BY <1>1, TurnsFromZero
<1> DEFINE Row(i) == [ schedule |-> g.schedule, user |-> UserOfTurn(g.list, i),
                       start |-> g.from + i * period, end |-> g.from + (i + 1) * period,
                       isOverride |-> FALSE ]
<1>4. ASSUME NEW T \in SUBSET (0..(n - 1))
      PROVE  Cardinality({Row(i) : i \in T}) = Cardinality(T)
  <2> DEFINE f == [i \in T |-> Row(i)]
  <2>1. IsFiniteSet(T)
    <3>1. IsFiniteSet(0..(n - 1))
      BY FS_Interval
    <3> QED BY <3>1, FS_Subset
  <2>2. ASSUME NEW i \in T, NEW j \in T, Row(i) = Row(j) PROVE i = j
    <3>1. i \in Nat /\ j \in Nat
      OBVIOUS
    <3>2. g.from + i * period = g.from + j * period
      BY <2>2
    <3>3. /\ i < j => i * period + period <= j * period
          /\ j < i => j * period + period <= i * period
          /\ i * period \in Nat /\ j * period \in Nat
      BY <3>1, MultiplesOrdered
    <3> HIDE DEF Row
    <3> QED BY <1>1, <3>1, <3>2, <3>3
  <2> HIDE DEF Row
  <2>3. f \in Bijection(T, {Row(i) : i \in T})
    BY <2>2 DEF Bijection, Injection, Surjection, IsInjective
  <2>4. ExistsBijection(T, {Row(i) : i \in T})
    BY <2>3 DEF ExistsBijection
  <2> HIDE DEF f
  <2> QED BY <2>1, <2>4, FS_Bijection
<1>5. g.rows = {Row(i) : i \in 0..(n - 1)}
  BY <1>2, <1>3 DEF Rows
<1>6. n = Cardinality(g.rows)
  <2> HIDE DEF Row
  <2>1. Cardinality(0..(n - 1)) = n
    BY FS_Interval
  <2> QED BY <1>4, <1>5, <2>1
<1>7. {x \in g.rows : x.user = u} = {Row(i) : i \in {i \in 0..(n - 1) : (i % L) + 1 \in P}}
  <2>1. ASSUME NEW i \in 0..(n - 1) PROVE Row(i).user = u <=> (i % L) + 1 \in P
    <3>1. i \in Nat
      OBVIOUS
    <3>2. (i % L) + 1 \in 1..L
      <4> HIDE DEF L
      <4>1. i % L \in 0..(L - 1)
        BY <1>1, <3>1, RoundAndPlace
      <4> QED BY <1>1, <4>1
    <3> QED BY <3>2 DEF UserOfTurn
  <2> HIDE DEF Row, P
  <2> QED BY <1>5, <2>1
<1>8. TurnsOf(g, u) = Cardinality({i \in 0..(n - 1) : (i % L) + 1 \in P})
  <2> HIDE DEF Row, P, L
  <2> QED BY <1>4, <1>7 DEF TurnsOf
<1> QED BY <1>6, <1>8

LEMMA RunShared ==
  ASSUME NEW g, RunOK(g)
  PROVE  LET rows == Cardinality(g.rows)
             people == {g.list[i].user : i \in DOMAIN g.list}
             Share(u) == Cardinality({i \in DOMAIN g.list : g.list[i].user = u})
         IN /\ \A u \in people :
                 /\ (rows \div Len(g.list)) * Share(u) <= TurnsOf(g, u)
                 /\ TurnsOf(g, u) <= ((rows + Len(g.list) - 1) \div Len(g.list)) * Share(u)
            /\ \A i, j \in DOMAIN g.list :
                 /\ \A k \in DOMAIN g.list : g.list[k].user = g.list[j].user
                                               => g.list[i].priority < g.list[k].priority
                 /\ TurnsOf(g, g.list[j].user) > 0
                 => TurnsOf(g, g.list[i].user) > 0
<1> DEFINE L == Len(g.list)
           n == Cardinality(g.rows)
           P(u) == {p \in 1..L : g.list[p].user = u}
           S(u) == {i \in 0..(n - 1) : (i % L) + 1 \in P(u)}
<1>1. /\ L \in Nat \ {0} /\ n \in Nat /\ DOMAIN g.list = 1..L
      /\ \A i \in 1..L : g.list[i].priority \in Int
  <2>1. g.list \in Seq(Assignment) /\ L # 0
    BY DEF RunOK, Run
  <2>2. n \in Nat
    BY TurnsOfRun
  <2>3. \A i \in 1..L : g.list[i].priority \in Int
    <3>1. ASSUME NEW i \in 1..L PROVE g.list[i].priority \in Int
      <4>1. g.list[i] \in Assignment
        BY <2>1
      <4>2. g.list[i].priority \in Priorities
        BY <4>1 DEF Assignment
      <4> QED BY <4>2, OnCallAssumption, Zenon
    <3> QED BY <3>1
  <2> HIDE DEF n
  <2> QED BY <2>1, <2>2, <2>3
<1>2. \A u : TurnsOf(g, u) = Cardinality(S(u))
  BY TurnsOfRun
<1>3. ASSUME NEW u
      PROVE  /\ (n \div L) * Cardinality(P(u)) <= TurnsOf(g, u)
             /\ TurnsOf(g, u) <= ((n + L - 1) \div L) * Cardinality(P(u))
  <2>1. P(u) \in SUBSET (1..L)
    OBVIOUS
  <2> HIDE DEF n, L, P
  <2> QED BY <1>1, <1>2, <2>1, TurnsAtPlaces
<1>4. ASSUME NEW u PROVE IsFiniteSet(S(u)) /\ Cardinality(S(u)) \in Nat
  <2>1. IsFiniteSet(0..(n - 1))
    BY <1>1, FS_Interval
  <2>2. IsFiniteSet(S(u))
    BY <2>1, FS_Subset
  <2> QED BY <2>2, FS_CardinalityType
<1>5. ASSUME NEW i \in 1..L, NEW j \in 1..L,
             \A k \in 1..L : g.list[k].user = g.list[j].user
                                 => g.list[i].priority < g.list[k].priority,
             TurnsOf(g, g.list[j].user) > 0
      PROVE  TurnsOf(g, g.list[i].user) > 0
  <2>1. S(g.list[j].user) # {}
    <3>1. Cardinality(S(g.list[j].user)) > 0
      BY <1>2, <1>5, Zenon
    <3> HIDE DEF S
    <3>2. ~(0 > 0)
      OBVIOUS
    <3> QED BY <3>1, <3>2, FS_EmptySet
  <2>2. PICK t \in S(g.list[j].user) : TRUE
    BY <2>1
  <2>3. t \in 0..(n - 1) /\ (t % L) + 1 \in P(g.list[j].user)
    <3> HIDE DEF n, L, P
    <3> QED BY <2>2
  <2>4. PICK p \in 1..L : p = (t % L) + 1 /\ g.list[p].user = g.list[j].user /\ p - 1 <= t
    <3>1. PICK p : p = (t % L) + 1
      OBVIOUS
    <3>2. p \in 1..L /\ g.list[p].user = g.list[j].user
      BY <2>3, <3>1
    <3>3. p - 1 <= t
      <4> HIDE DEF n, L, P, S
      <4>1. t \in Nat
        BY <1>1, <2>3
      <4>2. t % L \in 0..(L - 1) /\ t \div L \in Nat /\ t = (t \div L) * L + (t % L)
        BY <1>1, <4>1, RoundAndPlace
      <4>3. (t \div L) * L \in Nat
        BY <1>1, <4>2, MultiplesOrdered
      <4> QED BY <1>1, <3>1, <4>1, <4>2, <4>3
    <3> HIDE DEF L
    <3> QED BY <3>1, <3>2, <3>3, Zenon
  <2>5. g.list[i].priority < g.list[p].priority
    BY <1>5, <2>4
  <2>6. p < i => g.list[p].priority <= g.list[i].priority
    BY <1>1, <2>4 DEF RunOK, Ordered
  <2>7. i < p
    <3> HIDE DEF L
    <3> QED BY <1>1, <2>4, <2>5, <2>6
  <2>8. i - 1 \in 0..(n - 1) /\ i - 1 \in 0..(L - 1)
    <3> HIDE DEF S, P, n, L
    <3> QED BY <1>1, <2>3, <2>4, <2>7
  <2>9. (i - 1) % L = i - 1
    <3> HIDE DEF L, n, S, P
    <3>1. (0 * L + (i - 1)) % L = i - 1
      BY <1>1, <2>8, OneRoundAndPlace
    <3>2. 0 * L + (i - 1) = i - 1
      BY <1>1, <2>8
    <3> QED BY <3>1, <3>2
  <2>10. i - 1 \in S(g.list[i].user)
    <3>1. (i - 1) + 1 = i
      OBVIOUS
    <3>2. ((i - 1) % L) + 1 \in P(g.list[i].user)
      BY <2>9, <3>1
    <3> HIDE DEF P, n, L
    <3> QED BY <2>8, <3>2
  <2> HIDE DEF S
  <2> QED BY <1>2, <1>4, <2>10, FS_EmptySet
<1> HIDE DEF S
<1> QED BY <1>1, <1>3, <1>5
-----------------------------------------------------------------------------
(* The lookup *)

\* A set of natural numbers has a least element.
LEMMA LeastNumber ==
  ASSUME NEW T \in SUBSET Nat, T # {}
  PROVE  \E m \in T : \A n \in T : m <= n
<1> DEFINE R == OpToRel(<, Nat)
<1>1. IsWellFoundedOn(R, Nat)
  BY NatLessThanWellFounded
<1>2. \A m, n \in Nat : m < n => <<m, n>> \in R
  BY DEF OpToRel
<1> HIDE DEF R
<1>3. PICK m \in T : \A n \in T : ~(<<n, m>> \in R)
  BY <1>1, WFMin
<1>4. \A n \in T : ~(n < m)
  BY <1>2, <1>3, Zenon
<1>5. \A n \in T : n \in Nat /\ m \in Nat
  OBVIOUS
<1> QED BY <1>4, <1>5

\* When some rotation covers the moment, the query finds one.
LEMMA SomebodyFound ==
  ASSUME RotationsOK, now \in Nat, NEW x \in rotations, Covers(x, now)
  PROVE  Current({x.schedule}) # {}
<1> DEFINE on == {y \in rotations : y.schedule \in {x.schedule} /\ Covers(y, now)}
<1> DEFINE ages == {now - y.start : y \in on}
<1>1. \A y \in on : y.start \in Int /\ y.start <= now
  BY DEF RotationsOK, Rotation, Covers
<1>2. ages \in SUBSET Nat /\ ages # {}
  BY <1>1
<1>3. PICK m \in ages : \A n \in ages : m <= n
  BY <1>2, LeastNumber
<1>4. PICK y \in on : m = now - y.start
  OBVIOUS
<1>5. ASSUME NEW z \in on PROVE z.start <= y.start
  <2>1. now - y.start <= now - z.start
    BY <1>3, <1>4
  <2> QED BY <1>1, <2>1
<1> QED BY <1>4, <1>5 DEF Current
-----------------------------------------------------------------------------
(* The invariant *)

\* There is nothing yet.
LEMMA InitInv == Init => IInv
<1> SUFFICES ASSUME Init PROVE IInv
  OBVIOUS
<1>1. Idle \in Task /\ TaskOK(Idle)
  BY DEF TaskOK, Task, Idle
<1>2. AssignmentsOK /\ RotationsOK /\ GeneratedOK
  BY DEF Init, AssignmentsOK, RotationsOK, GeneratedOK
<1> QED BY <1>1, <1>2 DEF Init, IInv

\* A step that gives one request its next task, and at most adds rotations.
LEMMA TaskStep ==
  ASSUME IInv, NEW r \in Requests, NEW t, Do(r, t), rotations \subseteq rotations',
         t \in Task, t.step = "a_save" => t.row.user \in KnownUsers,
         t.step = "g_save" => RunOK(t.run), t.step = "l_user" => t.row \in rotations'
  PROVE  task' \in [Requests -> Task] /\ \A q \in Requests : TaskOK(task[q])'
<1>1. task' = [task EXCEPT ![r] = t] /\ task \in [Requests -> Task]
  BY DEF Do, IInv
<1>2. ASSUME NEW q \in Requests PROVE TaskOK(task[q])'
  <2>1. CASE q = r
    BY <1>1, <2>1 DEF TaskOK
  <2>2. CASE q # r
    <3>1. task'[q] = task[q] /\ TaskOK(task[q])
      BY <1>1, <2>2 DEF IInv
    <3> QED BY <3>1 DEF TaskOK
  <2> QED BY <2>1, <2>2
<1> QED BY <1>1, <1>2

\* A step that leaves the tasks alone, and at most adds rotations.
LEMMA OtherStep ==
  ASSUME IInv, UNCHANGED task, rotations \subseteq rotations'
  PROVE  task' \in [Requests -> Task] /\ \A q \in Requests : TaskOK(task[q])'
<1>1. ASSUME NEW q \in Requests PROVE TaskOK(task[q])'
  <2>1. task'[q] = task[q] /\ TaskOK(task[q])
    BY DEF IInv
  <2> QED BY <2>1 DEF TaskOK
<1> QED BY <1>1 DEF IInv

\* Idle is fit for every request.
LEMMA IdleFits == /\ Idle \in Task /\ Idle.step \notin {"a_save", "g_save", "l_user"}
  BY DEF Task, Idle

LEMMA NextInv == IInv /\ [Next]_vars => IInv'
<1> SUFFICES ASSUME IInv, [Next]_vars PROVE IInv'
  OBVIOUS
<1>1. CASE UNCHANGED vars
  <2>1. rotations' = rotations /\ UNCHANGED task
    BY <1>1 DEF vars
  <2>2. task' \in [Requests -> Task] /\ \A q \in Requests : TaskOK(task[q])'
    BY <2>1, OtherStep
  <2> QED BY <1>1, <2>2 DEF IInv, vars, AssignmentsOK, RotationsOK, GeneratedOK, RunOK
<1>2. ASSUME NEW s \in Schedules, NEW type \in Types, createSchedule(s, type) PROVE IInv'
  <2>1. /\ schedules' = [schedules EXCEPT ![s] = type]
        /\ UNCHANGED <<assignments, rotations, now, task, generated>>
    BY <1>2 DEF createSchedule
  <2>2. task' \in [Requests -> Task] /\ \A q \in Requests : TaskOK(task[q])'
    BY <2>1, OtherStep
  <2>3. schedules' \in [Schedules -> Types \cup {Absent}]
    BY <2>1 DEF IInv
  <2> QED BY <2>1, <2>2, <2>3 DEF IInv, AssignmentsOK, RotationsOK, GeneratedOK, RunOK
<1>3. ASSUME NEW r \in Requests, AssignFind(r) PROVE IInv'
  <2>1. PICK a \in Assignment : Do(r, [step |-> "a_user", row |-> a])
    BY <1>3 DEF AssignFind
  <2>2. UNCHANGED <<schedules, assignments, rotations, now, generated>>
    BY <1>3 DEF AssignFind
  <2>3. [step |-> "a_user", row |-> a] \in Task
    BY DEF Task
  <2>4. task' \in [Requests -> Task] /\ \A q \in Requests : TaskOK(task[q])'
    BY <2>1, <2>2, <2>3, TaskStep
  <2> QED BY <2>2, <2>4 DEF IInv, AssignmentsOK, RotationsOK, GeneratedOK, RunOK
<1>4. ASSUME NEW r \in Requests, AssignUser(r) PROVE IInv'
  <2>1. UNCHANGED <<schedules, assignments, rotations, now, generated>>
    BY <1>4 DEF AssignUser
  <2>2. task[r] \in [step : {"a_user", "a_save"}, row : Assignment]
    BY <1>4, TaskByStep DEF AssignUser, IInv
  <2>3. CASE task[r].row.user \in KnownUsers
    <3>1. Do(r, [task[r] EXCEPT !.step = "a_save"])
      BY <1>4, <2>3 DEF AssignUser
    <3>2. /\ [task[r] EXCEPT !.step = "a_save"] \in [step : {"a_user", "a_save"}, row : Assignment]
          /\ [task[r] EXCEPT !.step = "a_save"].row = task[r].row
          /\ [task[r] EXCEPT !.step = "a_save"].step = "a_save"
      BY <2>2
    <3>3. [task[r] EXCEPT !.step = "a_save"] \in Task
      BY <3>2 DEF Task
    <3> QED BY <2>1, <2>3, <3>1, <3>2, <3>3, TaskStep
               DEF IInv, AssignmentsOK, RotationsOK, GeneratedOK, RunOK
  <2>4. CASE task[r].row.user \notin KnownUsers
    <3>1. Do(r, Idle)
      BY <1>4, <2>4 DEF AssignUser
    <3> QED BY <2>1, <3>1, IdleFits, TaskStep
               DEF IInv, AssignmentsOK, RotationsOK, GeneratedOK, RunOK
  <2> QED BY <2>3, <2>4
<1>5. ASSUME NEW r \in Requests, AssignSave(r) PROVE IInv'
  <2>1. /\ assignments' = Append(assignments, task[r].row) /\ Do(r, Idle)
        /\ UNCHANGED <<schedules, rotations, now, generated>>
    BY <1>5 DEF AssignSave
  <2>2. task[r].row \in Assignment /\ task[r].row.user \in KnownUsers
    BY <1>5, TaskByStep DEF AssignSave, IInv, TaskOK
  <2>3. AssignmentsOK'
    BY <2>1, <2>2 DEF IInv, AssignmentsOK
  <2>4. task' \in [Requests -> Task] /\ \A q \in Requests : TaskOK(task[q])'
    BY <2>1, IdleFits, TaskStep
  <2> QED BY <2>1, <2>3, <2>4 DEF IInv, RotationsOK, GeneratedOK, RunOK
<1>6. ASSUME NEW r \in Requests, GenerateFind(r) PROVE IInv'
  <2>1. UNCHANGED <<schedules, assignments, rotations, now, generated>>
    BY <1>6 DEF GenerateFind
  <2>a. PICK s \in Schedules, from \in Dates, to \in Dates :
          /\ schedules[s] # Absent /\ AssignmentsOf(s) # {}
          /\ \E list \in Sorted(s) :
               Do(r, [ step |-> "g_save",
                       run |-> [schedule |-> s, from |-> from, to |-> to, list |-> list,
                                rows |-> Rows(s, list, Period(schedules[s]), from, to)] ])
    BY <1>6 DEF GenerateFind
  <2>2. PICK list \in Sorted(s) :
          Do(r, [ step |-> "g_save",
                  run |-> [schedule |-> s, from |-> from, to |-> to, list |-> list,
                           rows |-> Rows(s, list, Period(schedules[s]), from, to)] ])
    BY <2>a
  <2> DEFINE run == [schedule |-> s, from |-> from, to |-> to, list |-> list,
                     rows |-> Rows(s, list, Period(schedules[s]), from, to)]
  <2>3. Period(schedules[s]) \in Nat \ {0}
    BY <2>a, PeriodPositive DEF IInv
  <2>4. from \in Int /\ to \in Int
    BY OnCallAssumption
  <2>5. /\ list \in Seq(Assignment) /\ Len(list) \in Nat \ {0} /\ Ordered(list)
        /\ \A i \in 1..Len(list) : list[i].user \in KnownUsers
    BY <2>a, SortedTypes DEF IInv
  <2>6. \A x \in run.rows : x \in Rotation /\ x.user \in KnownUsers
    BY <2>3, <2>4, <2>5, RowsTypes
  <2>7. RunOK(run)
    <3>1. run \in Run
      BY <2>5, <2>6 DEF Run
    <3>2. run.rows = Rows(run.schedule, run.list, Period(schedules[s]), run.from, run.to)
      OBVIOUS
    <3>3. Len(run.list) # 0 /\ Ordered(run.list)
      BY <2>5
    <3> HIDE DEF run
    <3> QED BY <2>3, <2>6, <3>1, <3>2, <3>3 DEF RunOK
  <2> HIDE DEF run
  <2>8. [step |-> "g_save", run |-> run] \in Task
    BY <2>7 DEF Task, RunOK
  <2>9. task' \in [Requests -> Task] /\ \A q \in Requests : TaskOK(task[q])'
    BY <2>1, <2>2, <2>7, <2>8, TaskStep DEF run
  <2> QED BY <2>1, <2>9 DEF IInv, AssignmentsOK, RotationsOK, GeneratedOK, RunOK
<1>7. ASSUME NEW r \in Requests, GenerateSave(r) PROVE IInv'
  <2>1. /\ rotations' = rotations \cup task[r].run.rows
        /\ generated' = generated \cup {task[r].run}
        /\ Do(r, Idle)
        /\ UNCHANGED <<schedules, assignments, now>>
    BY <1>7 DEF GenerateSave
  <2>2. RunOK(task[r].run)
    BY <1>7 DEF GenerateSave, IInv, TaskOK
  <2>3. task[r].run.rows \in SUBSET Rotation /\ \A x \in task[r].run.rows : x.user \in KnownUsers
    BY <2>2 DEF RunOK, Run
  <2>4. RotationsOK'
    BY <2>1, <2>3 DEF IInv, RotationsOK
  <2>5. GeneratedOK'
    BY <2>1, <2>2 DEF IInv, GeneratedOK, RunOK
  <2>6. task' \in [Requests -> Task] /\ \A q \in Requests : TaskOK(task[q])'
    BY <2>1, IdleFits, TaskStep
  <2> QED BY <2>1, <2>4, <2>5, <2>6 DEF IInv, AssignmentsOK
<1>8. ASSUME NEW r \in Requests, LookupUser(r) PROVE IInv'
  <2>1. Do(r, Idle) /\ UNCHANGED <<schedules, assignments, rotations, now, generated>>
    BY <1>8 DEF LookupUser
  <2> QED BY <2>1, IdleFits, TaskStep DEF IInv, AssignmentsOK, RotationsOK, GeneratedOK, RunOK
<1>9. ASSUME NEW r \in Requests, NEW among, LookupQuery(r, among) PROVE IInv'
  <2>1. PICK x \in Current(among) : Do(r, [step |-> "l_user", row |-> x])
    BY <1>9 DEF LookupQuery
  <2>2. UNCHANGED <<schedules, assignments, rotations, now, generated>>
    BY <1>9 DEF LookupQuery
  <2>3. x \in rotations /\ x \in Rotation
    BY DEF Current, IInv, RotationsOK
  <2>4. [step |-> "l_user", row |-> x] \in Task
    BY <2>3 DEF Task
  <2>5. task' \in [Requests -> Task] /\ \A q \in Requests : TaskOK(task[q])'
    BY <2>1, <2>2, <2>3, <2>4, TaskStep
  <2> QED BY <2>2, <2>5 DEF IInv, AssignmentsOK, RotationsOK, GeneratedOK, RunOK
<1>10. ASSUME NEW s \in Schedules, NEW u \in Users, NEW from \in Dates, NEW to \in Dates,
              overrideRotation([schedule |-> s, user |-> u, start |-> from, end |-> to,
                                isOverride |-> TRUE])
       PROVE  IInv'
  <2> DEFINE o == [schedule |-> s, user |-> u, start |-> from, end |-> to, isOverride |-> TRUE]
  <2>1. /\ rotations' = rotations \cup {o}
        /\ UNCHANGED <<schedules, assignments, now, task, generated>>
    BY <1>10 DEF overrideRotation
  <2>2. o \in Rotation /\ o.isOverride
    BY OnCallAssumption DEF Rotation
  <2> HIDE DEF o
  <2>3. RotationsOK'
    BY <2>1, <2>2 DEF IInv, RotationsOK
  <2>4. GeneratedOK'
    BY <2>1 DEF IInv, GeneratedOK, RunOK
  <2>5. task' \in [Requests -> Task] /\ \A q \in Requests : TaskOK(task[q])'
    BY <2>1, OtherStep
  <2> QED BY <2>1, <2>3, <2>4, <2>5 DEF IInv, AssignmentsOK
<1>11. CASE Tick
  <2>1. now' = now + 1 /\ UNCHANGED <<schedules, assignments, rotations, task, generated>>
    BY <1>11 DEF Tick
  <2>2. task' \in [Requests -> Task] /\ \A q \in Requests : TaskOK(task[q])'
    BY <2>1, OtherStep
  <2> QED BY <2>1, <2>2 DEF IInv, AssignmentsOK, RotationsOK, GeneratedOK, RunOK
<1> QED
  BY <1>1, <1>2, <1>3, <1>4, <1>5, <1>6, <1>7, <1>8, <1>9, <1>10, <1>11 DEF Next
-----------------------------------------------------------------------------
\* The invariant gives the properties.
LEMMA InvImplies == IInv => TypeOK /\ CoveredOnce /\ UnknownOnlyByOverride /\ NeverNobody
<1> SUFFICES ASSUME IInv PROVE TypeOK /\ CoveredOnce /\ UnknownOnlyByOverride /\ NeverNobody
  OBVIOUS
<1>1. TypeOK
  <2>1. ASSUME NEW r \in Requests
        PROVE  \/ task[r] = Idle
               \/ task[r].step \in {"a_user", "a_save"} /\ task[r].row \in Assignment
               \/ task[r].step = "g_save" /\ task[r].run.rows \in SUBSET Rotation
               \/ task[r].step = "l_user" /\ task[r].row \in rotations
    <3>1. task[r] \in Task /\ TaskOK(task[r])
      BY DEF IInv
    <3>2. CASE task[r] \in [step : {"g_save"}, run : Run]
      BY <3>2 DEF Run
    <3> QED BY <3>1, <3>2 DEF Task, TaskOK
  <2> QED BY <2>1 DEF TypeOK, IInv, AssignmentsOK, RotationsOK
<1>2. CoveredOnce
  <2> SUFFICES ASSUME NEW g \in generated, NEW t \in g.from..g.to
               PROVE  Cardinality({x \in g.rows \cap rotations : x.start <= t /\ t < x.end}) = 1
    BY DEF CoveredOnce
  <2>1. RunOK(g) /\ g.rows \cap rotations = g.rows
    BY DEF IInv, GeneratedOK
  <2>2. Cardinality({x \in g.rows : x.start <= t /\ t < x.end}) = 1
    BY <2>1, RowsCoverOnce
  <2> QED BY <2>1, <2>2
<1>3. UnknownOnlyByOverride
  BY DEF UnknownOnlyByOverride, IInv, TaskOK, RotationsOK
<1>4. NeverNobody
  <2> SUFFICES ASSUME NEW g \in generated, now \in g.from..g.to PROVE Current({g.schedule}) # {}
    BY DEF NeverNobody
  <2>1. RunOK(g) /\ g.rows \subseteq rotations
    BY DEF IInv, GeneratedOK
  <2>2. {x \in g.rows : x.start <= now /\ now < x.end} # {}
    BY <2>1, RowsCoverOnce, FS_EmptySet
  <2>3. PICK x \in g.rows : x.start <= now /\ now < x.end
    BY <2>2
  <2>4. x.schedule = g.schedule
    BY <2>1 DEF RunOK, Rows
  <2> QED BY <2>1, <2>3, <2>4, SomebodyFound DEF IInv, Covers
<1> QED BY <1>1, <1>2, <1>3, <1>4

LEMMA Invariant == Spec => []IInv
  BY InitInv, NextInv, PTL DEF Spec

\* Schedules, assignments, rotations and what requests carry from one step
\* of OnCallService to the next keep their types.
THEOREM OnCallTyped == Spec => []TypeOK
  BY Invariant, InvImplies, PTL

\* The loop of generateRotations leaves no gap and no overlap, whatever the
\* dates, the rotation type, the assignments and what else is stored.
THEOREM RunsCoverOnce == Spec => []CoveredOnce
  BY Invariant, InvImplies, PTL

\* The turns of a run go round its list evenly: a person has between the
\* full rounds and the rounds begun, times his places in the list, and nobody
\* serves while someone more urgent is left out.
THEOREM TurnsAlwaysShared == Spec => []TurnsShared
<1>1. IInv => TurnsShared
  <2> SUFFICES ASSUME IInv PROVE TurnsShared
    OBVIOUS
  <2>1. \A g \in generated : RunOK(g)
    BY DEF IInv, GeneratedOK
  <2> QED BY <2>1, RunShared DEF TurnsShared
<1> QED BY <1>1, Invariant, PTL

\* At a moment a completed run of generateRotations was asked to cover,
\* getCurrentOnCall finds a rotation, whatever else was stored since.
THEOREM SomebodyAlwaysOnCall == Spec => []NeverNobody
  BY Invariant, InvImplies, PTL

\* getCurrentOnCall fails for an unknown user only when somebody overrode a
\* rotation with him.
THEOREM UnknownOnlyByOverrides == Spec => []UnknownOnlyByOverride
  BY Invariant, InvImplies, PTL
====
