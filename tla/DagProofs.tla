------------------------------ MODULE DagProofs ------------------------------
(***************************************************************************)
(* For plans of any length: what validateDag accepts is in order, what it  *)
(* rejects as cyclic has tasks that wait for each other, and the cycle it  *)
(* reports is one.  The sort rests on what indegree counts, which is the   *)
(* dependencies whose task is not ordered or not yet followed up; the      *)
(* search on the tasks it is done with having no cycle among themselves,   *)
(* so that it cannot be done with all of a plan that has one.              *)
(***************************************************************************)
EXTENDS DagValidator, FiniteSetTheorems, TLAPS

Ordered == {order[k] : k \in DOMAIN order}
Queued == {pending[k] : k \in DOMAIN pending}
DependenciesOf(t) == {e \in Dependencies : To(e) = t}
Remaining(t) == {e \in DependenciesOf(t) : From(e) \notin Ordered \/ e \in rest}

Counting == {"seeding", "sorting", "searching", "valid", "cyclic"}
Verdicts == {"checking", "malformed", "missing"} \cup Counting

SortTypes ==
  /\ plan \in Plans /\ verdict \in Verdicts /\ next \in Nat \ {0}
  /\ order \in Seq(TaskIds) /\ pending \in Seq(TaskIds) /\ rest \subseteq Dependencies
  /\ verdict \in Counting =>
       /\ WellFormed /\ \A e \in Dependencies : From(e) \in TaskIds
       /\ indegree \in [TaskIds -> Nat]

RemainingCounted ==
  verdict \in Counting => \A t \in TaskIds : indegree[t] = Cardinality(Remaining(t))

\* Tasks are queued and ordered once, when nothing remains to wait for.
OnceAndReady ==
  /\ \A k, m \in DOMAIN order : order[k] = order[m] => k = m
  /\ \A k, m \in DOMAIN pending : pending[k] = pending[m] => k = m
  /\ Ordered \cap Queued = {}
  /\ \A t \in Ordered \cup Queued : Remaining(t) = {}
  /\ \A e \in rest : From(e) \in Ordered

InOrder ==
  \A e \in Dependencies : \A m \in DOMAIN order :
    order[m] = To(e) => \E k \in 1..(m - 1) : order[k] = From(e)

NoneForgotten ==
  /\ verdict \in {"checking", "malformed", "missing"} => pending = <<>> /\ next = 1
  /\ verdict \notin {"sorting", "searching", "valid", "cyclic"} => order = <<>> /\ rest = {}
  /\ verdict = "seeding" =>
       /\ \A t \in Queued : \E i \in DOMAIN plan : i < next /\ plan[i].id = t
       /\ \A i \in DOMAIN plan : i < next /\ indegree[plan[i].id] = 0 => plan[i].id \in Queued
  /\ verdict \in {"sorting", "searching", "valid", "cyclic"} =>
       \A t \in TaskIds : Remaining(t) = {} => t \in Ordered \cup Queued
  /\ verdict \in {"searching", "valid", "cyclic"} =>
       /\ pending = <<>> /\ rest = {}
       /\ verdict = "valid" <=> Len(order) = Len(plan)

SortSound == SortTypes /\ RemainingCounted /\ OnceAndReady /\ InOrder /\ NoneForgotten

-----------------------------------------------------------------------------
(* Plans, their tasks and their dependencies                               *)

LEMMA PlanShape ==
  ASSUME plan \in Plans
  PROVE  /\ Len(plan) \in Nat /\ DOMAIN plan = 1..Len(plan)
         /\ \A i \in DOMAIN plan : /\ plan[i].id \in TaskIds
                                   /\ plan[i].depends_on \in Seq(Ids)
<1> DEFINE R == [id : Ids, depends_on : Seq(Ids)]
<1>1. plan \in Seq(R) /\ \A r \in R : r.depends_on \in Seq(Ids)
  BY DagAssumption
<1> HIDE DEF R
<1>2. /\ Len(plan) \in Nat /\ DOMAIN plan = 1..Len(plan)
      /\ \A i \in DOMAIN plan : plan[i] \in R
  BY <1>1
<1>3. \A i \in DOMAIN plan : plan[i].depends_on \in Seq(Ids)
  BY <1>1, <1>2
<1>4. \A i \in DOMAIN plan : plan[i].id \in TaskIds
  BY DEF TaskIds
<1> QED BY <1>2, <1>3, <1>4

LEMMA DependencyIs ==
  \A e : e \in Dependencies <=>
    \E i \in DOMAIN plan : \E j \in DOMAIN plan[i].depends_on : e = <<i, j>>
BY DEF Dependencies

LEMMA ToIsTask ==
  ASSUME NEW e \in Dependencies
  PROVE  To(e) \in TaskIds
BY DependencyIs DEF To, TaskIds

\* The dependencies of one task are those of one place in the plan.
LEMMA DependenciesFinite ==
  ASSUME plan \in Plans, WellFormed, NEW t \in TaskIds
  PROVE  IsFiniteSet(DependenciesOf(t))
<1>1. PICK i \in DOMAIN plan : plan[i].id = t
  BY DEF TaskIds
<1>2. \A k \in DOMAIN plan : plan[k].id = t => k = i
  BY <1>1 DEF WellFormed
<1> DEFINE n == Len(plan[i].depends_on)
<1>3. n \in Nat /\ DOMAIN plan[i].depends_on = 1..n
  BY PlanShape
<1>4. \A e \in DependenciesOf(t) : \E j \in 1..n : e = <<i, j>>
  BY <1>2, <1>3, DependencyIs DEF DependenciesOf, To
<1> DEFINE f == [j \in 1..n |-> <<i, j>>]
<1> DEFINE places == {<<i, j>> : j \in 1..n}
<1>5. f \in Surjection(1..n, places)
  BY DEF Surjection
<1>6. IsFiniteSet(1..n)
  BY <1>3, FS_Interval
<1>7. IsFiniteSet(places)
  BY <1>5, <1>6, FS_Surjection
<1>8. DependenciesOf(t) \subseteq places
  BY <1>4
<1> QED BY <1>7, <1>8, FS_Subset

LEMMA RemainingFinite ==
  ASSUME plan \in Plans, WellFormed, NEW t \in TaskIds
  PROVE  /\ IsFiniteSet(Remaining(t)) /\ Cardinality(Remaining(t)) \in Nat
         /\ Cardinality(Remaining(t)) = 0 <=> Remaining(t) = {}
<1>1. IsFiniteSet(DependenciesOf(t)) /\ Remaining(t) \subseteq DependenciesOf(t)
  BY DependenciesFinite DEF Remaining
<1>2. IsFiniteSet(Remaining(t))
  BY <1>1, FS_Subset
<1> QED BY <1>2, FS_EmptySet, FS_CardinalityType

LEMMA PlacesCounted ==
  ASSUME NEW n \in Nat
  PROVE  IsFiniteSet(1..n) /\ Cardinality(1..n) = n
BY FS_Interval

LEMMA TasksCounted ==
  ASSUME plan \in Plans, WellFormed
  PROVE  IsFiniteSet(TaskIds) /\ Cardinality(TaskIds) = Len(plan)
<1> DEFINE f == [i \in DOMAIN plan |-> plan[i].id]
<1>1. DOMAIN plan = 1..Len(plan) /\ Len(plan) \in Nat
  BY PlanShape
<1>2. f \in Surjection(DOMAIN plan, TaskIds)
  BY DEF Surjection, TaskIds
<1>3. f \in Injection(DOMAIN plan, TaskIds)
  BY <1>2 DEF Injection, IsInjective, WellFormed, TaskIds
<1> HIDE DEF f
<1>4. IsFiniteSet(1..Len(plan)) /\ Cardinality(1..Len(plan)) = Len(plan)
  BY <1>1, PlacesCounted
<1> QED BY <1>1, <1>2, <1>3, <1>4, FS_Surjection

\* An order without repetition has all tasks exactly when it is as long as the plan.
LEMMA AllOrdered ==
  ASSUME plan \in Plans, WellFormed, order \in Seq(TaskIds),
         \A k, m \in DOMAIN order : order[k] = order[m] => k = m
  PROVE  Len(order) = Len(plan) <=> Ordered = TaskIds
<1>1. DOMAIN order = 1..Len(order) /\ Len(order) \in Nat
  OBVIOUS
<1>2. order \in Injection(DOMAIN order, TaskIds)
  BY DEF Injection, IsInjective
<1>3. IsFiniteSet(DOMAIN order) /\ Cardinality(DOMAIN order) = Len(order)
  BY <1>1, PlacesCounted
<1>4. Cardinality(DOMAIN order) = Cardinality(TaskIds) <=>
        order \in Surjection(DOMAIN order, TaskIds)
  BY <1>2, TasksCounted, FS_Injection
<1>5. order \in Surjection(DOMAIN order, TaskIds) <=> Ordered = TaskIds
  BY <1>2 DEF Surjection, Injection, Ordered
<1> QED BY <1>3, <1>4, <1>5, TasksCounted

-----------------------------------------------------------------------------
(* topologicalSort                                                         *)

\* All that is read off the plan stays while the plan does.
LEMMA PlanStays ==
  ASSUME plan' = plan
  PROVE  /\ TaskIds' = TaskIds /\ Dependencies' = Dependencies /\ WellFormed' = WellFormed
         /\ \A e : From(e)' = From(e) /\ To(e)' = To(e)
         /\ \A t : DependenciesOf(t)' = DependenciesOf(t) /\ Downstream(t)' = Downstream(t)
<1>1. TaskIds' = TaskIds /\ Dependencies' = Dependencies /\ WellFormed' = WellFormed
  BY DEF TaskIds, Dependencies, WellFormed
<1>2. \A e : From(e)' = From(e) /\ To(e)' = To(e)
  BY DEF From, To
<1> QED BY <1>1, <1>2 DEF DependenciesOf, Downstream

\* While the sort stands still, only next and verdict can break its invariant.
LEMMA SortStays ==
  ASSUME UNCHANGED <<plan, sortVars>>, SortSound
  PROVE  /\ Ordered' = Ordered /\ Queued' = Queued
         /\ \A t : Remaining(t)' = Remaining(t)
         /\ OnceAndReady' /\ InOrder'
         /\ order' = order /\ pending' = pending /\ rest' = rest /\ indegree' = indegree
<1> USE PlanStays DEF sortVars
<1>1. Ordered' = Ordered /\ Queued' = Queued
  BY DEF Ordered, Queued
<1>2. \A t : Remaining(t)' = Remaining(t)
  BY <1>1 DEF Remaining
<1>3. OnceAndReady'
  BY <1>1, <1>2 DEF SortSound, OnceAndReady
<1>4. InOrder'
  BY DEF SortSound, InOrder
<1> QED BY <1>1, <1>2, <1>3, <1>4

LEMMA SortSoundAtFirst ==
  Init => SortSound
<1> SUFFICES ASSUME Init PROVE SortSound
  OBVIOUS
<1>1. Ordered = {} /\ Queued = {} /\ rest = {} /\ order = <<>> /\ pending = <<>>
      /\ verdict = "checking"
  BY DEF Init, Ordered, Queued
<1>2. SortTypes
  BY <1>1 DEF Init, SortTypes, Verdicts, Counting
<1>3. RemainingCounted
  BY <1>1 DEF RemainingCounted, Counting
<1>4. OnceAndReady /\ InOrder
  BY <1>1 DEF OnceAndReady, InOrder
<1>5. NoneForgotten
  BY <1>1 DEF Init, NoneForgotten
<1> QED BY <1>2, <1>3, <1>4, <1>5 DEF SortSound

LEMMA RejectSound ==
  ASSUME SortSound, RejectMalformed \/ RejectMissing
  PROVE  SortSound'
<1>1. /\ verdict = "checking" /\ verdict' \in {"malformed", "missing"}
      /\ UNCHANGED <<plan, next, sortVars>>
  BY DEF RejectMalformed, RejectMissing
<1>2. TaskIds' = TaskIds /\ Dependencies' = Dependencies
  BY <1>1, PlanStays
<1>3. SortTypes'
  BY <1>1, <1>2, SortStays DEF SortSound, SortTypes, Verdicts, Counting
<1>4. RemainingCounted'
  BY <1>1 DEF RemainingCounted, Counting
<1>5. NoneForgotten'
  BY <1>1, SortStays DEF SortSound, NoneForgotten
<1> QED BY <1>1, <1>3, <1>4, <1>5, SortStays DEF SortSound

LEMMA CountSound ==
  ASSUME SortSound, CountDependencies
  PROVE  SortSound'
<1>1. /\ verdict = "checking" /\ verdict' = "seeding" /\ WellFormed
      /\ \A e \in Dependencies : From(e) \in TaskIds
      /\ indegree' = [t \in TaskIds |-> Cardinality({e \in Dependencies : To(e) = t})]
      /\ UNCHANGED <<plan, next, pending, rest, order>>
  BY DEF CountDependencies
<1>2. order = <<>> /\ pending = <<>> /\ rest = {} /\ plan \in Plans /\ next = 1
  BY <1>1 DEF SortSound, SortTypes, NoneForgotten
<1>3. Ordered' = {} /\ Queued' = {} /\ Ordered = {}
  BY <1>1, <1>2 DEF Ordered, Queued
<1>4. \A t : Remaining(t)' = DependenciesOf(t) /\ Remaining(t) = DependenciesOf(t)
  BY <1>1, <1>2, <1>3, PlanStays DEF Remaining
<1>5. \A t \in TaskIds : indegree'[t] = Cardinality(DependenciesOf(t))
  BY <1>1 DEF DependenciesOf
<1>6. \A t \in TaskIds : Cardinality(DependenciesOf(t)) \in Nat
  BY <1>1, <1>2, <1>4, RemainingFinite
<1>7. indegree' \in [TaskIds -> Nat]
  BY <1>1, <1>5, <1>6
<1>8. SortTypes'
  BY <1>1, <1>2, <1>7, PlanStays DEF SortSound, SortTypes, Verdicts, Counting
<1>9. RemainingCounted'
  BY <1>1, <1>4, <1>5, PlanStays DEF RemainingCounted
<1>10. OnceAndReady' /\ InOrder'
  BY <1>1, <1>2, <1>3 DEF OnceAndReady, InOrder
<1>11. NoneForgotten'
  <2>1. DOMAIN plan = 1..Len(plan) /\ Len(plan) \in Nat
    BY <1>2, PlanShape
  <2>2. \A i \in DOMAIN plan' : ~(i < next')
    BY <1>1, <1>2, <2>1
  <2> QED BY <1>1, <1>2, <1>3, <2>2 DEF NoneForgotten
<1> QED BY <1>8, <1>9, <1>10, <1>11 DEF SortSound

LEMMA AppendTask ==
  ASSUME NEW S, NEW q \in Seq(S), NEW t \in S
  PROVE  /\ Append(q, t) \in Seq(S)
         /\ {Append(q, t)[k] : k \in DOMAIN Append(q, t)} = {q[k] : k \in DOMAIN q} \cup {t}
         /\ (\A k, m \in DOMAIN q : q[k] = q[m] => k = m) /\ t \notin {q[k] : k \in DOMAIN q}
              => \A k, m \in DOMAIN Append(q, t) :
                   Append(q, t)[k] = Append(q, t)[m] => k = m
<1> DEFINE p == Append(q, t)
<1>1. /\ p \in Seq(S) /\ Len(q) \in Nat /\ DOMAIN q = 1..Len(q)
      /\ DOMAIN p = 1..(Len(q) + 1) /\ p[Len(q) + 1] = t
      /\ \A k \in DOMAIN q : p[k] = q[k]
  OBVIOUS
<1> HIDE DEF p
<1>2. DOMAIN p = DOMAIN q \cup {Len(q) + 1} /\ Len(q) + 1 \notin DOMAIN q
  BY <1>1
<1>3. {p[k] : k \in DOMAIN p} = {q[k] : k \in DOMAIN q} \cup {t}
  BY <1>1, <1>2
<1>4. (\A k, m \in DOMAIN q : q[k] = q[m] => k = m) /\ t \notin {q[k] : k \in DOMAIN q}
        => \A k, m \in DOMAIN p : p[k] = p[m] => k = m
  BY <1>1, <1>2
<1> QED BY <1>1, <1>3, <1>4 DEF p

LEMMA SeedSound ==
  ASSUME SortSound, Seed
  PROVE  SortSound'
<1> DEFINE t == plan[next].id
<1>1. /\ verdict = "seeding" /\ next <= Len(plan) /\ next' = next + 1
      /\ pending' = IF indegree[t] = 0 THEN Append(pending, t) ELSE pending
      /\ UNCHANGED <<plan, verdict, indegree, rest, order>>
  BY DEF Seed
<1>2. /\ plan \in Plans /\ next \in Nat \ {0} /\ WellFormed
      /\ \A e \in Dependencies : From(e) \in TaskIds
      /\ pending \in Seq(TaskIds)
  BY <1>1 DEF SortSound, SortTypes, Counting
<1>3. next \in DOMAIN plan /\ DOMAIN plan = 1..Len(plan) /\ t \in TaskIds
  BY <1>1, <1>2, PlanShape
<1>4. order = <<>> /\ rest = {} /\ Ordered = {} /\ Ordered' = {}
  BY <1>1 DEF SortSound, NoneForgotten, Ordered
<1>5. \A u : Remaining(u)' = Remaining(u)
  BY <1>1, <1>4, PlanStays DEF Remaining
<1>6. \A u \in Queued : \E i \in DOMAIN plan : i < next /\ plan[i].id = u
  BY <1>1 DEF SortSound, NoneForgotten
<1>7. t \notin Queued
  BY <1>2, <1>3, <1>6 DEF WellFormed
<1>8. indegree[t] = 0 => Remaining(t) = {}
  BY <1>1, <1>2, <1>3, RemainingFinite DEF SortSound, RemainingCounted, Counting
<1> HIDE DEF t
<1>9. /\ pending' \in Seq(TaskIds)
      /\ Queued' = IF indegree[t] = 0 THEN Queued \cup {t} ELSE Queued
      /\ \A k, m \in DOMAIN pending' : pending'[k] = pending'[m] => k = m
  <2>1. \A k, m \in DOMAIN pending : pending[k] = pending[m] => k = m
    BY DEF SortSound, OnceAndReady
  <2> QED BY <1>1, <1>2, <1>3, <1>7, <2>1, AppendTask DEF Queued
<1>10. SortTypes'
  BY <1>1, <1>2, <1>9, PlanStays DEF SortSound, SortTypes
<1>11. RemainingCounted'
  BY <1>1, <1>5, PlanStays DEF SortSound, RemainingCounted
<1>12. OnceAndReady'
  BY <1>1, <1>4, <1>5, <1>8, <1>9 DEF SortSound, OnceAndReady
<1>13. InOrder'
  BY <1>1, <1>4 DEF InOrder
<1>14. NoneForgotten'
  <2>1. \A u \in Queued' : \E i \in DOMAIN plan' : i < next' /\ plan'[i].id = u
    BY <1>1, <1>2, <1>3, <1>6, <1>9 DEF t
  <2>2. \A i \in DOMAIN plan' : i < next' /\ indegree'[plan'[i].id] = 0 => plan'[i].id \in Queued'
    <3> SUFFICES ASSUME NEW i \in DOMAIN plan, i < next + 1, indegree[plan[i].id] = 0
                 PROVE  plan[i].id \in Queued'
      BY <1>1
    <3>1. CASE i = next
      BY <3>1, <1>9 DEF t
    <3>2. CASE i # next
      <4>1. i < next
        BY <3>2, <1>2, <1>3
      <4> QED BY <4>1, <1>1, <1>9 DEF SortSound, NoneForgotten
    <3> QED BY <3>1, <3>2
  <2> QED BY <1>1, <1>4, <2>1, <2>2 DEF NoneForgotten
<1> QED BY <1>10, <1>11, <1>12, <1>13, <1>14 DEF SortSound

LEMMA StartSortSound ==
  ASSUME SortSound, StartSort
  PROVE  SortSound'
<1>1. /\ verdict = "seeding" /\ verdict' = "sorting" /\ next > Len(plan)
      /\ UNCHANGED <<plan, next, sortVars>>
  BY DEF StartSort
<1>2. plan \in Plans /\ WellFormed /\ next \in Nat
  BY <1>1 DEF SortSound, SortTypes, Counting
<1>3. SortTypes'
  BY <1>1, SortStays, PlanStays DEF SortSound, SortTypes, Verdicts, Counting
<1>4. RemainingCounted'
  BY <1>1, SortStays, PlanStays DEF SortSound, RemainingCounted, Counting
<1>5. NoneForgotten'
  <2> SUFFICES ASSUME NEW t \in TaskIds, Remaining(t) = {}
               PROVE  t \in Queued
    BY <1>1, SortStays, PlanStays DEF SortSound, NoneForgotten
  <2>1. indegree[t] = 0
    BY <1>1, <1>2, RemainingFinite DEF SortSound, RemainingCounted, Counting
  <2>2. PICK i \in DOMAIN plan : plan[i].id = t
    BY DEF TaskIds
  <2>3. i < next
    BY <1>1, <1>2, PlanShape
  <2> QED BY <1>1, <2>1, <2>2, <2>3 DEF SortSound, NoneForgotten
<1> QED BY <1>1, <1>3, <1>4, <1>5, SortStays DEF SortSound

LEMMA TakeSound ==
  ASSUME SortSound, TakePending
  PROVE  SortSound'
<1> DEFINE t == Head(pending)
<1>1. /\ verdict = "sorting" /\ rest = {} /\ pending # <<>>
      /\ order' = Append(order, t) /\ pending' = Tail(pending) /\ rest' = Downstream(t)
      /\ UNCHANGED <<plan, verdict, next, indegree>>
  BY DEF TakePending
<1>2. /\ pending \in Seq(TaskIds) /\ order \in Seq(TaskIds)
      /\ \A k, m \in DOMAIN pending : pending[k] = pending[m] => k = m
      /\ \A k, m \in DOMAIN order : order[k] = order[m] => k = m
      /\ Ordered \cap Queued = {}
  BY DEF SortSound, SortTypes, OnceAndReady
<1>3. /\ t \in TaskIds /\ t \in Queued /\ pending' \in Seq(TaskIds)
      /\ Queued' = Queued \ {t}
      /\ \A k, m \in DOMAIN pending' : pending'[k] = pending'[m] => k = m
  <2>1. /\ Len(pending) \in Nat /\ Len(pending) >= 1 /\ DOMAIN pending = 1..Len(pending)
        /\ t = pending[1] /\ t \in TaskIds
        /\ pending' \in Seq(TaskIds) /\ DOMAIN pending' = 1..(Len(pending) - 1)
        /\ \A k \in DOMAIN pending' : pending'[k] = pending[k + 1]
    BY <1>1, <1>2
  <2> HIDE DEF t
  <2>2. \A k \in DOMAIN pending : k # 1 => k - 1 \in DOMAIN pending' /\ pending'[k - 1] = pending[k]
    BY <2>1
  <2>3. \A k \in DOMAIN pending' : k + 1 \in DOMAIN pending /\ k + 1 # 1
    BY <2>1
  <2>4. Queued' = Queued \ {t}
    <3>1. ASSUME NEW k \in DOMAIN pending'
          PROVE  pending'[k] \in Queued \ {t}
      BY <1>2, <2>1, <2>3 DEF Queued
    <3>2. ASSUME NEW k \in DOMAIN pending, pending[k] # t
          PROVE  pending[k] \in Queued'
      <4>1. k - 1 \in DOMAIN pending' /\ pending'[k - 1] = pending[k]
        BY <2>1, <2>2, <3>2
      <4> QED BY <4>1 DEF Queued
    <3> QED BY <3>1, <3>2 DEF Queued
  <2>5. t \in Queued
    BY <2>1 DEF Queued
  <2>6. \A k, m \in DOMAIN pending' : pending'[k] = pending'[m] => k = m
    <3> SUFFICES ASSUME NEW k \in DOMAIN pending', NEW m \in DOMAIN pending',
                        pending'[k] = pending'[m]
                 PROVE  k = m
      OBVIOUS
    <3>1. pending[k + 1] = pending[m + 1]
      BY <2>1
    <3>2. k + 1 = m + 1
      BY <1>2, <2>3, <3>1
    <3> QED BY <2>1, <3>2
  <2> QED BY <2>1, <2>4, <2>5, <2>6
<1> HIDE DEF t
<1>4. t \notin Ordered
  BY <1>2, <1>3
<1>5. /\ order' \in Seq(TaskIds) /\ Ordered' = Ordered \cup {t}
      /\ \A k, m \in DOMAIN order' : order'[k] = order'[m] => k = m
  <2>1. t \notin {order[k] : k \in DOMAIN order}
    BY <1>4 DEF Ordered
  <2>2. /\ Append(order, t) \in Seq(TaskIds)
        /\ {Append(order, t)[k] : k \in DOMAIN Append(order, t)}
             = {order[k] : k \in DOMAIN order} \cup {t}
        /\ (\A k, m \in DOMAIN order : order[k] = order[m] => k = m)
              /\ t \notin {order[k] : k \in DOMAIN order}
             => \A k, m \in DOMAIN Append(order, t) :
                  Append(order, t)[k] = Append(order, t)[m] => k = m
    BY <1>2, <1>3, AppendTask, Zenon
  <2>3. /\ {order'[k] : k \in DOMAIN order'} = {order[k] : k \in DOMAIN order} \cup {t}
        /\ \A k, m \in DOMAIN order' : order'[k] = order'[m] => k = m
    BY <1>1, <1>2, <2>1, <2>2, Zenon
  <2> QED BY <1>1, <2>2, <2>3 DEF Ordered
<1>6. \A u : Remaining(u)' = Remaining(u)
  <2>1. \A e \in Dependencies : e \in rest' <=> From(e) = t
    BY <1>1 DEF Downstream
  <2> QED BY <1>1, <1>4, <1>5, <2>1, PlanStays DEF Remaining, DependenciesOf
<1>7. SortTypes'
  BY <1>1, <1>3, <1>5, PlanStays DEF SortSound, SortTypes, Downstream
<1>8. RemainingCounted'
  BY <1>1, <1>6, PlanStays DEF SortSound, RemainingCounted
<1>9. OnceAndReady'
  <2>1. \A e \in rest' : From(e)' \in Ordered'
    BY <1>1, <1>5, PlanStays DEF Downstream
  <2> QED BY <1>2, <1>3, <1>5, <1>6, <2>1 DEF SortSound, OnceAndReady
<1>10. InOrder'
  <2> SUFFICES ASSUME NEW e \in Dependencies, NEW m \in DOMAIN order', order'[m] = To(e)
               PROVE  \E k \in 1..(m - 1) : order'[k] = From(e)
    BY <1>1, PlanStays DEF InOrder
  <2>1. /\ Len(order) \in Nat /\ DOMAIN order = 1..Len(order)
        /\ DOMAIN order' = 1..(Len(order) + 1) /\ order'[Len(order) + 1] = t
        /\ \A k \in DOMAIN order : order'[k] = order[k]
    BY <1>1, <1>2, <1>3
  <2>2. CASE m \in DOMAIN order
    <3>1. PICK k \in 1..(m - 1) : order[k] = From(e)
      BY <2>1, <2>2 DEF SortSound, InOrder
    <3> QED BY <2>1, <2>2, <3>1
  <2>3. CASE m = Len(order) + 1
    <3>1. Remaining(t) = {} /\ e \in DependenciesOf(t)
      BY <1>3, <2>1, <2>3 DEF SortSound, OnceAndReady, DependenciesOf
    <3>2. From(e) \in Ordered
      BY <3>1 DEF Remaining
    <3>3. PICK k \in DOMAIN order : order[k] = From(e)
      BY <3>2 DEF Ordered
    <3> QED BY <2>1, <2>3, <3>3
  <2> QED BY <2>1, <2>2, <2>3
<1>11. NoneForgotten'
  BY <1>1, <1>3, <1>5, <1>6, PlanStays DEF SortSound, NoneForgotten
<1> QED BY <1>7, <1>8, <1>9, <1>10, <1>11 DEF SortSound

LEMMA CountDownSound ==
  ASSUME SortSound, NEW e \in Dependencies, CountDown(e)
  PROVE  SortSound'
<1>0. PICK t : t = To(e)
  OBVIOUS
<1>1. /\ verdict = "sorting" /\ e \in rest /\ rest' = rest \ {e}
      /\ indegree' = [indegree EXCEPT ![t] = @ - 1]
      /\ pending' = IF indegree[t] = 1 THEN Append(pending, t) ELSE pending
      /\ UNCHANGED <<plan, verdict, next, order>>
  BY <1>0 DEF CountDown, IsFirst
<1>2. /\ plan \in Plans /\ WellFormed /\ t \in TaskIds
      /\ indegree \in [TaskIds -> Nat] /\ pending \in Seq(TaskIds)
      /\ \A u \in TaskIds : indegree[u] = Cardinality(Remaining(u))
      /\ From(e) \in Ordered
  BY <1>0, <1>1, ToIsTask DEF SortSound, SortTypes, RemainingCounted, OnceAndReady, Counting
<1>3. Ordered' = Ordered
  BY <1>1 DEF Ordered
<1>4. \A d : d \in rest' <=> d \in rest /\ d # e
  BY <1>1
<1>5. /\ e \in Remaining(t)
      /\ Remaining(t)' = Remaining(t) \ {e}
      /\ \A u : u # t => Remaining(u)' = Remaining(u)
  BY <1>0, <1>1, <1>2, <1>3, <1>4, PlanStays DEF Remaining, DependenciesOf
<1>6. /\ IsFiniteSet(Remaining(t)) /\ indegree[t] \in Nat
      /\ Cardinality(Remaining(t)') = indegree[t] - 1
      /\ indegree[t] # 0 /\ (indegree[t] = 1 <=> Remaining(t)' = {})
  <2>1. IsFiniteSet(Remaining(t)) /\ Cardinality(Remaining(t)) # 0
    BY <1>2, <1>5, RemainingFinite
  <2>2. IsFiniteSet(Remaining(t)') /\ Cardinality(Remaining(t)') = indegree[t] - 1
    BY <1>2, <1>5, <2>1, FS_RemoveElement
  <2>3. Cardinality(Remaining(t)') = 0 <=> Remaining(t)' = {}
    BY <2>2, FS_EmptySet
  <2> QED BY <1>2, <2>1, <2>2, <2>3
<1>7. t \notin Ordered \cup Queued
  BY <1>5 DEF SortSound, OnceAndReady
<1>8. /\ pending' \in Seq(TaskIds)
      /\ Queued' = IF indegree[t] = 1 THEN Queued \cup {t} ELSE Queued
      /\ \A k, m \in DOMAIN pending' : pending'[k] = pending'[m] => k = m
  <2>1. \A k, m \in DOMAIN pending : pending[k] = pending[m] => k = m
    BY DEF SortSound, OnceAndReady
  <2>2. /\ Append(pending, t) \in Seq(TaskIds)
        /\ {Append(pending, t)[k] : k \in DOMAIN Append(pending, t)}
             = {pending[k] : k \in DOMAIN pending} \cup {t}
        /\ (\A k, m \in DOMAIN pending : pending[k] = pending[m] => k = m)
              /\ t \notin {pending[k] : k \in DOMAIN pending}
             => \A k, m \in DOMAIN Append(pending, t) :
                  Append(pending, t)[k] = Append(pending, t)[m] => k = m
    BY <1>2, AppendTask, Zenon
  <2>3. pending' = IF indegree[t] = 1 THEN Append(pending, t) ELSE pending
    BY <1>1
  <2>4. CASE indegree[t] = 1
    <3>1. pending' = Append(pending, t) /\ t \notin {pending[k] : k \in DOMAIN pending}
      BY <1>7, <2>3, <2>4 DEF Queued
    <3>2. /\ pending' \in Seq(TaskIds)
          /\ {pending'[k] : k \in DOMAIN pending'} = {pending[k] : k \in DOMAIN pending} \cup {t}
          /\ \A k, m \in DOMAIN pending' : pending'[k] = pending'[m] => k = m
      BY <2>1, <2>2, <3>1, Zenon
    <3> QED BY <2>4, <3>2 DEF Queued
  <2>5. CASE indegree[t] # 1
    <3>1. pending' = pending
      BY <2>3, <2>5
    <3> QED BY <1>2, <2>1, <2>5, <3>1 DEF Queued
  <2> QED BY <2>4, <2>5
<1>9. SortTypes'
  <2>1. indegree' \in [TaskIds -> Nat]
    BY <1>1, <1>2, <1>6
  <2> QED BY <1>1, <1>8, <2>1, PlanStays DEF SortSound, SortTypes
<1>10. RemainingCounted'
  <2> SUFFICES ASSUME NEW u \in TaskIds
               PROVE  indegree'[u] = Cardinality(Remaining(u)')
    BY <1>1, PlanStays DEF RemainingCounted
  <2>1. CASE u = t
    BY <2>1, <1>1, <1>2, <1>6
  <2>2. CASE u # t
    BY <2>2, <1>1, <1>2, <1>5
  <2> QED BY <2>1, <2>2
<1>11. OnceAndReady'
  <2>1. \A u \in Ordered' \cup Queued' : Remaining(u)' = {}
    BY <1>3, <1>5, <1>6, <1>8 DEF SortSound, OnceAndReady
  <2>2. \A d \in rest' : From(d)' \in Ordered'
    BY <1>1, <1>3, PlanStays DEF SortSound, OnceAndReady
  <2> QED BY <1>1, <1>3, <1>7, <1>8, <2>1, <2>2 DEF SortSound, OnceAndReady
<1>12. InOrder'
  BY <1>1, PlanStays DEF SortSound, InOrder
<1>13. NoneForgotten'
  BY <1>1, <1>3, <1>5, <1>6, <1>8, PlanStays DEF SortSound, NoneForgotten
<1> QED BY <1>9, <1>10, <1>11, <1>12, <1>13 DEF SortSound

\* Everything after the sort leaves its results alone.
LEMMA AfterSortSound ==
  ASSUME SortSound, UNCHANGED <<plan, sortVars>>, next' \in Nat \ {0},
         \/ verdict = "sorting" /\ rest = {} /\ pending = <<>>
            /\ verdict' \in {"valid", "searching"}
            /\ (verdict' = "valid" <=> Len(order) = Len(plan))
         \/ verdict = "searching" /\ verdict' \in {"searching", "cyclic"}
  PROVE  SortSound'
<1>1. SortTypes'
  BY SortStays, PlanStays DEF SortSound, SortTypes, Verdicts, Counting
<1>2. RemainingCounted'
  BY SortStays, PlanStays DEF SortSound, RemainingCounted, Counting
<1>3. NoneForgotten'
  BY SortStays, PlanStays DEF SortSound, NoneForgotten
<1> QED BY <1>1, <1>2, <1>3, SortStays DEF SortSound

LEMMA StepSortSound ==
  ASSUME SortSound, [Next]_vars
  PROVE  SortSound'
<1>1. next \in Nat \ {0} /\ plan \in Plans
  BY DEF SortSound, SortTypes
<1>2. CASE Accept \/ SearchForCycle
  BY <1>1, <1>2, AfterSortSound DEF Accept, SearchForCycle
<1>3. CASE VisitRoot \/ LeaveTask
  BY <1>1, <1>3, AfterSortSound DEF VisitRoot, LeaveTask
<1>4. ASSUME NEW e \in Dependencies, SkipVisited(e) \/ Descend(e) \/ ReportCycle(e)
      PROVE  SortSound'
  BY <1>1, <1>4, AfterSortSound DEF SkipVisited, Descend, ReportCycle, IsNextOnPath
<1>5. CASE UNCHANGED vars
  <2>1. UNCHANGED <<plan, verdict, next, sortVars>>
    BY <1>5 DEF vars, sortVars
  <2> QED BY <2>1, SortStays, PlanStays DEF SortSound, SortTypes, RemainingCounted, NoneForgotten
<1> QED BY <1>2, <1>3, <1>4, <1>5, RejectSound, CountSound, SeedSound, StartSortSound,
           TakeSound, CountDownSound DEF Next, Judged

\* What the sort has left over waits for what the sort has left over.
LEMMA LeftOverWait ==
  ASSUME SortSound, verdict \in {"searching", "cyclic"}
  PROVE  LET S == TaskIds \ Ordered
         IN S # {} /\ \A t \in S : \E e \in Dependencies : To(e) = t /\ From(e) \in S
<1>1. /\ plan \in Plans /\ WellFormed /\ order \in Seq(TaskIds) /\ rest = {} /\ pending = <<>>
      /\ \A e \in Dependencies : From(e) \in TaskIds
      /\ \A k, m \in DOMAIN order : order[k] = order[m] => k = m
      /\ Len(order) # Len(plan)
  BY DEF SortSound, SortTypes, OnceAndReady, NoneForgotten, Counting
<1>2. Ordered # TaskIds /\ Ordered \subseteq TaskIds /\ Queued = {}
  BY <1>1, AllOrdered DEF Ordered, Queued
<1>3. ASSUME NEW t \in TaskIds \ Ordered
      PROVE  \E e \in Dependencies : To(e) = t /\ From(e) \in TaskIds \ Ordered
  <2>1. Remaining(t) # {}
    BY <1>2, <1>3 DEF SortSound, NoneForgotten
  <2> QED BY <1>1, <2>1 DEF Remaining, DependenciesOf
<1> QED BY <1>2, <1>3

\* Every plan that is accepted comes with an order of all its tasks that respects
\* every dependency.
THEOREM AcceptedPlansAreOrdered ==
  Spec => []AcceptedInOrder
<1>1. SortSound /\ [Next]_vars => SortSound'
  BY StepSortSound
<1>2. SortSound => AcceptedInOrder
  <2> SUFFICES ASSUME SortSound, verdict = "valid"
               PROVE  \A t \in TaskIds : IsOrdered(t)
    BY DEF SortSound, OnceAndReady, InOrder, AcceptedInOrder
  <2>1. Ordered = TaskIds
    BY AllOrdered DEF SortSound, SortTypes, OnceAndReady, NoneForgotten, Counting
  <2> QED BY <2>1 DEF Ordered, IsOrdered
<1> QED BY <1>1, <1>2, SortSoundAtFirst, PTL DEF Spec

\* No plan is rejected as cyclic that could be ordered.
THEOREM OnlyCyclesAreRejected ==
  Spec => []RejectedForCause
<1>1. SortSound /\ [Next]_vars => SortSound'
  BY StepSortSound
<1>2. SortSound => RejectedForCause
  <2> DEFINE S == TaskIds \ Ordered
  <2> SUFFICES ASSUME SortSound, verdict \in {"searching", "cyclic"}
               PROVE  /\ S \in SUBSET TaskIds /\ S # {}
                      /\ \A t \in S : \E e \in Dependencies : To(e) = t /\ From(e) \in S
    BY DEF RejectedForCause
  <2> QED BY LeftOverWait
<1> QED BY <1>1, <1>2, SortSoundAtFirst, PTL DEF Spec

-----------------------------------------------------------------------------
(* findCycleTaskIds and visit                                              *)

FrameType == [id : TaskIds, rest : SUBSET Dependencies]

\* Each frame is below one that depends on it, and what it has followed so far is
\* done with or is the frame above it.
FramesSound ==
  /\ path \in Seq(FrameType)
  /\ \A k, m \in DOMAIN path : path[k].id = path[m].id => k = m
  /\ \A k \in DOMAIN path :
       /\ path[k].id \notin visited
       /\ \A e \in Downstream(path[k].id) :
            \/ e \in path[k].rest \/ To(e) \in visited
            \/ k + 1 \in DOMAIN path /\ To(e) = path[k + 1].id
       /\ path[k].rest \subseteq Downstream(path[k].id)
       /\ k + 1 \in DOMAIN path =>
            \E e \in Dependencies : From(e) = path[k].id /\ To(e) = path[k + 1].id

\* Among the tasks the search is done with there is no cycle: every set of them has
\* one that depends on no other of the set.
VisitedSound ==
  /\ visited \subseteq TaskIds
  /\ \A e \in Dependencies : From(e) \in visited => To(e) \in visited
  /\ \A T \in SUBSET visited : T # {} =>
       \E t \in T : \A e \in Dependencies : To(e) = t => From(e) \notin T

RootsSound ==
  verdict = "searching" => \A i \in DOMAIN plan : i < next => plan[i].id \in visited \cup Visiting

SearchSound ==
  /\ SortSound
  /\ FramesSound /\ VisitedSound /\ RootsSound
  /\ verdict \notin {"searching", "cyclic"} => path = <<>> /\ visited = {}
  /\ CycleIsReal

LEMMA PathShape ==
  ASSUME FramesSound
  PROVE  /\ Len(path) \in Nat /\ DOMAIN path = 1..Len(path)
         /\ \A k \in DOMAIN path : path[k].id \in TaskIds /\ path[k].rest \subseteq Dependencies
         /\ path # <<>> => Len(path) \in DOMAIN path
<1>1. path \in Seq(FrameType) /\ \A f \in FrameType : f.id \in TaskIds /\ f.rest \subseteq Dependencies
  BY DEF FramesSound, FrameType
<1>2. /\ Len(path) \in Nat /\ DOMAIN path = 1..Len(path)
      /\ \A k \in DOMAIN path : path[k] \in FrameType
  BY <1>1
<1> QED BY <1>1, <1>2

LEMMA FollowedIs ==
  ASSUME FramesSound, path # <<>>, NEW e
  PROVE  /\ Followed(e) \in Seq(FrameType) /\ Len(Followed(e)) = Len(path)
         /\ DOMAIN Followed(e) = DOMAIN path
         /\ \A k \in DOMAIN path : k # Len(path) => Followed(e)[k] = path[k]
         /\ Followed(e)[Len(path)] = [path[Len(path)] EXCEPT !.rest = @ \ {e}]
         /\ Followed(e)[Len(path)].id = path[Len(path)].id
         /\ Followed(e)[Len(path)].rest = path[Len(path)].rest \ {e}
<1> DEFINE n == Len(path)
<1> DEFINE p == Followed(e)
<1>1. /\ n \in Nat /\ DOMAIN path = 1..n /\ n \in DOMAIN path
      /\ path[n] \in FrameType /\ \A k \in DOMAIN path : path[k] \in FrameType
  BY PathShape DEF FramesSound
<1>2. /\ DOMAIN p = DOMAIN path
      /\ p[n] = [path[n] EXCEPT !.rest = @ \ {e}]
      /\ \A k \in DOMAIN path : k # n => p[k] = path[k]
  BY <1>1 DEF Followed
<1>3. /\ p[n] \in FrameType
      /\ p[n].id = path[n].id /\ p[n].rest = path[n].rest \ {e}
  BY <1>1, <1>2 DEF FrameType
<1>4. p \in [1..n -> FrameType]
  <2>1. p = [k \in DOMAIN path |-> p[k]]
    BY DEF Followed
  <2> HIDE DEF p
  <2> QED BY <1>1, <1>2, <1>3, <2>1
<1> HIDE DEF p
<1>5. p \in Seq(FrameType) /\ Len(p) = n
  BY <1>1, <1>4
<1> QED BY <1>1, <1>2, <1>3, <1>5 DEF p

LEMMA SearchStays ==
  ASSUME FramesSound, VisitedSound, UNCHANGED <<plan, path, visited>>
  PROVE  FramesSound' /\ VisitedSound'
<1>1. FrameType' = FrameType
  BY PlanStays DEF FrameType
<1>2. FramesSound'
  BY <1>1, PlanStays DEF FramesSound
<1>3. VisitedSound'
  BY PlanStays DEF VisitedSound
<1> QED BY <1>2, <1>3

LEMMA SearchSoundAtFirst ==
  Init => SearchSound
<1> SUFFICES ASSUME Init PROVE SearchSound
  OBVIOUS
<1>1. SortSound
  BY SortSoundAtFirst
<1>2. path = <<>> /\ visited = {} /\ verdict = "checking"
  BY DEF Init
<1>3. FramesSound
  BY <1>2 DEF FramesSound
<1>4. VisitedSound
  BY <1>2 DEF VisitedSound
<1> QED BY <1>1, <1>2, <1>3, <1>4 DEF SearchSound, RootsSound, CycleIsReal

\* Were all tasks done with, the left-over ones would be free of cycles.
LEMMA RootsRemain ==
  ASSUME SearchSound, verdict = "searching", path = <<>>
  PROVE  next <= Len(plan)
<1>1. /\ plan \in Plans /\ next \in Nat /\ DOMAIN plan = 1..Len(plan) /\ Len(plan) \in Nat
      /\ \A i \in DOMAIN plan : i < next => plan[i].id \in visited
  BY PlanShape DEF SearchSound, SortSound, SortTypes, RootsSound, Visiting
<1> SUFFICES ASSUME next > Len(plan) PROVE FALSE
  BY <1>1
<1>2. TaskIds \subseteq visited
  BY <1>1 DEF TaskIds
<1> DEFINE S == TaskIds \ Ordered
<1>3. S # {} /\ \A t \in S : \E e \in Dependencies : To(e) = t /\ From(e) \in S
  BY LeftOverWait DEF SearchSound
<1>4. S \in SUBSET visited
  BY <1>2
<1> HIDE DEF S
<1> QED BY <1>3, <1>4 DEF SearchSound, VisitedSound

LEMMA VisitRootSound ==
  ASSUME SearchSound, SortSound', VisitRoot
  PROVE  SearchSound'
<1>1. /\ verdict = "searching" /\ path = <<>> /\ next <= Len(plan) /\ next' = next + 1
      /\ path' = IF plan[next].id \in visited THEN path ELSE <<Frame(plan[next].id)>>
      /\ UNCHANGED <<plan, verdict, visited>>
  BY RootsRemain DEF VisitRoot
<1>2. /\ plan \in Plans /\ next \in Nat \ {0} /\ DOMAIN plan = 1..Len(plan) /\ Len(plan) \in Nat
      /\ \A i \in DOMAIN plan : plan[i].id \in TaskIds
      /\ \A i \in DOMAIN plan : i < next => plan[i].id \in visited
  BY <1>1, PlanShape DEF SearchSound, SortSound, SortTypes, RootsSound, Visiting
<1>3. VisitedSound'
  BY <1>1, PlanStays DEF SearchSound, VisitedSound
<1>4. CycleIsReal'
  BY <1>1 DEF CycleIsReal
<1>5. CASE plan[next].id \in visited
  <2>1. path' = path
    BY <1>1, <1>5
  <2>2. FramesSound'
    BY <1>1, <2>1, SearchStays DEF SearchSound
  <2>3. RootsSound'
    BY <1>1, <1>2, <1>5 DEF RootsSound
  <2> QED BY <1>1, <1>3, <1>4, <2>2, <2>3 DEF SearchSound
<1>6. CASE plan[next].id \notin visited
  <2>0. PICK t : t = plan[next].id
    OBVIOUS
  <2>1. /\ path' = <<Frame(t)>> /\ t \in TaskIds /\ t \notin visited
        /\ DOMAIN path' = {1} /\ path'[1] = Frame(t)
    BY <1>1, <1>2, <1>6, <2>0
  <2>2. Frame(t).id = t /\ Frame(t).rest = Downstream(t) /\ Frame(t) \in FrameType
    BY <2>1 DEF Frame, FrameType, Downstream
  <2>3. FrameType' = FrameType
    BY <1>1, PlanStays DEF FrameType
  <2>4. path' \in Seq(FrameType)
    BY <2>1, <2>2
  <2>5. FramesSound'
    BY <1>1, <2>1, <2>2, <2>3, <2>4, PlanStays DEF FramesSound
  <2>6. t \in Visiting'
    BY <2>1, <2>2 DEF Visiting
  <2>7. RootsSound'
    <3> SUFFICES ASSUME NEW i \in DOMAIN plan, i < next + 1
                 PROVE  plan[i].id \in visited \cup Visiting'
      BY <1>1 DEF RootsSound
    <3>1. i < next \/ i = next
      BY <1>2
    <3> QED BY <1>2, <2>0, <2>6, <3>1
  <2> QED BY <1>1, <1>3, <1>4, <2>5, <2>7 DEF SearchSound
<1> QED BY <1>5, <1>6

\* What is on the path stays on it when one of its dependencies is followed.
LEMMA FollowSound ==
  ASSUME SearchSound, NEW e \in Dependencies, IsNextOnPath(e)
  PROVE  /\ verdict = "searching" /\ path # <<>> /\ Len(path) \in DOMAIN path
         /\ e \in path[Len(path)].rest /\ From(e) = path[Len(path)].id
         /\ \A k \in DOMAIN path : Followed(e)[k].id = path[k].id
         /\ \A k \in DOMAIN path :
              Followed(e)[k].rest = IF k = Len(path) THEN path[k].rest \ {e} ELSE path[k].rest
<1>1. verdict = "searching" /\ path # <<>> /\ e \in path[Len(path)].rest
  BY DEF IsNextOnPath, IsFirst, TopFrame
<1>2. FramesSound /\ Len(path) \in DOMAIN path
  BY <1>1, PathShape DEF SearchSound
<1>3. From(e) = path[Len(path)].id
  BY <1>1, <1>2 DEF FramesSound, Downstream
<1>4. /\ \A k \in DOMAIN path : k # Len(path) => Followed(e)[k] = path[k]
      /\ Followed(e)[Len(path)].id = path[Len(path)].id
      /\ Followed(e)[Len(path)].rest = path[Len(path)].rest \ {e}
  BY <1>1, <1>2, FollowedIs
<1> QED BY <1>1, <1>2, <1>3, <1>4

LEMMA SkipVisitedSound ==
  ASSUME SearchSound, SortSound', NEW e \in Dependencies, SkipVisited(e)
  PROVE  SearchSound'
<1>1. /\ IsNextOnPath(e) /\ To(e) \in visited /\ path' = Followed(e)
      /\ UNCHANGED <<plan, verdict, next, visited, cycle>>
  BY DEF SkipVisited
<1>2. /\ verdict = "searching" /\ path # <<>> /\ FramesSound
      /\ \A k \in DOMAIN path : path'[k].id = path[k].id
      /\ \A k \in DOMAIN path :
           path'[k].rest = IF k = Len(path) THEN path[k].rest \ {e} ELSE path[k].rest
  BY <1>1, FollowSound DEF SearchSound
<1>3. path' \in Seq(FrameType) /\ DOMAIN path' = DOMAIN path /\ FrameType' = FrameType
  BY <1>1, <1>2, FollowedIs, PlanStays DEF FrameType
<1>4. FramesSound'
  <2>1. ASSUME NEW k \in DOMAIN path, NEW d \in Downstream(path[k].id)
        PROVE  \/ d \in path'[k].rest \/ To(d) \in visited
               \/ k + 1 \in DOMAIN path /\ To(d) = path'[k + 1].id
    BY <1>1, <1>2, <2>1 DEF FramesSound
  <2>2. \A k \in DOMAIN path : path'[k].rest \subseteq path[k].rest
    BY <1>2
  <2> QED BY <1>1, <1>2, <1>3, <2>1, <2>2, PlanStays DEF FramesSound
<1>5. VisitedSound'
  BY <1>1, PlanStays DEF SearchSound, VisitedSound
<1>6. Visiting' = Visiting
  BY <1>2, <1>3 DEF Visiting
<1>7. RootsSound'
  BY <1>1, <1>6 DEF SearchSound, RootsSound
<1> QED BY <1>1, <1>2, <1>4, <1>5, <1>7 DEF SearchSound, CycleIsReal

LEMMA DescendSound ==
  ASSUME SearchSound, SortSound', NEW e \in Dependencies, Descend(e)
  PROVE  SearchSound'
<1>0. PICK t : t = To(e)
  OBVIOUS
<1> DEFINE n == Len(path)
<1>1. /\ IsNextOnPath(e) /\ t \notin visited /\ t \notin Visiting /\ t \in TaskIds
      /\ path' = Append(Followed(e), Frame(t))
      /\ UNCHANGED <<plan, verdict, next, visited, cycle>>
  BY <1>0, ToIsTask DEF Descend
<1>2. /\ verdict = "searching" /\ path # <<>> /\ n \in DOMAIN path /\ FramesSound
      /\ e \in path[n].rest /\ From(e) = path[n].id
      /\ \A k \in DOMAIN path : Followed(e)[k].id = path[k].id
      /\ \A k \in DOMAIN path :
           Followed(e)[k].rest = IF k = n THEN path[k].rest \ {e} ELSE path[k].rest
  BY <1>1, FollowSound DEF SearchSound
<1>3. /\ Followed(e) \in Seq(FrameType) /\ Len(Followed(e)) = n
      /\ n \in Nat /\ DOMAIN path = 1..n /\ FrameType' = FrameType
  BY <1>1, <1>2, FollowedIs, PathShape, PlanStays DEF FrameType
<1>4. Frame(t) \in FrameType /\ Frame(t).id = t /\ Frame(t).rest = Downstream(t)
  BY <1>1 DEF Frame, FrameType, Downstream
<1> HIDE DEF n
<1>5. /\ path' \in Seq(FrameType) /\ DOMAIN path' = 1..(n + 1)
      /\ \A k \in DOMAIN path : path'[k] = Followed(e)[k]
      /\ path'[n + 1] = Frame(t)
  BY <1>1, <1>3, <1>4
<1>6. /\ \A k \in DOMAIN path : path'[k].id = path[k].id
      /\ \A k \in DOMAIN path :
           path'[k].rest = IF k = n THEN path[k].rest \ {e} ELSE path[k].rest
      /\ path'[n + 1].id = t /\ path'[n + 1].rest = Downstream(t)
  BY <1>2, <1>4, <1>5
<1>7. DOMAIN path' = DOMAIN path \cup {n + 1} /\ n + 1 \notin DOMAIN path
  BY <1>3, <1>5
<1>8. FramesSound'
  <2>1. \A k, m \in DOMAIN path' : path'[k].id = path'[m].id => k = m
    BY <1>1, <1>2, <1>6, <1>7 DEF FramesSound, Visiting
  <2>2. ASSUME NEW k \in DOMAIN path
        PROVE  /\ path'[k].id \notin visited /\ path'[k].rest \subseteq Downstream(path'[k].id)
               /\ \A d \in Downstream(path'[k].id) :
                    \/ d \in path'[k].rest \/ To(d) \in visited
                    \/ k + 1 \in DOMAIN path' /\ To(d) = path'[k + 1].id
               /\ \E d \in Dependencies : From(d) = path'[k].id /\ To(d) = path'[k + 1].id
    <3>1. CASE k = n
      <4>1. ~(n + 1 \in DOMAIN path)
        BY <1>7
      <4>2. /\ path'[n].id = path[n].id /\ path'[n].rest = path[n].rest \ {e}
            /\ path'[n + 1].id = To(e) /\ n + 1 \in DOMAIN path'
        BY <1>0, <1>2, <1>6, <1>7
      <4>3. \A d \in Downstream(path[n].id) : d \in path[n].rest \/ To(d) \in visited
        BY <4>1, <1>2 DEF FramesSound
      <4>4. path[n].id \notin visited /\ path[n].rest \subseteq Downstream(path[n].id)
        BY <1>2 DEF FramesSound
      <4>5. \A d \in Downstream(path[n].id) :
              d \in path'[n].rest \/ To(d) \in visited \/ To(d) = path'[n + 1].id
        BY <4>2, <4>3
      <4>6. \E d \in Dependencies : From(d) = path'[n].id /\ To(d) = path'[n + 1].id
        BY <4>2, <1>2
      <4> QED BY <3>1, <4>2, <4>4, <4>5, <4>6
    <3>2. CASE k # n
      <4>1. k + 1 \in DOMAIN path
        BY <3>2, <1>3
      <4>2. /\ path'[k].id = path[k].id /\ path'[k].rest = path[k].rest
            /\ path'[k + 1].id = path[k + 1].id /\ k + 1 \in DOMAIN path'
        BY <3>2, <4>1, <1>6, <1>7
      <4>3. /\ path[k].id \notin visited /\ path[k].rest \subseteq Downstream(path[k].id)
            /\ \A d \in Downstream(path[k].id) :
                 d \in path[k].rest \/ To(d) \in visited \/ To(d) = path[k + 1].id
            /\ \E d \in Dependencies : From(d) = path[k].id /\ To(d) = path[k + 1].id
        BY <4>1, <1>2 DEF FramesSound
      <4> QED BY <4>2, <4>3
    <3> QED BY <3>1, <3>2
  <2>3. n + 1 + 1 \notin DOMAIN path'
    BY <1>3, <1>5
  <2> QED BY <1>1, <1>3, <1>5, <1>6, <1>7, <2>1, <2>2, <2>3, PlanStays DEF FramesSound
<1>9. VisitedSound'
  BY <1>1, PlanStays DEF SearchSound, VisitedSound
<1>10. Visiting \subseteq Visiting'
  <2>1. \A k \in DOMAIN path : path[k].id = path'[k].id /\ k \in DOMAIN path'
    BY <1>6, <1>7
  <2> QED BY <2>1 DEF Visiting
<1>11. RootsSound'
  BY <1>1, <1>10 DEF SearchSound, RootsSound
<1> QED BY <1>1, <1>2, <1>8, <1>9, <1>11 DEF SearchSound, CycleIsReal

\* The part of the path from the task found again to the top is a cycle.
LEMMA ReportCycleSound ==
  ASSUME SearchSound, SortSound', NEW e \in Dependencies, ReportCycle(e)
  PROVE  SearchSound'
<1> DEFINE n == Len(path)
<1>1. /\ IsNextOnPath(e) /\ verdict' = "cyclic"
      /\ UNCHANGED <<plan, next, path, visited>>
  BY DEF ReportCycle
<1>2. PICK k \in DOMAIN path :
        /\ path[k].id = To(e)
        /\ cycle' = [m \in 1..(n - k + 2) |->
                       IF m <= n - k + 1 THEN path[k + m - 1].id ELSE To(e)]
  BY DEF ReportCycle
<1>3. /\ verdict = "searching" /\ n \in DOMAIN path /\ FramesSound /\ From(e) = path[n].id
      /\ n \in Nat /\ DOMAIN path = 1..n /\ k \in Nat /\ 1 <= k /\ k <= n
  BY <1>1, FollowSound, PathShape DEF SearchSound
<1> HIDE DEF n
<1>4. /\ Len(cycle') = n - k + 2
      /\ \A m \in 1..(n - k + 1) : cycle'[m] = path[k + m - 1].id
      /\ cycle'[n - k + 2] = To(e)
  BY <1>2, <1>3
<1>5. Len(cycle') >= 2 /\ cycle'[1] = cycle'[Len(cycle')]
  <2>1. 1 \in 1..(n - k + 1) /\ k + 1 - 1 = k
    BY <1>3
  <2>2. cycle'[1] = path[k].id
    BY <1>4, <2>1
  <2> QED BY <1>2, <1>3, <1>4, <2>2
<1>6. ASSUME NEW m \in 1..(n - k + 1)
      PROVE  \E d \in Dependencies : From(d) = cycle'[m] /\ To(d) = cycle'[m + 1]
  <2>1. CASE m = n - k + 1
    <3>1. k + m - 1 = n /\ m + 1 = n - k + 2
      BY <2>1, <1>3
    <3>2. cycle'[m] = From(e) /\ cycle'[m + 1] = To(e)
      BY <3>1, <1>3, <1>4
    <3> QED BY <3>2
  <2>2. CASE m # n - k + 1
    <3>1. /\ m + 1 \in 1..(n - k + 1) /\ k + (m + 1) - 1 = (k + m - 1) + 1
          /\ k + m - 1 \in DOMAIN path /\ (k + m - 1) + 1 \in DOMAIN path
      BY <2>2, <1>3
    <3>2. PICK j : j = k + m - 1
      OBVIOUS
    <3>3. cycle'[m] = path[j].id /\ cycle'[m + 1] = path[j + 1].id
      BY <3>1, <3>2, <1>4
    <3> QED BY <3>1, <3>2, <3>3, <1>3 DEF FramesSound
  <2> QED BY <2>1, <2>2
<1>7. CycleIsReal'
  <2>1. Len(cycle') - 1 = n - k + 1
    BY <1>3, <1>4
  <2> QED BY <1>1, <1>5, <1>6, <2>1, PlanStays DEF CycleIsReal
<1>8. FramesSound' /\ VisitedSound'
  BY <1>1, SearchStays DEF SearchSound
<1> QED BY <1>1, <1>7, <1>8 DEF SearchSound, RootsSound

LEMMA LeaveTaskSound ==
  ASSUME SearchSound, SortSound', LeaveTask
  PROVE  SearchSound'
<1>0. PICK n, t : n = Len(path) /\ t = path[n].id
  OBVIOUS
<1>1. /\ verdict = "searching" /\ path # <<>> /\ path[n].rest = {}
      /\ visited' = visited \cup {t} /\ path' = SubSeq(path, 1, n - 1)
      /\ UNCHANGED <<plan, verdict, next, cycle>>
  BY <1>0 DEF LeaveTask, TopFrame
<1>2. /\ FramesSound /\ VisitedSound /\ path \in Seq(FrameType)
      /\ n \in Nat /\ DOMAIN path = 1..n /\ n \in DOMAIN path /\ t \in TaskIds
  BY <1>0, <1>1, PathShape DEF SearchSound, FramesSound
<1>3. /\ path' \in Seq(FrameType) /\ FrameType' = FrameType
      /\ DOMAIN path' = 1..(n - 1) /\ \A k \in DOMAIN path' : path'[k] = path[k]
  <2>1. FrameType' = FrameType
    BY <1>1, PlanStays DEF FrameType
  <2>2. ASSUME NEW S, path \in Seq(S)
        PROVE  /\ SubSeq(path, 1, n - 1) \in Seq(S)
               /\ DOMAIN SubSeq(path, 1, n - 1) = 1..(n - 1)
               /\ \A k \in 1..(n - 1) : SubSeq(path, 1, n - 1)[k] = path[k]
    <3>1. n = Len(path) /\ n >= 1
      BY <1>0, <1>2
    <3> QED BY <2>2, <3>1
  <2> HIDE DEF FrameType
  <2> QED BY <1>1, <1>2, <2>1, <2>2
<1>4. \A e \in Downstream(t) : To(e) \in visited
  <2>1. n + 1 \notin DOMAIN path
    BY <1>2
  <2> QED BY <1>0, <1>1, <1>2, <2>1 DEF FramesSound
<1>5. t \notin visited /\ \A k \in DOMAIN path' : k \in DOMAIN path /\ path[k].id # t
  <2>1. \A k \in DOMAIN path' : k \in DOMAIN path /\ k # n
    BY <1>2, <1>3
  <2> QED BY <1>0, <1>2, <2>1 DEF FramesSound
<1>6. FramesSound'
  <2>1. ASSUME NEW k \in DOMAIN path'
        PROVE  /\ path[k].id \notin visited'
               /\ path[k].rest \subseteq Downstream(path[k].id)
               /\ \A e \in Downstream(path[k].id) :
                    \/ e \in path[k].rest \/ To(e) \in visited'
                    \/ k + 1 \in DOMAIN path' /\ To(e) = path'[k + 1].id
               /\ k + 1 \in DOMAIN path' =>
                    \E e \in Dependencies : From(e) = path[k].id /\ To(e) = path'[k + 1].id
    <3>1. /\ k \in DOMAIN path /\ k + 1 \in DOMAIN path
          /\ k + 1 \in DOMAIN path' \/ k + 1 = n
      BY <1>2, <1>3
    <3>2. /\ path[k].id \notin visited /\ path[k].id # t
          /\ path[k].rest \subseteq Downstream(path[k].id)
          /\ \A e \in Downstream(path[k].id) :
               e \in path[k].rest \/ To(e) \in visited \/ To(e) = path[k + 1].id
          /\ \E e \in Dependencies : From(e) = path[k].id /\ To(e) = path[k + 1].id
      BY <1>2, <1>5, <3>1 DEF FramesSound
    <3>3. CASE k + 1 = n
      <4>1. path[k + 1].id = t /\ k + 1 \notin DOMAIN path'
        BY <1>0, <1>2, <1>3, <3>3
      <4> QED BY <1>1, <3>2, <4>1
    <3>4. CASE k + 1 \in DOMAIN path'
      <4>1. path'[k + 1].id = path[k + 1].id
        BY <1>3, <3>4
      <4> QED BY <1>1, <3>2, <3>4, <4>1
    <3> QED BY <3>1, <3>3, <3>4
  <2>2. \A k, m \in DOMAIN path' : path'[k].id = path'[m].id => k = m
    BY <1>2, <1>3, <1>5 DEF FramesSound
  <2> QED BY <1>1, <1>3, <2>1, <2>2, PlanStays DEF FramesSound
<1>7. VisitedSound'
  <2>1. \A e \in Dependencies : From(e) \in visited' => To(e) \in visited'
    BY <1>1, <1>2, <1>4 DEF VisitedSound, Downstream
  <2>2. ASSUME NEW T \in SUBSET visited', T # {}
        PROVE  \E u \in T : \A e \in Dependencies : To(e) = u => From(e) \notin T
    <3>1. CASE t \in T
      <4>1. \A e \in Dependencies : To(e) = t => From(e) \notin visited'
        BY <1>1, <1>2, <1>4, <1>5 DEF VisitedSound, Downstream
      <4> QED BY <3>1, <4>1
    <3>2. CASE t \notin T
      BY <2>2, <3>2, <1>1, <1>2 DEF VisitedSound
    <3> QED BY <3>1, <3>2
  <2> QED BY <1>1, <1>2, <2>1, <2>2, PlanStays DEF VisitedSound
<1>8. RootsSound'
  <2>1. visited \cup Visiting \subseteq visited' \cup Visiting'
    <3>1. ASSUME NEW k \in DOMAIN path
          PROVE  path[k].id \in visited' \cup Visiting'
      <4>1. CASE k = n
        BY <4>1, <1>0, <1>1
      <4>2. CASE k # n
        <5>1. k \in DOMAIN path' /\ path'[k] = path[k]
          BY <4>2, <1>2, <1>3
        <5> QED BY <5>1 DEF Visiting
      <4> QED BY <4>1, <4>2
    <3> QED BY <3>1, <1>1 DEF Visiting
  <2> QED BY <2>1, <1>1 DEF SearchSound, RootsSound
<1> QED BY <1>1, <1>6, <1>7, <1>8 DEF SearchSound, CycleIsReal

LEMMA StepSearchSound ==
  ASSUME SearchSound, [Next]_vars
  PROVE  SearchSound'
<1>1. SortSound'
  BY StepSortSound DEF SearchSound
<1>2. CASE RejectMalformed \/ RejectMissing \/ CountDependencies \/ Seed \/ StartSort
           \/ TakePending \/ Accept \/ (\E e \in Dependencies : CountDown(e))
  <2>1. /\ verdict \notin {"searching", "cyclic"} /\ verdict' \notin {"searching", "cyclic"}
        /\ UNCHANGED <<plan, path, visited>>
    BY <1>2 DEF RejectMalformed, RejectMissing, CountDependencies, Seed, StartSort,
                TakePending, Accept, CountDown, searchVars
  <2> QED BY <1>1, <2>1, SearchStays DEF SearchSound, RootsSound, CycleIsReal
<1>3. CASE SearchForCycle
  <2>1. /\ verdict' = "searching" /\ next' = 1 /\ UNCHANGED <<plan, path, visited>>
        /\ plan \in Plans
    BY <1>3 DEF SearchForCycle, searchVars, SearchSound, SortSound, SortTypes
  <2>2. RootsSound'
    <3>1. DOMAIN plan = 1..Len(plan) /\ Len(plan) \in Nat
      BY <2>1, PlanShape
    <3>2. \A i \in DOMAIN plan : ~(i < 1)
      BY <3>1
    <3> QED BY <2>1, <3>2 DEF RootsSound
  <2> QED BY <1>1, <2>1, <2>2, SearchStays DEF SearchSound, CycleIsReal
<1>4. CASE VisitRoot
  BY <1>1, <1>4, VisitRootSound
<1>5. CASE LeaveTask
  BY <1>1, <1>5, LeaveTaskSound
<1>6. ASSUME NEW e \in Dependencies, SkipVisited(e) \/ Descend(e) \/ ReportCycle(e)
      PROVE  SearchSound'
  BY <1>1, <1>6, SkipVisitedSound, DescendSound, ReportCycleSound
<1>7. CASE UNCHANGED vars
  <2>1. UNCHANGED <<plan, verdict, next, path, visited, cycle>>
    BY <1>7 DEF vars
  <2>2. Visiting' = Visiting
    BY <2>1 DEF Visiting
  <2> QED BY <1>1, <2>1, <2>2, SearchStays, PlanStays DEF SearchSound, RootsSound, CycleIsReal
<1> QED BY <1>2, <1>3, <1>4, <1>5, <1>6, <1>7 DEF Next, Judged

\* What is reported is a cycle, whatever the plan: a path of tasks each waiting for
\* the one before, back to where it began; the search never comes back with nothing.
THEOREM ReportedCyclesAreReal ==
  Spec => []CycleIsReal
<1>1. SearchSound /\ [Next]_vars => SearchSound'
  BY StepSearchSound
<1>2. SearchSound => CycleIsReal
  BY DEF SearchSound
<1> QED BY <1>1, <1>2, SearchSoundAtFirst, PTL DEF Spec
===============================================================================
