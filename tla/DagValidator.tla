----------------------------- MODULE DagValidator -----------------------------
(***************************************************************************)
(* What decides whether a plan becomes a workflow: validateDag of          *)
(* dag_validator.ts, turn by turn of its loops.  A sort in the manner of   *)
(* Kahn counts for every task the dependencies it still waits for; what it *)
(* cannot order is searched depth first for a cycle to report.  A plan is  *)
(* the list of its tasks; the checks of their other fields, which keep a   *)
(* plan from getting this far, are left out.                               *)
(***************************************************************************)
EXTENDS Integers, Sequences, FiniteSets

CONSTANTS
  Ids,   \* what may stand in id and in depends_on
  Plans  \* the plans to validate: sequences of [id, depends_on] records

ASSUME DagAssumption ==
  Plans \subseteq Seq([id : Ids, depends_on : Seq(Ids)])

VARIABLES
  plan,      \* the plan under validation
  verdict,   \* where validateDag stands, in the end what it found
  next,      \* the position in the plan a loop over the tasks has come to
  indegree,  \* indegree[t]: the dependencies t still waits for
  pending,   \* the queue of tasks that wait for none
  rest,      \* the dependencies on the last task ordered that are yet to be counted
  order,     \* topological_order
  path,      \* the frames of the search: a task and the dependencies on it to follow
  visited,   \* the tasks the search is done with
  cycle      \* the cycle reported
sortVars == <<indegree, pending, rest, order>>
searchVars == <<path, visited, cycle>>
vars == <<plan, verdict, next, indegree, pending, rest, order, path, visited, cycle>>

Rejected == {"malformed", "missing", "cyclic"}

TaskIds == {plan[i].id : i \in DOMAIN plan}

\* depends_on may name a task twice: a dependency is a place in the plan, and leads
\* from the task it names to the task that waits.
Dependencies == UNION {{<<i, j>> : j \in DOMAIN plan[i].depends_on} : i \in DOMAIN plan}
From(e) == plan[e[1]].depends_on[e[2]]
To(e) == plan[e[1]].id

\* graph.get(t): the dependencies on t, in the order they stand in the plan.
Downstream(t) == {e \in Dependencies : From(e) = t}
IsFirst(e, S) ==
  e \in S /\ \A f \in S : e[1] < f[1] \/ (e[1] = f[1] /\ e[2] <= f[2])

Init ==
  /\ plan \in Plans
  /\ verdict = "checking"
  /\ next = 1
  /\ indegree = [t \in {} |-> 0] /\ pending = <<>> /\ rest = {} /\ order = <<>>
  /\ path = <<>> /\ visited = {} /\ cycle = <<>>

-----------------------------------------------------------------------------
(* validateDag up to the sort                                              *)

WellFormed ==
  /\ plan # <<>>
  /\ \A i, j \in DOMAIN plan : plan[i].id = plan[j].id => i = j

RejectMalformed ==
  /\ verdict = "checking" /\ ~WellFormed
  /\ verdict' = "malformed"
  /\ UNCHANGED <<plan, next, sortVars, searchVars>>

RejectMissing ==
  /\ verdict = "checking" /\ WellFormed
  /\ \E e \in Dependencies : From(e) \notin TaskIds
  /\ verdict' = "missing"
  /\ UNCHANGED <<plan, next, sortVars, searchVars>>

\* Mutant: a dependency named twice is counted once, but comes twice in the graph.
CountDistinct ==
  /\ verdict = "checking" /\ WellFormed
  /\ \A e \in Dependencies : From(e) \in TaskIds
  /\ verdict' = "seeding"
  /\ indegree' = [t \in TaskIds |-> Cardinality({From(e) : e \in {f \in Dependencies : To(f) = t}})]
  /\ UNCHANGED <<plan, next, pending, rest, order, searchVars>>

CountDependencies ==
  /\ verdict = "checking" /\ WellFormed
  /\ \A e \in Dependencies : From(e) \in TaskIds
  /\ verdict' = "seeding"
  /\ indegree' = [t \in TaskIds |-> Cardinality({e \in Dependencies : To(e) = t})]
  /\ UNCHANGED <<plan, next, pending, rest, order, searchVars>>

-----------------------------------------------------------------------------
(* topologicalSort                                                         *)

\* Mutant: only the first task of the plan can be one that waits for none.
SeedFirst ==
  /\ verdict = "seeding" /\ next <= Len(plan)
  /\ next' = Len(plan) + 1
  /\ pending' = IF indegree[plan[next].id] = 0 THEN Append(pending, plan[next].id) ELSE pending
  /\ UNCHANGED <<plan, verdict, indegree, rest, order, searchVars>>

\* One task of ids.filter(...).
Seed ==
  /\ verdict = "seeding" /\ next <= Len(plan)
  /\ next' = next + 1
  /\ pending' = IF indegree[plan[next].id] = 0 THEN Append(pending, plan[next].id) ELSE pending
  /\ UNCHANGED <<plan, verdict, indegree, rest, order, searchVars>>

StartSort ==
  /\ verdict = "seeding" /\ next > Len(plan)
  /\ verdict' = "sorting"
  /\ UNCHANGED <<plan, next, sortVars, searchVars>>

TakePending ==
  /\ verdict = "sorting" /\ rest = {} /\ pending # <<>>
  /\ order' = Append(order, Head(pending))
  /\ pending' = Tail(pending)
  /\ rest' = Downstream(Head(pending))
  /\ UNCHANGED <<plan, verdict, next, indegree, searchVars>>

CountDown(e) ==
  /\ verdict = "sorting" /\ IsFirst(e, rest)
  /\ rest' = rest \ {e}
  /\ indegree' = [indegree EXCEPT ![To(e)] = @ - 1]
  /\ pending' = IF indegree[To(e)] = 1 THEN Append(pending, To(e)) ELSE pending
  /\ UNCHANGED <<plan, verdict, next, order, searchVars>>

Accept ==
  /\ verdict = "sorting" /\ rest = {} /\ pending = <<>>
  /\ Len(order) = Len(plan)
  /\ verdict' = "valid"
  /\ UNCHANGED <<plan, next, sortVars, searchVars>>

SearchForCycle ==
  /\ verdict = "sorting" /\ rest = {} /\ pending = <<>>
  /\ Len(order) # Len(plan)
  /\ verdict' = "searching" /\ next' = 1
  /\ UNCHANGED <<plan, sortVars, searchVars>>

-----------------------------------------------------------------------------
(* findCycleTaskIds and visit                                              *)

Frame(t) == [id |-> t, rest |-> Downstream(t)]
Visiting == {path[k].id : k \in DOMAIN path}

\* The loop over graph.keys(): the tasks in plan order.  When none is left the error
\* names no task.
VisitRoot ==
  /\ verdict = "searching" /\ path = <<>>
  /\ IF next <= Len(plan)
       THEN /\ next' = next + 1
            /\ path' = IF plan[next].id \in visited THEN path ELSE <<Frame(plan[next].id)>>
            /\ UNCHANGED verdict
       ELSE /\ verdict' = "cyclic"
            /\ UNCHANGED <<next, path>>
  /\ UNCHANGED <<plan, sortVars, visited, cycle>>

TopFrame == path[Len(path)]
IsNextOnPath(e) == verdict = "searching" /\ path # <<>> /\ IsFirst(e, TopFrame.rest)
Followed(e) == [path EXCEPT ![Len(path)].rest = @ \ {e}]

SkipVisited(e) ==
  /\ IsNextOnPath(e) /\ To(e) \in visited
  /\ path' = Followed(e)
  /\ UNCHANGED <<plan, verdict, next, sortVars, visited, cycle>>

Descend(e) ==
  /\ IsNextOnPath(e) /\ To(e) \notin visited \cup Visiting
  /\ path' = Append(Followed(e), Frame(To(e)))
  /\ UNCHANGED <<plan, verdict, next, sortVars, visited, cycle>>

\* Mutant: the whole path is reported, with what leads to the cycle.
ReportPath(e) ==
  /\ IsNextOnPath(e) /\ To(e) \in Visiting \ visited
  /\ verdict' = "cyclic"
  /\ cycle' = [m \in 1..(Len(path) + 1) |-> IF m <= Len(path) THEN path[m].id ELSE To(e)]
  /\ UNCHANGED <<plan, next, sortVars, path, visited>>

ReportCycle(e) ==
  /\ IsNextOnPath(e) /\ To(e) \in Visiting \ visited
  /\ verdict' = "cyclic"
  /\ \E k \in DOMAIN path :
       /\ path[k].id = To(e)
       /\ cycle' = [m \in 1..(Len(path) - k + 2) |->
                      IF m <= Len(path) - k + 1 THEN path[k + m - 1].id ELSE To(e)]
  /\ UNCHANGED <<plan, next, sortVars, path, visited>>

LeaveTask ==
  /\ verdict = "searching" /\ path # <<>> /\ TopFrame.rest = {}
  /\ visited' = visited \cup {TopFrame.id}
  /\ path' = SubSeq(path, 1, Len(path) - 1)
  /\ UNCHANGED <<plan, verdict, next, sortVars, cycle>>

-----------------------------------------------------------------------------

Judged == verdict \in Rejected \cup {"valid"} /\ UNCHANGED vars

Next ==
  \/ RejectMalformed \/ RejectMissing \/ CountDependencies
  \/ Seed \/ StartSort \/ TakePending \/ Accept \/ SearchForCycle
  \/ VisitRoot \/ LeaveTask
  \/ \E e \in Dependencies :
       CountDown(e) \/ SkipVisited(e) \/ Descend(e) \/ ReportCycle(e)
  \/ Judged

Spec == Init /\ [][Next]_vars

-----------------------------------------------------------------------------
(* What the verdict means                                                  *)

IsOrdered(t) == \E k \in DOMAIN order : order[k] = t

\* The order returned for a valid plan has every task, each once and behind all it
\* depends on, also when depends_on names a task several times (topologicalSort).
AcceptedInOrder ==
  verdict = "valid" =>
    /\ \A t \in TaskIds : IsOrdered(t)
    /\ \A k, m \in DOMAIN order : order[k] = order[m] => k = m
    /\ \A e \in Dependencies : \A m \in DOMAIN order :
         order[m] = To(e) => \E k \in 1..(m - 1) : order[k] = From(e)

\* A plan is rejected as cyclic only for tasks that would wait for each other for
\* ever: each of them depends on another of them (validateDag).
RejectedForCause ==
  verdict \in {"searching", "cyclic"} =>
    \E S \in SUBSET TaskIds :
      /\ S # {}
      /\ \A t \in S : \E e \in Dependencies : To(e) = t /\ From(e) \in S

\* What the error shows is a cycle: it begins and ends with the same task, and each
\* task on it waits for the one before.  The search never comes back with nothing,
\* although it starts anew and counts nothing the sort has counted (visit).
CycleIsReal ==
  verdict = "cyclic" =>
    /\ Len(cycle) >= 2
    /\ cycle[1] = cycle[Len(cycle)]
    /\ \A m \in 1..(Len(cycle) - 1) :
         \E e \in Dependencies : From(e) = cycle[m] /\ To(e) = cycle[m + 1]
===============================================================================
