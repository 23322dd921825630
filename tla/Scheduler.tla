------------------------------ MODULE Scheduler ------------------------------
(***************************************************************************)
(* The two pure steps of the scheduler: dependency resolution              *)
(* (dependency_resolver.ts) and wave selection (scheduler.ts).  Both are   *)
(* loops in the code, in which a task's fate depends on the tasks visited  *)
(* before it.  Here each is said without the loop, as the least set closed *)
(* under the loop's rule and as the one set that agrees with the loop's    *)
(* test; SchedulerLoops holds the loops themselves, and the run            *)
(* scheduler_loops compares the two on every input of a small plan.        *)
(***************************************************************************)
EXTENDS Plan, Sequences

TaskStatus ==
  {"pending", "ready", "assigned", "running", "reviewing",
   "done", "failed", "blocked", "cancelled"}

\* The tasks of a wave: wave.tasks is an array in selection order.
TasksIn(queue) == {queue[i] : i \in DOMAIN queue}

Ready(status) == {t \in Tasks : status[t] = "ready"}

-----------------------------------------------------------------------------
(* resolveDependencies                                                     *)

DependenciesDone(status, t) == \A u \in DependsOn[t] : status[u] = "done"

\* The tasks the pass looks at; every other status is left alone.
Waiting(status) == {t \in Tasks : status[t] \in {"pending", "ready", "blocked"}}

\* Mutant: blocking spreads upwards in the plan as well within one pass.
ClosedDownstream(S, status) ==
  \A t \in Waiting(status) :
    (\E u \in DependsOn[t] : status[u] \in {"failed", "blocked"} \/ u \in S) => t \in S

\* S holds every waiting task with a dependency that is failed or blocked when
\* the pass starts, or that the pass itself has blocked earlier in plan order.
ClosedUnderBlocking(S, status) ==
  \A t \in Waiting(status) :
    (\E u \in DependsOn[t] : \/ status[u] \in {"failed", "blocked"}
                             \/ u \in S /\ Position[u] < Position[t])
    => t \in S

\* The tasks one pass blocks: the least such set.
Blocks(status) ==
  {t \in Waiting(status) :
     \A S \in SUBSET Waiting(status) : ClosedUnderBlocking(S, status) => t \in S}

\* Mutant: a dependency that waits for its review counts as done.
ResolveBeforeReview(status) ==
  [t \in Tasks |->
     IF t \in Blocks(status) THEN "blocked"
     ELSE IF status[t] = "pending" /\ \A u \in DependsOn[t] : status[u] \in {"reviewing", "done"}
       THEN "ready"
     ELSE status[t]]

\* A blocked task is never unblocked and a ready one never becomes pending.
ResolveDependencies(status) ==
  [t \in Tasks |->
     IF t \in Blocks(status) THEN "blocked"
     ELSE IF status[t] = "pending" /\ DependenciesDone(status, t) THEN "ready"
     ELSE status[t]]

-----------------------------------------------------------------------------
(* generateNextWave                                                        *)

\* sortReadyTasks: plan order, or a stable sort by risk score.
Precedes(t, u, retries) ==
  IF Policy.risk_aware /\ Score(t, retries[t]) # Score(u, retries[u])
    THEN Score(t, retries[t]) < Score(u, retries[u])
    ELSE Position[t] < Position[u]

\* preferred_agent ?? "__default_agent__"; None stands for the default key.
AgentKeys(S) == {PreferredAgent[u] : u \in S}

\* Mutant: file conflicts are not looked at.
AdmitsConflicts(t, S) ==
  /\ Cardinality(S) < Policy.max_parallel_tasks
  /\ S # {} => t \notin NonParallel
  /\ S \cap NonParallel = {}
  /\ IsHighRisk(t) =>
       Cardinality({u \in S : IsHighRisk(u)}) < Policy.high_risk_parallel_limit

\* Mutant: a task whose files are unknown is always kept back, as for require_review.
AdmitsKnownFiles(t, S) ==
  /\ ExpectedFiles[t] # {}
  /\ Cardinality(S) < Policy.max_parallel_tasks
  /\ \A u \in S : ~Conflict(t, u) /\ {t, u} \cap NonParallel = {}

\* getSkipDecision returns null: t joins the tasks S selected before it.
Admits(t, S) ==
  /\ Cardinality(S) < Policy.max_parallel_tasks
  /\ S # {} => t \notin NonParallel
  /\ S \cap NonParallel = {}
  /\ \/ PreferredAgent[t] \in AgentKeys(S)
     \/ Cardinality(AgentKeys(S)) < Policy.max_agents
  /\ \A u \in S : ~Conflict(t, u)
  /\ IsHighRisk(t) =>
       Cardinality({u \in S : IsHighRisk(u)}) < Policy.high_risk_parallel_limit

\* S is what the greedy pass over the ready tasks selects.
IsSelection(S, status, retries) ==
  \A t \in Ready(status) :
    t \in S <=> Admits(t, {u \in S : Precedes(u, t, retries)})

\* The candidate waves: what is selected, in the order it is selected.
WaveQueues(status, retries) ==
  {queue \in UNION {[1..n -> Ready(status)] : n \in 0..Cardinality(Ready(status))} :
     /\ \A i, j \in DOMAIN queue : i < j => Precedes(queue[i], queue[j], retries)
     /\ IsSelection(TasksIn(queue), status, retries)}
=============================================================================
