---------------------------- MODULE SchedulerLoops ----------------------------
(***************************************************************************)
(* The loops of the scheduler as the code runs them, each a fold over the  *)
(* tasks in the order the code visits them, and what relates them to the   *)
(* forms of Scheduler that the other modules use.  A state is one input,   *)
(* the statuses and retry counts of the tasks together with a plan; a      *)
(* step is one call of resolveDependencies.                                *)
(***************************************************************************)
EXTENDS Integers, FiniteSets, SequencesExt

CONSTANTS
  Tasks, Files, Agents, None, Position, NonParallel, Risk, ExpectedFiles,
  PreferredAgent, NeedsCapability, DirectoryScope, GlobMatches,
  Plans,      \* the dependencies and policies to try: [depends_on, policy] records
  Statuses,   \* the statuses to try
  MaxRetries  \* bound on the retry counts to try

VARIABLES status, retries, plan
vars == <<status, retries, plan>>

DependsOn == plan.depends_on
Policy == plan.policy
INSTANCE Scheduler

ASSUME SchedulerLoopsAssumption ==
  /\ IsFiniteSet(Tasks)
  /\ Position \in [Tasks -> Nat]
  /\ \A t, u \in Tasks : Position[t] = Position[u] => t = u
  /\ Risk \in [Tasks -> RiskLevels]
  /\ \A t \in Tasks : IsFiniteSet(ExpectedFiles[t])
  /\ \A p \in Plans : p.depends_on \in [Tasks -> SUBSET Tasks] /\ p.policy \in PolicyType
  /\ MaxRetries \in Nat

-----------------------------------------------------------------------------

\* Object.values(state.tasks): the tasks in the order the plan lists them.
PlanOrder ==
  CHOOSE order \in [1..Cardinality(Tasks) -> Tasks] :
    \A i, j \in DOMAIN order : i < j => Position[order[i]] < Position[order[j]]

\* Mutant: a blocked dependency does not block.
ResolveFailedOnly(st, t) ==
  IF st[t] \in {"pending", "ready", "blocked"} /\ \E u \in DependsOn[t] : st[u] = "failed"
    THEN [st EXCEPT ![t] = "blocked"]
  ELSE IF st[t] = "pending" /\ DependenciesDone(st, t) THEN [st EXCEPT ![t] = "ready"]
  ELSE st

\* One turn of the loop of resolveDependencies.
Resolve(st, t) ==
  IF st[t] \notin {"pending", "ready", "blocked"} THEN st
  ELSE IF \E u \in DependsOn[t] : st[u] \in {"failed", "blocked"}
    THEN [st EXCEPT ![t] = "blocked"]
  ELSE IF st[t] = "pending" /\ DependenciesDone(st, t)
    THEN [st EXCEPT ![t] = "ready"]
  ELSE st

ResolveLoop(st) == FoldLeft(Resolve, st, PlanOrder)

\* Mutant: equal scores change places.
InsertUnstably(queue, t) ==
  InsertAt(queue,
           Cardinality({i \in DOMAIN queue :
                          Score(queue[i], retries[queue[i]]) < Score(t, retries[t])}) + 1, t)

\* A stable sort by score puts t behind everything that scores no more.
InsertByScore(queue, t) ==
  LET before == {i \in DOMAIN queue :
                   Score(queue[i], retries[queue[i]]) <= Score(t, retries[t])}
  IN InsertAt(queue, Cardinality(before) + 1, t)

KeepReady(queue, t) == IF status[t] = "ready" THEN Append(queue, t) ELSE queue
ReadyTasks == FoldLeft(KeepReady, <<>>, PlanOrder)

ReadyOrder ==
  IF Policy.risk_aware THEN FoldLeft(InsertByScore, <<>>, ReadyTasks) ELSE ReadyTasks

\* One turn of the loop of generateNextWave.
SelectTask(queue, t) == IF Admits(t, TasksIn(queue)) THEN Append(queue, t) ELSE queue

\* Mutant: each task is tested against all the others that are ready.
WaveAgainstAll == SelectSeq(ReadyOrder, LAMBDA t : Admits(t, Ready(status) \ {t}))

WaveLoop == FoldLeft(SelectTask, <<>>, ReadyOrder)

-----------------------------------------------------------------------------

\* Statuses a workflow can have: a task that has left pending and blocked has all
\* its dependencies done.  Retry counts are tried only where they matter.
Init ==
  /\ plan \in Plans
  /\ status \in [Tasks -> Statuses]
  /\ \A t \in Tasks :
       status[t] \notin {"pending", "blocked"} => DependenciesDone(status, t)
  /\ retries \in [Tasks -> 0..IF plan.policy.risk_aware THEN MaxRetries ELSE 0]

Next ==
  /\ status' = ResolveLoop(status)
  /\ UNCHANGED <<retries, plan>>

Spec == Init /\ [][Next]_vars /\ WF_vars(Next)

-----------------------------------------------------------------------------

\* One pass of resolveDependencies, whose loop reads statuses it has itself just
\* written, does what ResolveDependencies says without a loop, whatever the order
\* of the plan (dependency_resolver.ts).
ResolutionIsLeastClosure == ResolveLoop(status) = ResolveDependencies(status)

\* The loop of generateNextWave ends with the one queue WaveQueues describes: each
\* ready task is in the wave exactly if it fits with those ahead of it in the wave,
\* in the stable order of sortReadyTasks (scheduler.ts).
SelectionIsUnique == WaveQueues(status, retries) = {WaveLoop}

\* A wave is not only legal but maximal under the pairwise rules: a ready task left
\* out would break a limit, or conflict with some task of the wave, even if the wave
\* had been formed first (scheduler.ts getSkipDecision).
NoReadyTaskLeftOutInVain ==
  \A t \in Ready(status) \ TasksIn(WaveLoop) : ~Admits(t, TasksIn(WaveLoop))

\* Repeated passes reach every task downstream of a failed one: although one pass in
\* plan order blocks only some of them, in the end every waiting task with a failed
\* or blocked dependency is blocked (the PRD's "upstream failed => blocked").
BlockingReachesEveryone ==
  <>[](\A t \in Waiting(status) :
         (\E u \in DependsOn[t] : status[u] \in {"failed", "blocked"})
         => status[t] = "blocked")
=============================================================================
