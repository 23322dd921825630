------------------------------- MODULE Workflow -------------------------------
(***************************************************************************)
(* One workflow, driven by the commands and HTTP handlers one at a time:   *)
(* wf is the content of its state.json, and an action is one whole handler *)
(* from loading the file to saving it.  Handlers that overlap, and crashes *)
(* inside one, are the subject of StateStore.                              *)
(***************************************************************************)
EXTENDS Execution

CONSTANTS
  Registries,    \* the sets of active nodes a dispatch may find registered
  Reports,       \* the reports workers may send: [failure, files] records
  LiveSessions,  \* the answers has_active_session may give: sets of tasks
  LostStatuses   \* what running_task_policy may make of a task without one

ASSUME WorkflowAssumption ==
  /\ Registries \subseteq SUBSET Agents
  /\ \A r \in Reports : r.files \in Seq(Files)
  /\ LiveSessions \subseteq SUBSET Tasks
  /\ LostStatuses \subseteq {"failed", "ready"}

VARIABLE wf
vars == <<wf>>

WaveIndexes == DOMAIN wf.waves

-----------------------------------------------------------------------------

Init == wf = InitialState

ScheduleNextWave == StartWave(wf, wf')
ScheduleNothing == SkipWave(wf, wf')
ScheduleCompletion == CompleteWorkflow(wf, wf')
Dispatch(i) == AssignWorkers(wf, wf', i)
WorkflowDispatch(i, nodes) == DispatchWave(wf, wf', i, nodes)
SubmitResult(t, report) == CollectResult(wf, wf', t, report)
AgentResult(t, from, report) == IntakeResult(wf, wf', t, from, report)
ReviewWavePasses(i) == PassReview(wf, wf', i)
ReviewWaveFails(i) == FailReview(wf, wf', i)
RecoverWorkflow(live, lost) == Recover(wf, wf', live, lost)

Next ==
  \/ ScheduleNextWave
  \/ ScheduleNothing
  \/ ScheduleCompletion
  \/ \E i \in WaveIndexes : Dispatch(i)
  \/ \E i \in WaveIndexes, nodes \in Registries : WorkflowDispatch(i, nodes)
  \/ \E t \in Tasks, report \in Reports : SubmitResult(t, report)
  \/ \E t \in Tasks, from \in Agents, report \in Reports : AgentResult(t, from, report)
  \/ \E i \in WaveIndexes : ReviewWavePasses(i)
  \/ \E i \in WaveIndexes : ReviewWaveFails(i)
  \/ \E live \in LiveSessions, lost \in LostStatuses : RecoverWorkflow(live, lost)

Spec == Init /\ [][Next]_vars

\* The operator repeats README's steps 3 to 6: some form of dispatch and review-wave
\* is issued whenever it would do something, next-wave "after review passes", and a
\* worker reports on every task it was given.  Nobody is obliged to run recover, nor
\* kept from running next-wave after a failed review.
NoReviewFailed == \A i \in WaveIndexes : wf.waves[i].status # "failed"
NextWaveAsDocumented == NoReviewFailed /\ (ScheduleNextWave \/ ScheduleCompletion)
AnyDispatch(i) ==
  i \in WaveIndexes /\ (Dispatch(i) \/ \E nodes \in Registries : WorkflowDispatch(i, nodes))
AnyResult(t) ==
  \E report \in Reports :
    SubmitResult(t, report) \/ \E from \in Agents : AgentResult(t, from, report)
AnyReview(i) == i \in WaveIndexes /\ (ReviewWavePasses(i) \/ ReviewWaveFails(i))

Fairness ==
  /\ WF_vars(NextWaveAsDocumented)
  /\ \A i \in 1..Cardinality(Tasks) : WF_vars(AnyDispatch(i)) /\ WF_vars(AnyReview(i))
  /\ \A t \in Tasks : WF_vars(AnyResult(t))

FairSpec == Spec /\ Fairness

-----------------------------------------------------------------------------
(* Safety                                                                  *)

InFlight == {t \in Tasks : wf.status[t] \in {"assigned", "running"}}

\* The state of a workflow is one its TypeScript interfaces allow, after every
\* handler (models/workflow.ts).
TypeOK == wf \in StateType

\* No task leaves pending or blocked before everything it depends on is done, and
\* no later handler undoes a done dependency under it (dependency_resolver.ts,
\* with retries, recoveries and repeated reviews in between).
DependenciesHold ==
  \A t \in Tasks :
    wf.status[t] \notin {"pending", "blocked"} => DependenciesDone(wf.status, t)

\* Only the newest wave is open.  Dispatching an old wave or reviewing it again
\* never reopens it, although neither handler looks at the wave's status
\* (worker_pool.ts, review_gate.ts, schedule_next_wave.ts).
OnlyNewestWaveOpen ==
  \A i \in WaveIndexes : IsOpen(wf.waves[i]) => i = Len(wf.waves)

\* No task is selected for a second wave, whatever retries, failed reviews and
\* recoveries came before, and none is listed twice in one (scheduler.ts).
EachTaskInOneWave ==
  \A i, j \in WaveIndexes :
    \A k \in DOMAIN wf.waves[i].tasks, l \in DOMAIN wf.waves[j].tasks :
      wf.waves[i].tasks[k] = wf.waves[j].tasks[l] => i = j /\ k = l

\* A wave recorded as done has only done tasks, although its review asks only that
\* none is failed: no blocked task ever sits in a wave (review_gate.ts).  A failed
\* wave keeps its tasks in reviewing or failed, out of every handler's reach.
ClosedWavesSettled ==
  \A i \in WaveIndexes : \A t \in TasksIn(wf.waves[i].tasks) :
    /\ wf.waves[i].status = "done" => wf.status[t] = "done"
    /\ wf.waves[i].status = "failed" => wf.status[t] \in {"reviewing", "failed"}

\* Tasks on their way at the same time never have a predicted file conflict, one
\* marked can_parallel = false has company from none, and the limits on parallel
\* and on high-risk tasks hold over what is really under way, not only at the
\* moment a wave is selected (scheduler.ts getSkipDecision).
ParallelismBounded ==
  /\ \A t, u \in InFlight : t # u => ~Conflict(t, u) /\ t \notin NonParallel
  /\ Cardinality(InFlight) <= Policy.max_parallel_tasks
  /\ Cardinality({t \in InFlight : IsHighRisk(t)}) <= Policy.high_risk_parallel_limit

\* No agent of the worker pool lists more tasks than max_tasks_per_agent: intake
\* and recovery, which write the lists without looking, never overfill one
\* (worker_pool.ts, intake_result.ts markAssignedTaskRunning).
AgentsWithinLimit ==
  \A a \in Agents : Load(wf.active, a) <= Policy.max_tasks_per_agent

\* A running task takes a slot of the agent it was given to, and one whose report
\* was accepted takes none anywhere, although a recovery leaves the slots of the
\* tasks it gives up as they are (result_collector.ts releaseTaskFromAgent).
SlotsFollowTasks ==
  \A a \in Agents, t \in Tasks :
    /\ wf.status[t] = "running" /\ wf.assigned_to[t] = a => wf.active[a][t] > 0
    /\ wf.status[t] \in {"pending", "blocked", "reviewing", "done"} => wf.active[a][t] = 0

\* A workflow reported done is: every wave closed as done, nothing left to run.
DoneMeansDone ==
  wf.phase = "done" => /\ \A t \in Tasks : wf.status[t] = "done"
                       /\ \A i \in WaveIndexes : wf.waves[i].status = "done"

\* A done task is never run, changed or reported on again (the PRD's "finished
\* tasks are not executed twice"), and closing a wave is final: no handler turns
\* a done or failed wave into anything else.
FinishedWorkIsFinal ==
  [][/\ \A t \in Tasks : wf.status[t] = "done" =>
          /\ wf'.status[t] = "done"
          /\ wf'.changed_files[t] = wf.changed_files[t]
          /\ wf'.assigned_to[t] = wf.assigned_to[t]
     /\ \A i \in WaveIndexes : ~IsOpen(wf.waves[i]) => wf'.waves[i] = wf.waves[i]]_vars

-----------------------------------------------------------------------------
(* Liveness                                                                *)

\* A task put back to ready by a retry is given out again: it can only be given
\* out with its old wave, which stays open around it (result_collector.ts,
\* retry_policy.ts, and the two dispatch handlers).
RetriedTaskRunsAgain ==
  \A t \in Tasks :
    wf.status[t] = "ready" /\ wf.retry_count[t] > 0 ~> wf.status[t] # "ready"

\* Every wave that is opened is eventually closed by a review.
OpenWaveCloses ==
  \A i \in 1..Cardinality(Tasks) :
    (i \in WaveIndexes /\ IsOpen(wf.waves[i])) ~> (i \in WaveIndexes /\ ~IsOpen(wf.waves[i]))

\* The workflow gets to its end: it is reported done for good, or the failed review
\* of a wave has stopped it.  No ready task is skipped by every next-wave, and no
\* task waits for ever for a dependency that is done (scheduler.ts,
\* dependency_resolver.ts, schedule_next_wave.ts, review_gate.ts).
WorkflowEnds == <>[](wf.phase = "done" \/ ~NoReviewFailed)

-----------------------------------------------------------------------------
(* What the documents promise and the code does not do                     *)

\* A wave is scheduled only after the review of every earlier one has passed (agent.md
\* "ReviewGate must pass before scheduling the next wave").  scheduleNextWorkflowWave
\* refuses only a workflow that is "failed"; a failed review makes it "blocked".
NextWaveOnlyAfterPassedReview ==
  \A i \in 1..(Len(wf.waves) - 1) : wf.waves[i].status = "done"

\* No worker has more tasks under way than the policy allows (PRD 7.4).
\* selectNodeForTask never looks at what a node already has.
WorkersWithinLimit ==
  \A a \in Agents :
    Cardinality({t \in InFlight : wf.assigned_to[t] = a}) <= Policy.max_tasks_per_agent

-----------------------------------------------------------------------------
(* Refinement                                                              *)

Lifecycle == INSTANCE TaskLifecycle WITH status <- wf.status

\* Every handler keeps the promises of TaskLifecycle: legal moves only, a start
\* only after the dependencies, conflicting tasks never on their way together.
ImplementsLifecycle == Lifecycle!Spec

-----------------------------------------------------------------------------
(* The inductive invariant                                                 *)

\* Two tasks that may be in one wave.
Compatible(t, u) == t # u /\ ~Conflict(t, u) /\ {t, u} \cap NonParallel = {}

\* What a wave's status says of its tasks, and what its closing review found, for
\* good.  Only the newest wave is open, and none is blocked, which would be neither
\* open nor closed.
WaveStands(s, i) ==
  LET wave == s.waves[i]
      S == TasksIn(wave.tasks)
  IN /\ wave.tasks # <<>> /\ wave.status # "blocked"
     /\ IsOpen(wave) =>
          /\ i = Len(s.waves)
          /\ \A t \in S : s.status[t] \in {"ready", "assigned", "running", "reviewing", "failed"}
     /\ wave.status = "done" => ReviewPasses(s, i) /\ \A t \in S : s.status[t] = "done"
     /\ wave.status = "failed" =>
          ~ReviewPasses(s, i) /\ \A t \in S : s.status[t] \in {"reviewing", "failed"}
     /\ \A k, l \in DOMAIN wave.tasks : k < l => Compatible(wave.tasks[k], wave.tasks[l])

Sound(s) ==
  /\ s \in StateType
  /\ \A t \in Tasks :
       s.status[t] \notin {"pending", "blocked"} => DependenciesDone(s.status, t)
  /\ \A i \in DOMAIN s.waves : WaveStands(s, i)
  /\ \A i, j \in DOMAIN s.waves : \A t \in Tasks :
       t \in TasksIn(s.waves[i].tasks) /\ t \in TasksIn(s.waves[j].tasks) => i = j
  /\ \A t \in Tasks : s.status[t] \in {"assigned", "running"} =>
       \E i \in DOMAIN s.waves : t \in TasksIn(s.waves[i].tasks)
  /\ s.phase = "done" => \A t \in Tasks : s.status[t] = "done"

\* The strengthening that every handler preserves: the statuses of tasks and waves
\* agree, and a closed wave keeps the verdict of its review.  WorkflowProofs shows
\* that it is inductive and derives the properties above from it.
StatusesAgree == Sound(wf)
=============================================================================
