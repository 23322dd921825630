------------------------------ MODULE Execution ------------------------------
(***************************************************************************)
(* The handlers that change a workflow, each a relation between the state  *)
(* record s it loads and the record n it saves.  A handler that throws, or *)
(* that returns without saving, relates s to nothing.  The record keeps    *)
(* what later handlers read of WorkflowState (models/workflow.ts):         *)
(*   status, assigned_to, retry_count, changed_files   the fields of tasks *)
(*   known, active   agents: its keys, and how often each active_task_ids  *)
(*                   lists each task                                       *)
(*   waves           each with its tasks and status; a wave id is          *)
(*                   "wave_" and the position in the array                 *)
(*   current_wave    that position, or 0 for null                          *)
(*   phase           the workflow's status                                 *)
(***************************************************************************)
EXTENDS Scheduler, Functions

CONSTANTS
  NodeRank,   \* NodeRank[n]: where n stands in the order of node ids
  NodeSkills  \* NodeSkills[n]: tasks whose required_capabilities n declares

ASSUME NodeAssumption ==
  /\ NodeRank \in [Agents -> Nat]
  /\ \A n, m \in Agents : NodeRank[n] = NodeRank[m] => n = m
  /\ NodeSkills \in [Agents -> SUBSET Tasks]

WaveStatus == {"pending", "running", "reviewing", "done", "failed", "blocked"}
WorkflowStatus == {"pending", "running", "done", "failed", "blocked"}

StateType ==
  [status : [Tasks -> TaskStatus],
   assigned_to : [Tasks -> Agents \cup {None}],
   retry_count : [Tasks -> Nat],
   changed_files : [Tasks -> Seq(Files)],
   known : SUBSET Agents,
   active : [Agents -> [Tasks -> Nat]],
   waves : Seq([tasks : Seq(Tasks), status : WaveStatus]),
   current_wave : Nat,
   phase : WorkflowStatus]

\* createInitialWorkflowState
InitialState ==
  [status |-> [t \in Tasks |-> "pending"],
   assigned_to |-> [t \in Tasks |-> None],
   retry_count |-> [t \in Tasks |-> 0],
   changed_files |-> [t \in Tasks |-> <<>>],
   known |-> {},
   active |-> [a \in Agents |-> [t \in Tasks |-> 0]],
   waves |-> <<>>,
   current_wave |-> 0,
   phase |-> "pending"]

-----------------------------------------------------------------------------
(* scheduleNextWorkflowWave                                                *)

\* isActiveWaveStatus.  Nothing ever makes a wave reviewing, or blocked.
IsOpen(wave) == wave.status \in {"pending", "running", "reviewing"}

\* Mutant: a wave that was scheduled but not dispatched yet is not seen.
SeesRunningWave(s) == \E i \in DOMAIN s.waves : s.waves[i].status = "running"
HasOpenWave(s) == \E i \in DOMAIN s.waves : IsOpen(s.waves[i])

\* Mutant: a task nobody will work on any more counts as done.
AllSettled(s) ==
  \A t \in Tasks : s.status[t] \notin {"pending", "ready", "assigned", "running"}

AllDone(s) == Tasks # {} /\ \A t \in Tasks : s.status[t] = "done"

CompleteWorkflow(s, n) ==
  /\ ~HasOpenWave(s)
  /\ AllDone(s)
  /\ n = [s EXCEPT !.phase = "done"]

\* Neither an open wave, nor completion, nor a failed workflow stops the call:
\* dependencies are resolved and a wave is generated from the result.
MaySchedule(s) == ~HasOpenWave(s) /\ ~AllDone(s) /\ s.phase # "failed"

StartWave(s, n) ==
  /\ MaySchedule(s)
  /\ LET resolved == ResolveDependencies(s.status)
     IN \E queue \in WaveQueues(resolved, s.retry_count) :
          /\ queue # <<>>
          /\ n = [s EXCEPT
                    !.status = resolved,
                    !.waves = Append(@, [tasks |-> queue, status |-> "pending"]),
                    !.current_wave = Len(s.waves) + 1,
                    !.phase = "running"]

\* No task can be selected: only the resolved statuses are saved.
SkipWave(s, n) ==
  /\ MaySchedule(s)
  /\ LET resolved == ResolveDependencies(s.status)
     IN /\ <<>> \in WaveQueues(resolved, s.retry_count)
        /\ n = [s EXCEPT !.status = resolved]

-----------------------------------------------------------------------------
(* assignWorkers, behind the command dispatch                              *)

Load(active, a) == SumFunction(active[a])

\* Mutant: off by one.
HasRoomForOneMore(active, a) == Load(active, a) <= Policy.max_tasks_per_agent

HasRoom(active, a) == Load(active, a) < Policy.max_tasks_per_agent

\* Every agent entry is made by ensureAgent or markAssignedTaskRunning, with no
\* capabilities and max_tasks_per_agent slots.  Neither makes one offline and no
\* handler does later, so the code's test for it is left out with the field.
CanRun(active, a, t) == t \notin NeedsCapability /\ HasRoom(active, a)

RespectedPreference(t) ==
  IF Policy.respect_preferred_agent THEN {PreferredAgent[t]} \ {None} ELSE {}

\* selectAgent: the preferred agent, else a least loaded agent that can run t,
\* else the fallback agent; {} when it throws.  The agents tied for the least
\* load are all offered: the code takes the one created first.
SelectAgent(t, known, active) ==
  LET preferred == {a \in RespectedPreference(t) : CanRun(active, a, t)}
      capable == {a \in known \cup RespectedPreference(t) : CanRun(active, a, t)}
  IN CASE preferred # {} -> preferred
       [] preferred = {} /\ capable # {} ->
            {a \in capable : \A b \in capable : Load(active, a) <= Load(active, b)}
       [] OTHER -> {a \in {Policy.fallback_agent} : CanRun(active, a, t)}

\* Mutant: an entry is made for a preferred agent without looking whether there is one.
KnownWithNull(s, S, pick) == s.known \cup UNION {{PreferredAgent[t], pick[t]} : t \in S}

\* The pool once the tasks of S have gone to the agents pick names.
KnownAfter(s, S, pick) ==
  s.known \cup UNION {RespectedPreference(t) \cup {pick[t]} : t \in S}
ActiveAfter(s, S, pick) ==
  [a \in Agents |-> [t \in Tasks |->
     s.active[a][t] + (IF t \in S /\ pick[t] = a THEN 1 ELSE 0)]]

\* pick is what the loop over the wave's tasks assigns, one task at a time.
Assignable(s, queue, pick) ==
  \A k \in DOMAIN queue :
    LET before == {queue[j] : j \in 1..(k - 1)}
    IN pick[queue[k]] \in SelectAgent(queue[k], KnownAfter(s, before, pick),
                                      ActiveAfter(s, before, pick))

AssignWorkers(s, n, i) ==
  LET queue == s.waves[i].tasks
      S == TasksIn(queue)
  IN /\ \A t \in S : s.status[t] = "ready"
     /\ \E pick \in [S -> Agents] :
          /\ Assignable(s, queue, pick)
          /\ n = [s EXCEPT
                    !.status = [t \in Tasks |-> IF t \in S THEN "running" ELSE @[t]],
                    !.assigned_to = [t \in Tasks |-> IF t \in S THEN pick[t] ELSE @[t]],
                    !.known = KnownAfter(s, S, pick),
                    !.active = ActiveAfter(s, S, pick),
                    !.waves = [@ EXCEPT ![i].status = "running"],
                    !.current_wave = i,
                    !.phase = "running"]

-----------------------------------------------------------------------------
(* dispatchWorkflowWave, behind workflow-dispatch and POST /workflow-dispatch *)

CanNodeRun(n, t) == t \in NeedsCapability => t \in NodeSkills[n]

\* selectNodeForTask over the registry's active nodes.  No load is looked at.
SelectNode(t, nodes) ==
  LET capable == {n \in nodes : CanNodeRun(n, t)}
      preferred == capable \cap {PreferredAgent[t]}
  IN IF preferred # {} THEN preferred
     ELSE {n \in capable : \A m \in capable : NodeRank[n] <= NodeRank[m]}

\* Mutant: a wave is dispatched as a whole, like assignWorkers does.
DispatchableAtOnce(s, i, nodes) ==
  {t \in TasksIn(s.waves[i].tasks) :
     \A u \in TasksIn(s.waves[i].tasks) : s.status[u] = "ready" /\ SelectNode(u, nodes) # {}}

\* Mutant: a task that is assigned already is not told from a ready one.
DispatchableAgain(s, i, nodes) ==
  {t \in TasksIn(s.waves[i].tasks) :
     s.status[t] \in {"ready", "assigned"} /\ SelectNode(t, nodes) # {}}

\* selectDispatchTargets, without the tasks that are assigned already.
Dispatchable(s, i, nodes) ==
  {t \in TasksIn(s.waves[i].tasks) : s.status[t] = "ready" /\ SelectNode(t, nodes) # {}}

\* Every ready task of the wave that some active node can run is assigned; the
\* others are rejected one by one, and the wave's own status stays as it was.
DispatchWave(s, n, i, nodes) ==
  LET S == Dispatchable(s, i, nodes)
  IN /\ S # {}
     /\ \E node \in [S -> Agents] :
          /\ \A t \in S : node[t] \in SelectNode(t, nodes)
          /\ n = [s EXCEPT
                    !.status = [t \in Tasks |-> IF t \in S THEN "assigned" ELSE @[t]],
                    !.assigned_to = [t \in Tasks |-> IF t \in S THEN node[t] ELSE @[t]]]

-----------------------------------------------------------------------------
(* collectResult, behind submit-result, and intakeAgentResult              *)

\* decideRetry; a report's failure is None when the task completed.
ShouldRetry(s, t, report) ==
  report.failure \in Policy.retry_on /\ s.retry_count[t] < Policy.max_retries

\* Mutant: what completed needs no review.
DoneUnreviewed(s, t, report) ==
  IF report.failure = None THEN "done" ELSE IF ShouldRetry(s, t, report) THEN "ready" ELSE "failed"

StatusAfter(s, t, report) ==
  CASE report.failure = None -> "reviewing"
    [] report.failure # None /\ ShouldRetry(s, t, report) -> "ready"
    [] OTHER -> "failed"

\* Mutant: the slot is taken back from the present owner only.
ReleaseFromOwner(s, t) ==
  [a \in Agents |-> IF a = s.assigned_to[t] THEN [s.active[a] EXCEPT ![t] = 0] ELSE s.active[a]]

\* releaseTaskFromAgent drops the task from every agent's list.
ReleaseTask(s, t) == [a \in Agents |-> [s.active[a] EXCEPT ![t] = 0]]

CollectResult(s, n, t, report) ==
  LET next == StatusAfter(s, t, report)
  IN /\ s.status[t] = "running"
     /\ n = [s EXCEPT
               !.status[t] = next,
               !.assigned_to[t] = IF next = "ready" THEN None ELSE @,
               !.retry_count[t] = IF next = "ready" THEN @ + 1 ELSE @,
               !.changed_files[t] = report.files,
               !.active = ReleaseTask(s, t)]

\* The agent's list becomes a set with the task in it, whatever its limit.
MarkAssignedTaskRunning(s, t) ==
  LET a == s.assigned_to[t]
  IN [s EXCEPT
        !.status[t] = "running",
        !.known = @ \cup {a},
        !.active[a] = [u \in Tasks |-> IF u = t \/ @[u] > 0 THEN 1 ELSE 0]]

\* Only the node a task is assigned to is heard.  Assigned tasks are always part
\* of a wave, so the lookup of the wave never fails.
IntakeResult(s, n, t, from, report) ==
  /\ s.assigned_to[t] = from
  /\ s.status[t] \in {"assigned", "running"}
  /\ CollectResult(IF s.status[t] = "assigned" THEN MarkAssignedTaskRunning(s, t) ELSE s,
                   n, t, report)

-----------------------------------------------------------------------------
(* reviewWave, behind review-wave                                          *)

\* Two entries, of one task's report or of two, name the same file.
ChangedFileConflict(s, S) ==
  \E t, u \in S : \E i \in DOMAIN s.changed_files[t], j \in DOMAIN s.changed_files[u] :
    <<t, i>> # <<u, j>> /\ s.changed_files[t][i] = s.changed_files[u][j]

\* Mutants: a task that waits for a retry is overlooked; a failed one blocks the review.
ReviewableWhenReported(s, i) ==
  \A t \in TasksIn(s.waves[i].tasks) : s.status[t] \notin {"assigned", "running"}
ReviewableWhenCompleted(s, i) ==
  \A t \in TasksIn(s.waves[i].tasks) : s.status[t] = "reviewing"

\* No task of the wave is still on its way.
Reviewable(s, i) ==
  \A t \in TasksIn(s.waves[i].tasks) :
    s.status[t] \notin {"pending", "ready", "assigned", "running"}

\* Mutant: only the changed files are looked at.
ReviewIgnoresFailures(s, i) == ~ChangedFileConflict(s, TasksIn(s.waves[i].tasks))

ReviewPasses(s, i) ==
  LET S == TasksIn(s.waves[i].tasks)
  IN (\A t \in S : s.status[t] # "failed") /\ ~ChangedFileConflict(s, S)

\* The wave may be of any status: a closed wave can be reviewed again.  Its new
\* completed_at and review record, which no handler reads, are left out.
PassReview(s, n, i) ==
  /\ Reviewable(s, i) /\ ReviewPasses(s, i)
  /\ n = [s EXCEPT
            !.status = [t \in Tasks |->
              IF t \in TasksIn(s.waves[i].tasks) /\ @[t] = "reviewing" THEN "done" ELSE @[t]],
            !.waves = [@ EXCEPT ![i].status = "done"],
            !.current_wave = 0]

FailReview(s, n, i) ==
  /\ Reviewable(s, i) /\ ~ReviewPasses(s, i)
  /\ n = [s EXCEPT
            !.waves = [@ EXCEPT ![i].status = "failed"],
            !.current_wave = i,
            !.phase = "blocked"]

-----------------------------------------------------------------------------
(* recoverWorkflow, behind recover                                         *)

\* Mutants: a recovery also restarts what failed, or what waits for its review.
RecoverFailed(s, n, live, lost) ==
  n = [s EXCEPT !.status = ResolveDependencies([t \in Tasks |->
         IF @[t] \in {"running", "failed"} /\ t \notin live THEN lost ELSE @[t]])]
RecoverReviewing(s, n, live, lost) ==
  n = [s EXCEPT !.status = ResolveDependencies([t \in Tasks |->
         IF @[t] \in {"running", "reviewing"} /\ t \notin live THEN lost ELSE @[t]])]

\* lost is what running_task_policy makes of a running task whose session is
\* not in live.  Its agent keeps it among its active tasks.
Recover(s, n, live, lost) ==
  n = [s EXCEPT !.status = ResolveDependencies([t \in Tasks |->
         IF @[t] = "running" /\ t \notin live THEN lost ELSE @[t]])]
=============================================================================
