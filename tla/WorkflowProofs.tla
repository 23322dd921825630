---------------------------- MODULE WorkflowProofs ----------------------------
(***************************************************************************)
(* Proofs about Workflow, for every plan, policy, registry and report.     *)
(*                                                                         *)
(* The handlers are relations between records, so the lemmas speak of a    *)
(* record s and its successor n.  They come in three layers: what each     *)
(* handler does to the fields the invariant reads (the Effect lemmas);     *)
(* that statuses moving by legal moves keep a record Sound, and so does    *)
(* each change to the waves; and, put together, that every handler leads   *)
(* from a Sound record to a Sound one by a Lawful step.  The theorems      *)
(* that follow lift this to wf.                                            *)
(*                                                                         *)
(* Then it is about what memory extract makes of the workflow: once        *)
(* extracted it stays true, because a passed review closes a wave for      *)
(* good, a done task is never touched again, no wave is ever dropped, and  *)
(* once every task is done no wave is added either.  Last come the limits  *)
(* of the policy: one on the tasks under way is tested once, when a wave   *)
(* is selected, and the tasks of a wave never change; the slots of the     *)
(* worker pool follow the tasks, and the load of an agent, a sum over      *)
(* them, grows only where an assignment has looked at it.                  *)
(***************************************************************************)
EXTENDS Memory, SumLemmas

WaveType == [tasks : Seq(Tasks), status : WaveStatus]

-----------------------------------------------------------------------------
(* Sequences and waves                                                     *)

\* Changing the status of one wave changes nothing else of any wave.
LEMMA SetWaveStatus ==
  ASSUME NEW ws \in Seq(WaveType), NEW i \in DOMAIN ws, NEW v \in WaveStatus
  PROVE  LET us == [ws EXCEPT ![i].status = v]
         IN /\ us \in Seq(WaveType)
            /\ Len(us) = Len(ws) /\ DOMAIN us = DOMAIN ws
            /\ us[i] = [ws[i] EXCEPT !.status = v]
            /\ us[i].status = v /\ us[i].tasks = ws[i].tasks
            /\ \A j \in DOMAIN ws : j # i => us[j] = ws[j]
<1> DEFINE us == [ws EXCEPT ![i].status = v]
<1>1. DOMAIN ws = 1..Len(ws) /\ Len(ws) \in Nat /\ \A j \in DOMAIN ws : ws[j] \in WaveType
  OBVIOUS
<1>2. DOMAIN us = 1..Len(ws)
  BY <1>1
<1>3. us[i] = [ws[i] EXCEPT !.status = v]
  BY <1>1
<1>4. us[i] \in WaveType /\ us[i].status = v /\ us[i].tasks = ws[i].tasks
  BY <1>1, <1>3 DEF WaveType
<1>5. \A j \in DOMAIN ws : j # i => us[j] = ws[j]
  BY <1>1
<1>6. us \in [1..Len(ws) -> WaveType]
  BY <1>1, <1>2, <1>4, <1>5
<1>7. us \in Seq(WaveType) /\ Len(us) = Len(ws)
  BY <1>1, <1>6
<1> QED BY <1>1, <1>2, <1>3, <1>4, <1>5, <1>7

LEMMA WaveTypes ==
  ASSUME NEW s \in StateType
  PROVE  /\ s.waves \in Seq(WaveType)
         /\ Len(s.waves) \in Nat /\ DOMAIN s.waves = 1..Len(s.waves)
         /\ \A i \in DOMAIN s.waves : /\ s.waves[i].tasks \in Seq(Tasks)
                                      /\ s.waves[i].status \in WaveStatus
                                      /\ TasksIn(s.waves[i].tasks) \subseteq Tasks
<1>1. s.waves \in Seq(WaveType)
  BY DEF StateType, WaveType
<1>2. Len(s.waves) \in Nat /\ DOMAIN s.waves = 1..Len(s.waves)
  BY <1>1
<1>3. ASSUME NEW i \in DOMAIN s.waves
      PROVE  s.waves[i].tasks \in Seq(Tasks) /\ s.waves[i].status \in WaveStatus
  <2>1. s.waves[i] \in WaveType
    BY <1>1
  <2> QED BY <2>1 DEF WaveType
<1>4. ASSUME NEW i \in DOMAIN s.waves
      PROVE  TasksIn(s.waves[i].tasks) \subseteq Tasks
  BY <1>3 DEF TasksIn
<1> QED BY <1>1, <1>2, <1>3, <1>4

LEMMA QueueType ==
  ASSUME NEW st, NEW retries, NEW queue \in WaveQueues(st, retries)
  PROVE  queue \in Seq(Tasks) /\ TasksIn(queue) \subseteq Ready(st)
<1>1. PICK m \in 0..Cardinality(Ready(st)) : queue \in [1..m -> Ready(st)]
  BY DEF WaveQueues
<1>2. m \in Nat
  BY <1>1
<1>3. queue \in [1..m -> Tasks]
  BY <1>1 DEF Ready
<1> QED BY <1>1, <1>2, <1>3 DEF TasksIn

-----------------------------------------------------------------------------
(* What the handlers do to the fields                                      *)

\* Fields no step of the scheduler touches.
SameWork(s, n) ==
  n.changed_files = s.changed_files /\ n.assigned_to = s.assigned_to

LEMMA InitialStateType == InitialState \in StateType
BY DEF InitialState, StateType, TaskStatus, WaveStatus, WorkflowStatus

LEMMA ResolveType ==
  ASSUME NEW st \in [Tasks -> TaskStatus]
  PROVE  ResolveDependencies(st) \in [Tasks -> TaskStatus]
BY DEF ResolveDependencies, TaskStatus

LEMMA CompleteEffect ==
  ASSUME NEW s \in StateType, NEW n, CompleteWorkflow(s, n)
  PROVE  /\ n \in StateType
         /\ SameWork(s, n) /\ n.status = s.status /\ n.waves = s.waves
         /\ n.phase = "done" /\ \A t \in Tasks : s.status[t] = "done"
BY DEF CompleteWorkflow, AllDone, StateType, WorkflowStatus, SameWork

LEMMA SkipWaveEffect ==
  ASSUME NEW s \in StateType, NEW n, SkipWave(s, n)
  PROVE  /\ n \in StateType
         /\ SameWork(s, n) /\ n.status = ResolveDependencies(s.status)
         /\ n.waves = s.waves /\ n.phase = s.phase
<1>1. ResolveDependencies(s.status) \in [Tasks -> TaskStatus]
  BY ResolveType DEF StateType
<1>2. n = [s EXCEPT !.status = ResolveDependencies(s.status)]
  BY DEF SkipWave
<1> QED BY <1>1, <1>2 DEF StateType, SameWork

LEMMA StartWaveEffect ==
  ASSUME NEW s \in StateType, NEW n, StartWave(s, n)
  PROVE  /\ n \in StateType
         /\ SameWork(s, n) /\ n.status = ResolveDependencies(s.status)
         /\ n.phase = "running" /\ ~HasOpenWave(s)
         /\ \E queue \in WaveQueues(ResolveDependencies(s.status), s.retry_count) :
              /\ queue # <<>>
              /\ n.waves = Append(s.waves, [tasks |-> queue, status |-> "pending"])
<1> DEFINE resolved == ResolveDependencies(s.status)
<1>1. resolved \in [Tasks -> TaskStatus]
  BY ResolveType DEF StateType
<1>2. PICK queue \in WaveQueues(resolved, s.retry_count) :
        /\ queue # <<>>
        /\ n = [s EXCEPT
                    !.status = resolved,
                    !.waves = Append(@, [tasks |-> queue, status |-> "pending"]),
                    !.current_wave = Len(s.waves) + 1,
                    !.phase = "running"]
  BY DEF StartWave
<1>3. [tasks |-> queue, status |-> "pending"] \in WaveType
  BY <1>2, QueueType DEF WaveType, WaveStatus
<1>4. s.waves \in Seq(WaveType)
  BY WaveTypes
<1>5. Append(s.waves, [tasks |-> queue, status |-> "pending"]) \in Seq(WaveType)
  BY <1>3, <1>4
<1>6. Len(s.waves) + 1 \in Nat
  BY <1>4
<1>7. ~HasOpenWave(s)
  BY DEF StartWave, MaySchedule
<1> HIDE DEF resolved
<1>8. /\ n \in StateType /\ SameWork(s, n)
      /\ n.status = resolved /\ n.phase = "running"
      /\ n.waves = Append(s.waves, [tasks |-> queue, status |-> "pending"])
  BY <1>1, <1>2, <1>5, <1>6 DEF StateType, WaveType, WorkflowStatus, SameWork
<1> QED BY <1>2, <1>7, <1>8 DEF resolved

LEMMA AssignWorkersEffect ==
  ASSUME NEW s \in StateType, NEW n, NEW i \in DOMAIN s.waves, AssignWorkers(s, n, i)
  PROVE  LET S == TasksIn(s.waves[i].tasks)
         IN /\ n \in StateType
            /\ \A t \in S : s.status[t] = "ready"
            /\ n.status = [t \in Tasks |-> IF t \in S THEN "running" ELSE s.status[t]]
            /\ \A t \in Tasks \ S : n.assigned_to[t] = s.assigned_to[t]
            /\ n.changed_files = s.changed_files /\ n.phase = "running"
            /\ n.waves = [s.waves EXCEPT ![i].status = "running"]
<1> DEFINE S == TasksIn(s.waves[i].tasks)
<1> DEFINE status == [t \in Tasks |-> IF t \in S THEN "running" ELSE s.status[t]]
<1> DEFINE assigned(pick) == [t \in Tasks |-> IF t \in S THEN pick[t] ELSE s.assigned_to[t]]
<1> DEFINE waves == [s.waves EXCEPT ![i].status = "running"]
<1>1. PICK pick \in [S -> Agents] :
          n = [s EXCEPT
                    !.status = status,
                    !.assigned_to = assigned(pick),
                    !.known = KnownAfter(s, S, pick),
                    !.active = ActiveAfter(s, S, pick),
                    !.waves = waves,
                    !.current_wave = i,
                    !.phase = "running"]
  BY DEF AssignWorkers
<1>2. S \subseteq Tasks /\ i \in Nat /\ s.waves \in Seq(WaveType)
  BY WaveTypes
<1>3. status \in [Tasks -> TaskStatus]
  BY <1>2 DEF StateType, TaskStatus
<1>4. assigned(pick) \in [Tasks -> Agents \cup {None}]
  BY <1>1, <1>2 DEF StateType
<1>5. KnownAfter(s, S, pick) \in SUBSET Agents
  BY <1>1, <1>2, PlanAssumption DEF KnownAfter, RespectedPreference, StateType
<1>6. ActiveAfter(s, S, pick) \in [Agents -> [Tasks -> Nat]]
  BY <1>1, <1>2 DEF ActiveAfter, StateType
<1>7. waves \in Seq(WaveType)
  BY <1>2, SetWaveStatus DEF WaveStatus
<1>8. \A t \in S : s.status[t] = "ready"
  BY DEF AssignWorkers
<1> HIDE DEF status, assigned, waves, S
<1>9. /\ n \in StateType /\ n.status = status /\ n.assigned_to = assigned(pick)
      /\ n.changed_files = s.changed_files /\ n.phase = "running" /\ n.waves = waves
  BY <1>1, <1>2, <1>3, <1>4, <1>5, <1>6, <1>7 DEF StateType, WaveType, WorkflowStatus
<1> QED BY <1>8, <1>9 DEF status, assigned, waves, S

LEMMA DispatchWaveEffect ==
  ASSUME NEW s \in StateType, NEW n, NEW i \in DOMAIN s.waves, NEW nodes \in SUBSET Agents,
         DispatchWave(s, n, i, nodes)
  PROVE  \E S \in SUBSET TasksIn(s.waves[i].tasks) :
           /\ n \in StateType
           /\ \A t \in S : s.status[t] = "ready"
           /\ n.status = [t \in Tasks |-> IF t \in S THEN "assigned" ELSE s.status[t]]
           /\ \A t \in Tasks \ S : n.assigned_to[t] = s.assigned_to[t]
           /\ n.changed_files = s.changed_files /\ n.phase = s.phase /\ n.waves = s.waves
<1> DEFINE S == {t \in TasksIn(s.waves[i].tasks) :
                   s.status[t] = "ready" /\ SelectNode(t, nodes) # {}}
<1> DEFINE status == [t \in Tasks |-> IF t \in S THEN "assigned" ELSE s.status[t]]
<1> DEFINE assigned(node) == [t \in Tasks |-> IF t \in S THEN node[t] ELSE s.assigned_to[t]]
<1>1. PICK node \in [S -> Agents] :
          n = [s EXCEPT !.status = status, !.assigned_to = assigned(node)]
  BY DEF DispatchWave, Dispatchable
<1>2. S \subseteq Tasks
  BY WaveTypes
<1>3. status \in [Tasks -> TaskStatus]
  BY DEF StateType, TaskStatus
<1>4. assigned(node) \in [Tasks -> Agents \cup {None}]
  BY <1>1, <1>2 DEF StateType
<1>5. S \in SUBSET TasksIn(s.waves[i].tasks) /\ \A t \in S : s.status[t] = "ready"
  OBVIOUS
<1> HIDE DEF status, assigned, S
<1>6. /\ n \in StateType /\ n.status = status /\ n.assigned_to = assigned(node)
      /\ n.changed_files = s.changed_files /\ n.phase = s.phase /\ n.waves = s.waves
  BY <1>1, <1>3, <1>4 DEF StateType
<1> QED BY <1>5, <1>6 DEF status, assigned

\* A report moves its task out of running and touches no other.
LEMMA CollectEffect ==
  ASSUME NEW s \in StateType, NEW n, NEW t \in Tasks, NEW report \in Reports,
         CollectResult(s, n, t, report)
  PROVE  /\ n \in StateType
         /\ s.status[t] = "running" /\ n.status[t] \in {"ready", "reviewing", "failed"}
         /\ \A u \in Tasks \ {t} : /\ n.status[u] = s.status[u]
                                  /\ n.assigned_to[u] = s.assigned_to[u]
                                  /\ n.changed_files[u] = s.changed_files[u]
         /\ n.phase = s.phase /\ n.waves = s.waves
<1> DEFINE next == StatusAfter(s, t, report)
<1> DEFINE owner == IF next = "ready" THEN None ELSE s.assigned_to[t]
<1> DEFINE count == IF next = "ready" THEN s.retry_count[t] + 1 ELSE s.retry_count[t]
<1> DEFINE active == [a \in Agents |-> [s.active[a] EXCEPT ![t] = 0]]
<1>1. /\ s.status[t] = "running"
      /\ n = [s EXCEPT
               !.status[t] = next,
               !.assigned_to[t] = owner,
               !.retry_count[t] = count,
               !.changed_files[t] = report.files,
               !.active = active]
  BY DEF CollectResult, ReleaseTask
<1>2. next \in {"ready", "reviewing", "failed"}
  BY DEF StatusAfter
<1>3. owner \in Agents \cup {None} /\ count \in Nat /\ active \in [Agents -> [Tasks -> Nat]]
  BY DEF StateType
<1>4. report.files \in Seq(Files)
  BY WorkflowAssumption
<1> HIDE DEF next, owner, count, active
<1>5. /\ n.status = [s.status EXCEPT ![t] = next]
      /\ n.assigned_to = [s.assigned_to EXCEPT ![t] = owner]
      /\ n.retry_count = [s.retry_count EXCEPT ![t] = count]
      /\ n.changed_files = [s.changed_files EXCEPT ![t] = report.files]
      /\ n.phase = s.phase /\ n.waves = s.waves
  BY <1>1 DEF StateType
<1>6. /\ [s.status EXCEPT ![t] = next] \in [Tasks -> TaskStatus]
      /\ [s.assigned_to EXCEPT ![t] = owner] \in [Tasks -> Agents \cup {None}]
      /\ [s.retry_count EXCEPT ![t] = count] \in [Tasks -> Nat]
      /\ [s.changed_files EXCEPT ![t] = report.files] \in [Tasks -> Seq(Files)]
  BY <1>2, <1>3, <1>4 DEF StateType, TaskStatus
<1>7. n \in StateType
  BY <1>1, <1>3, <1>6 DEF StateType
<1>8. n.status[t] = next /\ \A u \in Tasks \ {t} : /\ n.status[u] = s.status[u]
                                  /\ n.assigned_to[u] = s.assigned_to[u]
                                  /\ n.changed_files[u] = s.changed_files[u]
  BY <1>5 DEF StateType
<1> QED BY <1>1, <1>2, <1>5, <1>7, <1>8

LEMMA MarkEffect ==
  ASSUME NEW s \in StateType, NEW t \in Tasks, s.assigned_to[t] \in Agents
  PROVE  LET m == MarkAssignedTaskRunning(s, t)
         IN /\ m \in StateType /\ SameWork(s, m)
            /\ m.status = [s.status EXCEPT ![t] = "running"]
            /\ m.phase = s.phase /\ m.waves = s.waves
<1> DEFINE a == s.assigned_to[t]
<1> DEFINE m == MarkAssignedTaskRunning(s, t)
<1> DEFINE slots == [u \in Tasks |-> IF u = t \/ s.active[a][u] > 0 THEN 1 ELSE 0]
<1>1. m = [s EXCEPT !.status[t] = "running", !.known = @ \cup {a}, !.active[a] = slots]
  BY DEF MarkAssignedTaskRunning
<1>2. a \in Agents /\ slots \in [Tasks -> Nat]
  OBVIOUS
<1> HIDE DEF m, slots, a
<1>3. /\ [s.status EXCEPT ![t] = "running"] \in [Tasks -> TaskStatus]
      /\ s.known \cup {a} \in SUBSET Agents
      /\ [s.active EXCEPT ![a] = slots] \in [Agents -> [Tasks -> Nat]]
  BY <1>2 DEF StateType, TaskStatus
<1>4. m \in StateType
  BY <1>1, <1>3 DEF StateType
<1>5. /\ SameWork(s, m) /\ m.status = [s.status EXCEPT ![t] = "running"]
      /\ m.phase = s.phase /\ m.waves = s.waves
  BY <1>1 DEF StateType, SameWork
<1> QED BY <1>4, <1>5 DEF m

LEMMA IntakeEffect ==
  ASSUME NEW s \in StateType, NEW n, NEW t \in Tasks, NEW from \in Agents,
         NEW report \in Reports, IntakeResult(s, n, t, from, report)
  PROVE  /\ n \in StateType
         /\ s.status[t] \in {"assigned", "running"}
         /\ n.status[t] \in {"ready", "reviewing", "failed"}
         /\ \A u \in Tasks \ {t} : /\ n.status[u] = s.status[u]
                                  /\ n.assigned_to[u] = s.assigned_to[u]
                                  /\ n.changed_files[u] = s.changed_files[u]
         /\ n.phase = s.phase /\ n.waves = s.waves
<1> DEFINE m == IF s.status[t] = "assigned" THEN MarkAssignedTaskRunning(s, t) ELSE s
<1>1. /\ s.status[t] \in {"assigned", "running"} /\ s.assigned_to[t] \in Agents
      /\ CollectResult(m, n, t, report)
  BY DEF IntakeResult
<1>2. /\ m \in StateType /\ SameWork(s, m) /\ m.phase = s.phase /\ m.waves = s.waves
      /\ \A u \in Tasks \ {t} : m.status[u] = s.status[u]
  <2>1. CASE s.status[t] = "assigned"
    <3>1. /\ m \in StateType /\ SameWork(s, m) /\ m.phase = s.phase /\ m.waves = s.waves
          /\ m.status = [s.status EXCEPT ![t] = "running"]
      BY <1>1, <2>1, MarkEffect
    <3>2. s.status \in [Tasks -> TaskStatus]
      BY DEF StateType
    <3> HIDE DEF m
    <3> QED BY <3>1, <3>2
  <2>2. CASE s.status[t] # "assigned"
    BY <2>2 DEF SameWork
  <2> QED BY <2>1, <2>2
<1> HIDE DEF m
<1> QED BY <1>1, <1>2, CollectEffect DEF SameWork

LEMMA PassReviewEffect ==
  ASSUME NEW s \in StateType, NEW n, NEW i \in DOMAIN s.waves, PassReview(s, n, i)
  PROVE  LET S == TasksIn(s.waves[i].tasks)
         IN /\ n \in StateType /\ SameWork(s, n)
            /\ Reviewable(s, i) /\ ReviewPasses(s, i)
            /\ n.status = [t \in Tasks |->
                 IF t \in S /\ s.status[t] = "reviewing" THEN "done" ELSE s.status[t]]
            /\ n.phase = s.phase /\ n.waves = [s.waves EXCEPT ![i].status = "done"]
<1> DEFINE S == TasksIn(s.waves[i].tasks)
<1> DEFINE status == [t \in Tasks |->
                 IF t \in S /\ s.status[t] = "reviewing" THEN "done" ELSE s.status[t]]
<1> DEFINE waves == [s.waves EXCEPT ![i].status = "done"]
<1>1. n = [s EXCEPT !.status = status, !.waves = waves, !.current_wave = 0]
  BY DEF PassReview
<1>2. status \in [Tasks -> TaskStatus]
  BY DEF StateType, TaskStatus
<1>3. waves \in Seq(WaveType)
  BY WaveTypes, SetWaveStatus DEF WaveStatus
<1> HIDE DEF status, waves
<1>4. /\ n \in StateType /\ SameWork(s, n) /\ n.status = status /\ n.phase = s.phase
      /\ n.waves = waves
  BY <1>1, <1>2, <1>3 DEF StateType, WaveType, SameWork
<1> QED BY <1>4 DEF status, waves, PassReview

LEMMA FailReviewEffect ==
  ASSUME NEW s \in StateType, NEW n, NEW i \in DOMAIN s.waves, FailReview(s, n, i)
  PROVE  /\ n \in StateType /\ SameWork(s, n)
         /\ Reviewable(s, i) /\ ~ReviewPasses(s, i)
         /\ n.status = s.status
         /\ n.phase = "blocked" /\ n.waves = [s.waves EXCEPT ![i].status = "failed"]
<1> DEFINE waves == [s.waves EXCEPT ![i].status = "failed"]
<1>1. n = [s EXCEPT !.waves = waves, !.current_wave = i, !.phase = "blocked"]
  BY DEF FailReview
<1>2. waves \in Seq(WaveType) /\ i \in Nat
  <2>1. s.waves \in Seq(WaveType) /\ i \in Nat
    BY WaveTypes
  <2> QED BY <2>1, SetWaveStatus DEF WaveStatus
<1> HIDE DEF waves
<1>3. /\ n \in StateType /\ SameWork(s, n) /\ n.status = s.status /\ n.phase = "blocked"
      /\ n.waves = waves
  BY <1>1, <1>2 DEF StateType, WaveType, WorkflowStatus, SameWork
<1> QED BY <1>3 DEF waves, FailReview

\* The statuses from which recovery resolves dependencies.
LostStatus(s, live, lost) ==
  [t \in Tasks |-> IF s.status[t] = "running" /\ t \notin live THEN lost ELSE s.status[t]]

LEMMA RecoverEffect ==
  ASSUME NEW s \in StateType, NEW n, NEW live, NEW lost \in {"failed", "ready"},
         Recover(s, n, live, lost)
  PROVE  /\ n \in StateType /\ SameWork(s, n)
         /\ n.status = ResolveDependencies(LostStatus(s, live, lost))
         /\ n.phase = s.phase /\ n.waves = s.waves
<1> DEFINE resolved == ResolveDependencies(LostStatus(s, live, lost))
<1>1. n = [s EXCEPT !.status = resolved]
  BY DEF Recover, LostStatus
<1>2. LostStatus(s, live, lost) \in [Tasks -> TaskStatus]
  BY DEF LostStatus, StateType, TaskStatus
<1>3. resolved \in [Tasks -> TaskStatus]
  BY <1>2, ResolveType
<1> HIDE DEF resolved
<1>4. n \in StateType /\ SameWork(s, n) /\ n.status = resolved /\ n.phase = s.phase
      /\ n.waves = s.waves
  BY <1>1, <1>3 DEF StateType, SameWork
<1> QED BY <1>4 DEF resolved

-----------------------------------------------------------------------------
(* Statuses                                                                *)

DependenciesKept(st) ==
  \A t \in Tasks : st[t] \notin {"pending", "blocked"} => DependenciesDone(st, t)

\* How one call may change the status of a task, closing reviews aside.
LegalMove(st, stn, t) ==
  \/ stn[t] = st[t]
  \/ st[t] = "pending" /\ stn[t] = "ready" /\ DependenciesDone(st, t)
  \/ st[t] = "pending" /\ stn[t] = "blocked"
  \/ st[t] = "ready" /\ stn[t] \in {"assigned", "running"}
  \/ st[t] \in {"assigned", "running"} /\ stn[t] \in {"ready", "reviewing", "failed"}

\* A task whose dependencies are done is never blocked: the waiting tasks that lack
\* one are closed under blocking, so all that is blocked is among them.
LEMMA NeverBlocksTheDone ==
  ASSUME NEW st, NEW t \in Blocks(st)
  PROVE  ~DependenciesDone(st, t)
<1> DEFINE S == {u \in Waiting(st) : ~DependenciesDone(st, u)}
<1>1. ClosedUnderBlocking(S, st)
  <2>1. SUFFICES ASSUME NEW u \in Waiting(st), NEW v \in DependsOn[u],
                        \/ st[v] \in {"failed", "blocked"}
                        \/ v \in S /\ Position[v] < Position[u]
                 PROVE  u \in S
    BY DEF ClosedUnderBlocking
  <2>2. st[v] # "done"
    BY <2>1 DEF Waiting
  <2> QED BY <2>2 DEF DependenciesDone
<1>2. t \in S
  BY <1>1 DEF Blocks
<1> QED BY <1>2

LEMMA ResolutionMoves ==
  ASSUME NEW st \in [Tasks -> TaskStatus], DependenciesKept(st), NEW t \in Tasks
  PROVE  LET r == ResolveDependencies(st)
         IN \/ r[t] = st[t]
            \/ st[t] = "pending" /\ r[t] = "ready" /\ DependenciesDone(st, t)
            \/ st[t] = "pending" /\ r[t] = "blocked"
<1>1. CASE t \in Blocks(st)
  <2>1. ~DependenciesDone(st, t)
    BY <1>1, NeverBlocksTheDone
  <2>2. st[t] \in {"pending", "blocked"}
    BY <2>1 DEF DependenciesKept
  <2> QED BY <1>1, <2>2 DEF ResolveDependencies
<1>2. CASE t \notin Blocks(st)
  BY <1>2 DEF ResolveDependencies
<1> QED BY <1>1, <1>2

LEMMA RecoveryMoves ==
  ASSUME NEW s \in StateType, DependenciesKept(s.status), NEW live,
         NEW lost \in {"failed", "ready"}, NEW t \in Tasks
  PROVE  LegalMove(s.status, ResolveDependencies(LostStatus(s, live, lost)), t)
<1> DEFINE st == s.status
<1> DEFINE ls == LostStatus(s, live, lost)
<1>1. st \in [Tasks -> TaskStatus]
  BY DEF StateType
<1>2. /\ ls \in [Tasks -> TaskStatus]
      /\ \A u \in Tasks : ls[u] = st[u] \/ (st[u] = "running" /\ ls[u] \in {"failed", "ready"})
  BY <1>1 DEF LostStatus, TaskStatus
<1> HIDE DEF ls, st
<1>3. \A u \in Tasks : DependenciesDone(st, u) <=> DependenciesDone(ls, u)
  BY <1>2, PlanAssumption DEF DependenciesDone
<1>4. DependenciesKept(ls)
  BY <1>2, <1>3 DEF DependenciesKept, st
<1>5. \/ ResolveDependencies(ls)[t] = ls[t]
      \/ ls[t] = "pending" /\ ResolveDependencies(ls)[t] = "ready" /\ DependenciesDone(ls, t)
      \/ ls[t] = "pending" /\ ResolveDependencies(ls)[t] = "blocked"
  BY <1>2, <1>4, ResolutionMoves
<1>6. LegalMove(st, ResolveDependencies(ls), t)
  BY <1>2, <1>3, <1>5 DEF LegalMove
<1> QED BY <1>6 DEF st, ls

\* A review says the same as long as its tasks keep statuses and changed files.
LEMMA SameReview ==
  ASSUME NEW s, NEW n, NEW i, n.waves[i].tasks = s.waves[i].tasks,
         \A t \in TasksIn(s.waves[i].tasks) :
           n.status[t] = s.status[t] /\ n.changed_files[t] = s.changed_files[t]
  PROVE  ReviewPasses(n, i) <=> ReviewPasses(s, i)
<1> DEFINE S == TasksIn(s.waves[i].tasks)
<1>1. ChangedFileConflict(n, S) <=> ChangedFileConflict(s, S)
  BY DEF ChangedFileConflict
<1> QED BY <1>1 DEF ReviewPasses

\* Legal moves that leave the waves alone keep the record sound.
LEMMA MovesKeepSound ==
  ASSUME NEW s, NEW n, Sound(s), n \in StateType, n.waves = s.waves,
         \A t \in Tasks : LegalMove(s.status, n.status, t),
         \A t \in Tasks : s.status[t] = "ready" /\ n.status[t] # "ready" =>
           \E i \in DOMAIN s.waves : t \in TasksIn(s.waves[i].tasks),
         \A t \in Tasks : s.status[t] \notin {"assigned", "running"} =>
           n.changed_files[t] = s.changed_files[t],
         n.phase = "done" => s.phase = "done" \/ \A t \in Tasks : s.status[t] = "done"
  PROVE  Sound(n)
<1>1. \A t \in Tasks : s.status[t] = "done" => n.status[t] = "done"
  BY DEF LegalMove
<1>2. \A t \in Tasks : DependenciesDone(s.status, t) => DependenciesDone(n.status, t)
  BY <1>1, PlanAssumption DEF DependenciesDone
<1>3. DependenciesKept(n.status)
  BY <1>2 DEF Sound, DependenciesKept, LegalMove
<1>4. ASSUME NEW i \in DOMAIN s.waves
      PROVE  WaveStands(n, i)
  <2> DEFINE S == TasksIn(s.waves[i].tasks)
  <2>1. WaveStands(s, i) /\ S \subseteq Tasks
    BY WaveTypes DEF Sound
  <2>2. \A t \in S : s.status[t] \in {"ready", "assigned", "running", "reviewing", "failed"}
            => n.status[t] \in {"ready", "assigned", "running", "reviewing", "failed"}
    BY <2>1 DEF LegalMove
  <2>3. \A t \in S : s.status[t] \in {"done", "reviewing", "failed"} =>
            n.status[t] = s.status[t] /\ n.changed_files[t] = s.changed_files[t]
    BY <2>1 DEF LegalMove
  <2>4. s.waves[i].status \in {"done", "failed"} => (ReviewPasses(n, i) <=> ReviewPasses(s, i))
    BY <2>1, <2>3, SameReview DEF WaveStands
  <2> QED BY <2>1, <2>2, <2>3, <2>4 DEF WaveStands
<1>5. \A t \in Tasks : n.status[t] \in {"assigned", "running"} =>
        \E i \in DOMAIN n.waves : t \in TasksIn(n.waves[i].tasks)
  BY DEF Sound, LegalMove
<1> QED BY <1>1, <1>3, <1>4, <1>5 DEF Sound, DependenciesKept

-----------------------------------------------------------------------------
(* Waves                                                                   *)

LEMMA ConflictSymmetric ==
  ASSUME NEW t, NEW u
  PROVE  Conflict(t, u) <=> Conflict(u, t)
<1>1. \A f, g : PathsOverlap(f, g) <=> PathsOverlap(g, f)
  BY DEF PathsOverlap
<1> QED BY <1>1 DEF Conflict

\* The tasks of a selected wave are pairwise compatible: the later one was admitted
\* to a set that holds the earlier one.
LEMMA QueueCompatible ==
  ASSUME NEW st, NEW retries, NEW queue \in WaveQueues(st, retries),
         NEW k \in DOMAIN queue, NEW l \in DOMAIN queue, k < l
  PROVE  Compatible(queue[k], queue[l])
<1> DEFINE t == queue[k]
<1> DEFINE u == queue[l]
<1> DEFINE ahead == {v \in TasksIn(queue) : Precedes(v, u, retries)}
<1>1. Precedes(t, u, retries) /\ IsSelection(TasksIn(queue), st, retries)
  BY DEF WaveQueues
<1>2. t \in TasksIn(queue) /\ u \in TasksIn(queue) /\ u \in Ready(st)
  BY QueueType DEF TasksIn
<1>3. Admits(u, ahead) /\ t \in ahead
  BY <1>1, <1>2 DEF IsSelection
<1>4. ~Conflict(u, t) /\ u \notin NonParallel /\ t \notin NonParallel
  BY <1>3 DEF Admits
<1>5. t # u
  BY <1>1, <1>2, PlanAssumption DEF Precedes, Ready
<1> QED BY <1>4, <1>5, ConflictSymmetric DEF Compatible

LEMMA ClosedWaveTasks ==
  ASSUME NEW s, Sound(s), NEW i \in DOMAIN s.waves, ~IsOpen(s.waves[i])
  PROVE  /\ s.waves[i].status \in {"done", "failed"}
         /\ \A t \in TasksIn(s.waves[i].tasks) : s.status[t] \in {"done", "reviewing", "failed"}
<1>1. s.waves[i].status \in {"done", "failed"}
  BY WaveTypes DEF Sound, WaveStands, IsOpen, WaveStatus
<1> QED BY <1>1 DEF Sound, WaveStands

\* A wave whose tasks are all ready is open, for it has a task at all.
LEMMA ReadyWaveOpen ==
  ASSUME NEW s, Sound(s), NEW i \in DOMAIN s.waves,
         \A t \in TasksIn(s.waves[i].tasks) : s.status[t] = "ready"
  PROVE  IsOpen(s.waves[i])
<1>1. s.waves[i].tasks \in Seq(Tasks) /\ s.waves[i].tasks # <<>>
  BY WaveTypes DEF Sound, WaveStands
<1>2. 1 \in DOMAIN s.waves[i].tasks
  BY <1>1
<1>3. s.waves[i].tasks[1] \in TasksIn(s.waves[i].tasks)
  BY <1>2 DEF TasksIn
<1> QED BY <1>3, ClosedWaveTasks

\* Appending a wave of ready, pairwise compatible tasks when none is open.
LEMMA AppendKeepsSound ==
  ASSUME NEW m, NEW n, NEW queue \in Seq(Tasks), Sound(m), n \in StateType, SameWork(m, n),
         ~HasOpenWave(m), n.status = m.status, n.phase = "running",
         queue # <<>>, \A t \in TasksIn(queue) : m.status[t] = "ready",
         \A k, l \in DOMAIN queue : k < l => Compatible(queue[k], queue[l]),
         n.waves = Append(m.waves, [tasks |-> queue, status |-> "pending"])
  PROVE  Sound(n)
<1> DEFINE last == Len(m.waves) + 1
<1> DEFINE wave == [tasks |-> queue, status |-> "pending"]
<1>1. /\ m.waves \in Seq(WaveType) /\ Len(m.waves) \in Nat
      /\ DOMAIN m.waves = 1..Len(m.waves)
  BY WaveTypes DEF Sound
<1>2. /\ Len(n.waves) = last /\ DOMAIN n.waves = DOMAIN m.waves \cup {last}
      /\ last \notin DOMAIN m.waves
      /\ n.waves[last] = wave /\ \A i \in DOMAIN m.waves : n.waves[i] = m.waves[i]
  <2>1. wave \in WaveType /\ n.waves = Append(m.waves, wave)
    BY DEF WaveType, WaveStatus
  <2> HIDE DEF wave
  <2> QED BY <1>1, <2>1
<1>3. WaveStands(n, last)
  <2>1. n.waves[last].tasks = queue /\ n.waves[last].status = "pending"
    BY <1>2
  <2> QED BY <1>2, <2>1 DEF WaveStands, IsOpen
<1>4. ASSUME NEW i \in DOMAIN m.waves
      PROVE  WaveStands(n, i)
  <2>1. n.waves[i] = m.waves[i] /\ WaveStands(m, i) /\ ~IsOpen(m.waves[i])
    BY <1>2 DEF Sound, HasOpenWave
  <2>2. ReviewPasses(n, i) <=> ReviewPasses(m, i)
    BY <2>1, SameReview DEF SameWork
  <2> QED BY <2>1, <2>2 DEF WaveStands
<1>5. ASSUME NEW i \in DOMAIN n.waves, NEW j \in DOMAIN n.waves, NEW t \in Tasks,
             t \in TasksIn(n.waves[i].tasks), t \in TasksIn(n.waves[j].tasks)
      PROVE  i = j
  <2>1. n.waves[last].tasks = queue
    BY <1>2
  <2>2. \A k \in DOMAIN m.waves : t \in TasksIn(m.waves[k].tasks) => m.status[t] # "ready"
    BY ClosedWaveTasks DEF HasOpenWave
  <2>3. \A k \in DOMAIN m.waves : t \in TasksIn(queue) => t \notin TasksIn(m.waves[k].tasks)
    BY <2>2
  <2>4. CASE i \in DOMAIN m.waves /\ j \in DOMAIN m.waves
    BY <1>2, <1>5, <2>4 DEF Sound
  <2>5. CASE i = last \/ j = last
    BY <1>2, <1>5, <2>1, <2>3, <2>5
  <2> QED BY <1>2, <2>4, <2>5
<1>6. \A t \in Tasks : n.status[t] \in {"assigned", "running"} =>
        \E i \in DOMAIN n.waves : t \in TasksIn(n.waves[i].tasks)
  BY <1>2 DEF Sound
<1> QED BY <1>2, <1>3, <1>4, <1>5, <1>6 DEF Sound

\* Two records that differ in the status of wave i, and perhaps in its tasks', agree
\* on every other wave.
LEMMA OtherWavesStand ==
  ASSUME NEW s, NEW n, Sound(s), NEW i \in DOMAIN s.waves, NEW v \in WaveStatus,
         n.waves = [s.waves EXCEPT ![i].status = v], n.changed_files = s.changed_files,
         \A t \in Tasks \ TasksIn(s.waves[i].tasks) : n.status[t] = s.status[t],
         NEW j \in DOMAIN s.waves, j # i
  PROVE  WaveStands(n, j)
<1>1. n.waves[j] = s.waves[j] /\ Len(n.waves) = Len(s.waves)
  BY WaveTypes, SetWaveStatus DEF Sound
<1>2. \A t \in TasksIn(s.waves[j].tasks) : n.status[t] = s.status[t]
  BY WaveTypes DEF Sound
<1>3. ReviewPasses(n, j) <=> ReviewPasses(s, j)
  BY <1>1, <1>2, SameReview
<1>4. WaveStands(s, j)
  BY DEF Sound
<1> QED BY <1>1, <1>2, <1>3, <1>4 DEF WaveStands

-----------------------------------------------------------------------------
(* Every handler takes a lawful step and keeps the record sound            *)

Lawful(s, n) ==
  /\ \A t \in Tasks :
       /\ n.status[t] # s.status[t] => <<s.status[t], n.status[t]>> \in Lifecycle!Moves
       /\ s.status[t] = "pending" /\ n.status[t] = "ready" => DependenciesDone(s.status, t)
       /\ s.status[t] = "done" => /\ n.changed_files[t] = s.changed_files[t]
                                 /\ n.assigned_to[t] = s.assigned_to[t]
  /\ \A i \in DOMAIN s.waves : ~IsOpen(s.waves[i]) => n.waves[i] = s.waves[i]

LEMMA MovesAreLawful ==
  ASSUME NEW s, NEW n,
         \A t \in Tasks : LegalMove(s.status, n.status, t),
         \A t \in Tasks : s.status[t] = "done" => /\ n.changed_files[t] = s.changed_files[t]
                                                /\ n.assigned_to[t] = s.assigned_to[t],
         \A i \in DOMAIN s.waves : ~IsOpen(s.waves[i]) => n.waves[i] = s.waves[i]
  PROVE  Lawful(s, n)
BY DEF Lawful, LegalMove, Lifecycle!Moves

LEMMA CompleteSound ==
  ASSUME NEW s, NEW n, Sound(s), CompleteWorkflow(s, n)
  PROVE  Sound(n) /\ Lawful(s, n)
<1>1. s \in StateType
  BY DEF Sound
<1>2. /\ n \in StateType /\ SameWork(s, n) /\ n.status = s.status /\ n.waves = s.waves
      /\ \A t \in Tasks : s.status[t] = "done"
  BY <1>1, CompleteEffect
<1>3. \A t \in Tasks : LegalMove(s.status, n.status, t)
  BY <1>2 DEF LegalMove
<1> QED BY <1>2, <1>3, MovesKeepSound, MovesAreLawful DEF SameWork

LEMMA SkipWaveSound ==
  ASSUME NEW s, NEW n, Sound(s), SkipWave(s, n)
  PROVE  Sound(n) /\ Lawful(s, n)
<1>1. s \in StateType /\ DependenciesKept(s.status) /\ s.status \in [Tasks -> TaskStatus]
  BY DEF Sound, DependenciesKept, StateType
<1>2. /\ n \in StateType /\ SameWork(s, n) /\ n.status = ResolveDependencies(s.status)
      /\ n.waves = s.waves /\ n.phase = s.phase
  BY <1>1, SkipWaveEffect
<1>3. \A t \in Tasks : LegalMove(s.status, n.status, t)
  BY <1>1, <1>2, ResolutionMoves DEF LegalMove
<1>4. \A t \in Tasks : s.status[t] = "ready" => n.status[t] = "ready"
  BY <1>1, <1>2, ResolutionMoves
<1>5. n.changed_files = s.changed_files /\ n.assigned_to = s.assigned_to
  BY <1>2 DEF SameWork
<1>6. Sound(n)
  BY <1>2, <1>3, <1>4, <1>5, MovesKeepSound
<1>7. Lawful(s, n)
  BY <1>2, <1>3, <1>5, MovesAreLawful
<1> QED BY <1>6, <1>7

LEMMA StartWaveSound ==
  ASSUME NEW s, NEW n, Sound(s), StartWave(s, n)
  PROVE  Sound(n) /\ Lawful(s, n)
<1> DEFINE resolved == ResolveDependencies(s.status)
<1> DEFINE m == [s EXCEPT !.status = resolved]
<1>1. s \in StateType /\ DependenciesKept(s.status) /\ s.status \in [Tasks -> TaskStatus]
  BY DEF Sound, DependenciesKept, StateType
<1>2. PICK queue \in WaveQueues(resolved, s.retry_count) :
        /\ n \in StateType /\ SameWork(s, n) /\ n.status = resolved /\ n.phase = "running"
        /\ ~HasOpenWave(s) /\ queue # <<>>
        /\ n.waves = Append(s.waves, [tasks |-> queue, status |-> "pending"])
  BY <1>1, StartWaveEffect
<1>3. resolved \in [Tasks -> TaskStatus]
  BY <1>1, ResolveType
<1>4. \A t \in Tasks : LegalMove(s.status, resolved, t)
  BY <1>1, ResolutionMoves DEF LegalMove
<1>5. \A t \in TasksIn(queue) : resolved[t] = "ready"
  BY <1>2, QueueType DEF Ready
<1> HIDE DEF resolved
<1>6. /\ m \in StateType /\ SameWork(s, m) /\ m.status = resolved
      /\ m.waves = s.waves /\ m.phase = s.phase
  BY <1>1, <1>3 DEF StateType, SameWork
<1> HIDE DEF m
<1>7. Sound(m)
  <2>1. m.changed_files = s.changed_files
    BY <1>6 DEF SameWork
  <2>2. \A t \in Tasks : s.status[t] = "ready" => m.status[t] = "ready"
    BY <1>1, <1>6, ResolutionMoves DEF resolved
  <2>3. \A t \in Tasks : LegalMove(s.status, m.status, t)
    BY <1>4, <1>6
  <2> QED BY <1>6, <2>1, <2>2, <2>3, MovesKeepSound
<1>8. SameWork(m, n) /\ ~HasOpenWave(m)
  BY <1>2, <1>6 DEF SameWork, HasOpenWave
<1>9. queue \in Seq(Tasks) /\ \A k, l \in DOMAIN queue : k < l => Compatible(queue[k], queue[l])
  BY <1>2, QueueType, QueueCompatible
<1>10. Sound(n)
  BY <1>2, <1>5, <1>6, <1>7, <1>8, <1>9, AppendKeepsSound
<1>11. \A i \in DOMAIN s.waves : n.waves[i] = s.waves[i]
  <2>1. s.waves \in Seq(WaveType) /\ [tasks |-> queue, status |-> "pending"] \in WaveType
    BY <1>1, <1>9, WaveTypes DEF WaveType, WaveStatus
  <2> DEFINE wave == [tasks |-> queue, status |-> "pending"]
  <2>2. n.waves = Append(s.waves, wave) /\ wave \in WaveType
    BY <1>2, <2>1
  <2> HIDE DEF wave
  <2> QED BY <2>1, <2>2
<1>12. n.changed_files = s.changed_files /\ n.assigned_to = s.assigned_to
  BY <1>2 DEF SameWork
<1>13. Lawful(s, n)
  <2>1. \A t \in Tasks : LegalMove(s.status, n.status, t)
    BY <1>2, <1>4
  <2> QED BY <1>11, <1>12, <2>1, MovesAreLawful
<1> QED BY <1>10, <1>13

LEMMA AssignWorkersSound ==
  ASSUME NEW s, NEW n, Sound(s), NEW i \in DOMAIN s.waves, AssignWorkers(s, n, i)
  PROVE  Sound(n) /\ Lawful(s, n)
<1> DEFINE S == TasksIn(s.waves[i].tasks)
<1> DEFINE st == [t \in Tasks |-> IF t \in S THEN "running" ELSE s.status[t]]
<1> DEFINE m == [s EXCEPT !.status = st]
<1>1. s \in StateType /\ s.status \in [Tasks -> TaskStatus] /\ S \subseteq Tasks
  BY WaveTypes DEF Sound, StateType
<1>2. /\ n \in StateType /\ n.status = st /\ \A t \in S : s.status[t] = "ready"
      /\ \A t \in Tasks \ S : n.assigned_to[t] = s.assigned_to[t]
      /\ n.changed_files = s.changed_files /\ n.phase = "running"
      /\ n.waves = [s.waves EXCEPT ![i].status = "running"]
  BY <1>1, AssignWorkersEffect
<1>3. IsOpen(s.waves[i])
  BY <1>2, ReadyWaveOpen
<1>4. \A t \in Tasks : LegalMove(s.status, st, t)
  BY <1>2 DEF LegalMove
<1>5. st \in [Tasks -> TaskStatus]
  BY <1>1 DEF TaskStatus
<1>6. \A t \in Tasks : s.status[t] = "ready" /\ st[t] # "ready" =>
        \E j \in DOMAIN s.waves : t \in TasksIn(s.waves[j].tasks)
  OBVIOUS
<1>7. \A t \in Tasks \ S : st[t] = s.status[t]
  OBVIOUS
<1> HIDE DEF st
<1>8. /\ m \in StateType /\ m.status = st /\ m.changed_files = s.changed_files
      /\ m.waves = s.waves /\ m.phase = s.phase
  BY <1>1, <1>5 DEF StateType
<1> HIDE DEF m
<1>9. Sound(m)
  <2>1. \A t \in Tasks : LegalMove(s.status, m.status, t)
    BY <1>4, <1>8
  <2> QED BY <1>6, <1>8, <2>1, MovesKeepSound
<1>10. /\ DOMAIN n.waves = DOMAIN s.waves /\ Len(n.waves) = Len(s.waves)
       /\ n.waves[i].status = "running"
       /\ \A j \in DOMAIN s.waves : n.waves[j].tasks = s.waves[j].tasks
       /\ \A j \in DOMAIN s.waves : j # i => n.waves[j] = s.waves[j]
  <2>1. s.waves \in Seq(WaveType)
    BY <1>1, WaveTypes
  <2> QED BY <1>2, <2>1, SetWaveStatus DEF WaveStatus
<1>11. WaveStands(n, i)
  BY <1>2, <1>3, <1>8, <1>9, <1>10 DEF Sound, WaveStands, IsOpen
<1>12. ASSUME NEW j \in DOMAIN s.waves, j # i
       PROVE  WaveStands(n, j)
  <2>1. "running" \in WaveStatus
    BY DEF WaveStatus
  <2>2. \A t \in Tasks \ TasksIn(s.waves[i].tasks) : n.status[t] = s.status[t]
    BY <1>2, <1>7
  <2> HIDE DEF S
  <2> QED BY <1>2, <1>12, <2>1, <2>2, OtherWavesStand
<1>13. Sound(n)
  BY <1>2, <1>8, <1>9, <1>10, <1>11, <1>12 DEF Sound
<1>14. Lawful(s, n)
  <2>1. \A t \in Tasks : LegalMove(s.status, n.status, t)
    BY <1>2, <1>4
  <2>2. \A t \in Tasks : s.status[t] = "done" => /\ n.changed_files[t] = s.changed_files[t]
                                                /\ n.assigned_to[t] = s.assigned_to[t]
    BY <1>2
  <2>3. \A j \in DOMAIN s.waves : ~IsOpen(s.waves[j]) => n.waves[j] = s.waves[j]
    BY <1>3, <1>10
  <2> QED BY <2>1, <2>2, <2>3, MovesAreLawful
<1> QED BY <1>13, <1>14

LEMMA DispatchWaveSound ==
  ASSUME NEW s, NEW n, Sound(s), NEW i \in DOMAIN s.waves, NEW nodes \in SUBSET Agents,
         DispatchWave(s, n, i, nodes)
  PROVE  Sound(n) /\ Lawful(s, n)
<1>1. s \in StateType
  BY DEF Sound
<1>2. PICK S \in SUBSET TasksIn(s.waves[i].tasks) :
        /\ n \in StateType
        /\ \A t \in S : s.status[t] = "ready"
        /\ n.status = [t \in Tasks |-> IF t \in S THEN "assigned" ELSE s.status[t]]
        /\ \A t \in Tasks \ S : n.assigned_to[t] = s.assigned_to[t]
        /\ n.changed_files = s.changed_files /\ n.phase = s.phase /\ n.waves = s.waves
  BY <1>1, DispatchWaveEffect
<1>3. \A t \in Tasks : LegalMove(s.status, n.status, t)
  BY <1>2 DEF LegalMove
<1>4. \A t \in Tasks : s.status[t] = "ready" /\ n.status[t] # "ready" =>
        \E j \in DOMAIN s.waves : t \in TasksIn(s.waves[j].tasks)
  BY <1>2
<1>5. Sound(n)
  BY <1>2, <1>3, <1>4, MovesKeepSound
<1>6. \A t \in Tasks : s.status[t] = "done" => /\ n.changed_files[t] = s.changed_files[t]
                                              /\ n.assigned_to[t] = s.assigned_to[t]
  BY <1>2
<1>7. \A j \in DOMAIN s.waves : ~IsOpen(s.waves[j]) => n.waves[j] = s.waves[j]
  BY <1>2
<1>8. Lawful(s, n)
  BY <1>3, <1>6, <1>7, MovesAreLawful
<1> QED BY <1>5, <1>8

\* Both ways to hand in a report end one task that is under way.
LEMMA ReportSound ==
  ASSUME NEW s, NEW n, Sound(s), n \in StateType, NEW t \in Tasks,
         s.status[t] \in {"assigned", "running"},
         n.status[t] \in {"ready", "reviewing", "failed"},
         \A u \in Tasks \ {t} : /\ n.status[u] = s.status[u]
                              /\ n.assigned_to[u] = s.assigned_to[u]
                              /\ n.changed_files[u] = s.changed_files[u],
         n.phase = s.phase, n.waves = s.waves
  PROVE  Sound(n) /\ Lawful(s, n)
<1>1. \A u \in Tasks : LegalMove(s.status, n.status, u)
  BY DEF LegalMove
<1>2. \A u \in Tasks : s.status[u] = "ready" => n.status[u] = "ready"
  OBVIOUS
<1>3. \A u \in Tasks : s.status[u] \notin {"assigned", "running"} =>
        n.changed_files[u] = s.changed_files[u] /\ n.assigned_to[u] = s.assigned_to[u]
  OBVIOUS
<1>4. Sound(n)
  BY <1>1, <1>2, <1>3, MovesKeepSound
<1>5. \A u \in Tasks : s.status[u] = "done" => /\ n.changed_files[u] = s.changed_files[u]
                                              /\ n.assigned_to[u] = s.assigned_to[u]
  BY <1>3
<1>6. Lawful(s, n)
  BY <1>1, <1>5, MovesAreLawful
<1> QED BY <1>4, <1>6

LEMMA CollectSound ==
  ASSUME NEW s, NEW n, Sound(s), NEW t \in Tasks, NEW report \in Reports,
         CollectResult(s, n, t, report)
  PROVE  Sound(n) /\ Lawful(s, n)
<1>1. s \in StateType
  BY DEF Sound
<1>2. /\ n \in StateType
      /\ s.status[t] = "running" /\ n.status[t] \in {"ready", "reviewing", "failed"}
      /\ n.phase = s.phase /\ n.waves = s.waves
  BY <1>1, CollectEffect
<1>3. \A u \in Tasks \ {t} : /\ n.status[u] = s.status[u]
                           /\ n.assigned_to[u] = s.assigned_to[u]
                           /\ n.changed_files[u] = s.changed_files[u]
  BY <1>1, CollectEffect
<1> QED BY <1>2, <1>3, ReportSound

LEMMA IntakeSound ==
  ASSUME NEW s, NEW n, Sound(s), NEW t \in Tasks, NEW from \in Agents,
         NEW report \in Reports, IntakeResult(s, n, t, from, report)
  PROVE  Sound(n) /\ Lawful(s, n)
<1>1. s \in StateType
  BY DEF Sound
<1>2. /\ n \in StateType /\ s.status[t] \in {"assigned", "running"}
      /\ n.status[t] \in {"ready", "reviewing", "failed"}
      /\ n.phase = s.phase /\ n.waves = s.waves
  BY <1>1, IntakeEffect
<1>3. \A u \in Tasks \ {t} : /\ n.status[u] = s.status[u]
                           /\ n.assigned_to[u] = s.assigned_to[u]
                           /\ n.changed_files[u] = s.changed_files[u]
  BY <1>1, IntakeEffect
<1> QED BY <1>2, <1>3, ReportSound

LEMMA RecoverSound ==
  ASSUME NEW s, NEW n, Sound(s), NEW live, NEW lost \in {"failed", "ready"},
         Recover(s, n, live, lost)
  PROVE  Sound(n) /\ Lawful(s, n)
<1>1. s \in StateType /\ DependenciesKept(s.status)
  BY DEF Sound, DependenciesKept
<1>2. /\ n \in StateType /\ SameWork(s, n) /\ n.phase = s.phase /\ n.waves = s.waves
      /\ n.status = ResolveDependencies(LostStatus(s, live, lost))
  BY <1>1, RecoverEffect
<1>3. \A t \in Tasks : LegalMove(s.status, n.status, t)
  BY <1>1, <1>2, RecoveryMoves
<1>4. \A t \in Tasks : s.status[t] = "ready" => n.status[t] = "ready"
  <2>1. SUFFICES ASSUME NEW t \in Tasks, s.status[t] = "ready"
                 PROVE  n.status[t] = "ready"
    OBVIOUS
  <2>2. DependenciesDone(LostStatus(s, live, lost), t)
    BY <1>1, <2>1, PlanAssumption DEF DependenciesKept, DependenciesDone, LostStatus
  <2>3. t \notin Blocks(LostStatus(s, live, lost))
    BY <2>2, NeverBlocksTheDone
  <2> QED BY <1>2, <2>1, <2>3 DEF ResolveDependencies, LostStatus
<1>5. n.changed_files = s.changed_files /\ n.assigned_to = s.assigned_to
  BY <1>2 DEF SameWork
<1>6. Sound(n)
  BY <1>2, <1>3, <1>4, <1>5, MovesKeepSound
<1>7. Lawful(s, n)
  BY <1>2, <1>3, <1>5, MovesAreLawful
<1> QED BY <1>6, <1>7

LEMMA PassReviewSound ==
  ASSUME NEW s, NEW n, Sound(s), NEW i \in DOMAIN s.waves, PassReview(s, n, i)
  PROVE  Sound(n) /\ Lawful(s, n)
<1> DEFINE S == TasksIn(s.waves[i].tasks)
<1>1. s \in StateType /\ S \subseteq Tasks /\ s.waves \in Seq(WaveType)
      /\ s.waves[i].status \in WaveStatus
  BY WaveTypes DEF Sound
<1>2. /\ n \in StateType /\ SameWork(s, n) /\ n.phase = s.phase
      /\ n.waves = [s.waves EXCEPT ![i].status = "done"]
      /\ n.status = [t \in Tasks |->
           IF t \in S /\ s.status[t] = "reviewing" THEN "done" ELSE s.status[t]]
      /\ Reviewable(s, i) /\ ReviewPasses(s, i)
  BY <1>1, PassReviewEffect
<1>3. n.changed_files = s.changed_files /\ n.assigned_to = s.assigned_to
  BY <1>2 DEF SameWork
<1>4. /\ DOMAIN n.waves = DOMAIN s.waves /\ Len(n.waves) = Len(s.waves)
      /\ n.waves[i] = [s.waves[i] EXCEPT !.status = "done"] /\ n.waves[i].status = "done"
      /\ \A j \in DOMAIN s.waves : n.waves[j].tasks = s.waves[j].tasks
      /\ \A j \in DOMAIN s.waves : j # i => n.waves[j] = s.waves[j]
  <2>1. "done" \in WaveStatus
    BY DEF WaveStatus
  <2> QED BY <1>1, <1>2, <2>1, SetWaveStatus
<1>5. s.waves[i].status # "failed" /\ WaveStands(s, i)
  <2>1. WaveStands(s, i)
    BY DEF Sound
  <2> QED BY <1>2, <2>1 DEF WaveStands
\* Once reviewable and without a failed task, the wave has only reviewing or done tasks.
<1>6. \A t \in S : s.status[t] \in {"reviewing", "done"}
  <2>1. \A t \in S : s.status[t] \in {"ready", "assigned", "running", "reviewing", "failed", "done"}
    BY <1>1, <1>5 DEF WaveStands, IsOpen, WaveStatus
  <2> QED BY <1>2, <2>1 DEF Reviewable, ReviewPasses
<1>7. /\ \A t \in S : n.status[t] = "done"
      /\ \A t \in Tasks \ S : n.status[t] = s.status[t]
      /\ \A t \in Tasks : n.status[t] # s.status[t] =>
           s.status[t] = "reviewing" /\ n.status[t] = "done"
  BY <1>1, <1>2, <1>6
<1>8. WaveStands(n, i)
  <2>1. ReviewPasses(n, i)
    BY <1>2, <1>3, <1>4, <1>7 DEF ReviewPasses, ChangedFileConflict
  <2> QED BY <1>4, <1>5, <1>7, <2>1 DEF WaveStands, IsOpen
<1>9. ASSUME NEW j \in DOMAIN s.waves, j # i
      PROVE  WaveStands(n, j)
  <2>1. "done" \in WaveStatus
    BY DEF WaveStatus
  <2> QED BY <1>2, <1>3, <1>7, <1>9, <2>1, OtherWavesStand
<1>10. \A t \in Tasks : n.status[t] \notin {"pending", "blocked"} => DependenciesDone(n.status, t)
  <2>1. \A t \in Tasks : DependenciesDone(s.status, t) => DependenciesDone(n.status, t)
    BY <1>7, PlanAssumption DEF DependenciesDone
  <2> QED BY <1>7, <2>1 DEF Sound
<1>11. Sound(n)
  BY <1>2, <1>4, <1>7, <1>8, <1>9, <1>10 DEF Sound
<1>12. \A j \in DOMAIN s.waves : ~IsOpen(s.waves[j]) => n.waves[j] = s.waves[j]
  <2>1. ~IsOpen(s.waves[i]) => s.waves[i].status = "done"
    BY <1>1, <1>5 DEF WaveStands, IsOpen, WaveStatus
  <2>2. s.waves[i] \in WaveType
    BY <1>1
  <2>3. s.waves[i].status = "done" => n.waves[i] = s.waves[i]
    BY <1>4, <2>2 DEF WaveType
  <2> QED BY <1>4, <2>1, <2>3
<1>13. Lawful(s, n)
  BY <1>3, <1>7, <1>12 DEF Lawful, Lifecycle!Moves
<1> QED BY <1>11, <1>13

LEMMA FailReviewSound ==
  ASSUME NEW s, NEW n, Sound(s), NEW i \in DOMAIN s.waves, FailReview(s, n, i)
  PROVE  Sound(n) /\ Lawful(s, n)
<1> DEFINE S == TasksIn(s.waves[i].tasks)
<1>1. s \in StateType /\ S \subseteq Tasks /\ s.waves \in Seq(WaveType)
      /\ s.waves[i].status \in WaveStatus
  BY WaveTypes DEF Sound
<1>2. /\ n \in StateType /\ SameWork(s, n) /\ n.status = s.status /\ n.phase = "blocked"
      /\ n.waves = [s.waves EXCEPT ![i].status = "failed"]
      /\ Reviewable(s, i) /\ ~ReviewPasses(s, i)
  BY <1>1, FailReviewEffect
<1>3. n.changed_files = s.changed_files /\ n.assigned_to = s.assigned_to
  BY <1>2 DEF SameWork
<1>4. /\ DOMAIN n.waves = DOMAIN s.waves /\ Len(n.waves) = Len(s.waves)
      /\ n.waves[i] = [s.waves[i] EXCEPT !.status = "failed"] /\ n.waves[i].status = "failed"
      /\ \A j \in DOMAIN s.waves : n.waves[j].tasks = s.waves[j].tasks
      /\ \A j \in DOMAIN s.waves : j # i => n.waves[j] = s.waves[j]
  <2>1. "failed" \in WaveStatus
    BY DEF WaveStatus
  <2> QED BY <1>1, <1>2, <2>1, SetWaveStatus
\* A wave closed as done keeps passing its review, so it is not this one.
<1>5. s.waves[i].status # "done" /\ WaveStands(s, i)
  BY <1>2 DEF Sound, WaveStands
<1>6. \A t \in S : s.status[t] \in {"reviewing", "failed"}
  <2>1. \A t \in S : s.status[t] \in {"ready", "assigned", "running", "reviewing", "failed"}
    BY <1>1, <1>5 DEF WaveStands, IsOpen, WaveStatus
  <2> QED BY <1>2, <2>1 DEF Reviewable
<1>7. WaveStands(n, i)
  <2>1. ~ReviewPasses(n, i)
    BY <1>2, <1>3, <1>4, SameReview
  <2> QED BY <1>2, <1>4, <1>5, <1>6, <2>1 DEF WaveStands, IsOpen
<1>8. ASSUME NEW j \in DOMAIN s.waves, j # i
      PROVE  WaveStands(n, j)
  <2>1. "failed" \in WaveStatus
    BY DEF WaveStatus
  <2> QED BY <1>2, <1>3, <1>8, <2>1, OtherWavesStand
<1>9. Sound(n)
  BY <1>2, <1>4, <1>7, <1>8 DEF Sound
<1>10. \A j \in DOMAIN s.waves : ~IsOpen(s.waves[j]) => n.waves[j] = s.waves[j]
  <2>1. ~IsOpen(s.waves[i]) => s.waves[i].status = "failed"
    BY <1>1, <1>5 DEF WaveStands, IsOpen, WaveStatus
  <2>2. s.waves[i] \in WaveType
    BY <1>1
  <2>3. s.waves[i].status = "failed" => n.waves[i] = s.waves[i]
    BY <1>4, <2>2 DEF WaveType
  <2> QED BY <1>4, <2>1, <2>3
<1>11. \A t \in Tasks : LegalMove(s.status, n.status, t)
  BY <1>2 DEF LegalMove
<1>12. Lawful(s, n)
  BY <1>3, <1>10, <1>11, MovesAreLawful
<1> QED BY <1>9, <1>12

-----------------------------------------------------------------------------
(* The workflow                                                            *)

LEMMA InitSound == ASSUME Init PROVE StatusesAgree
<1>1. wf \in StateType
  BY InitialStateType DEF Init
<1>2. /\ \A t \in Tasks : wf.status[t] = "pending"
      /\ wf.waves = <<>> /\ wf.phase = "pending"
  BY DEF Init, InitialState
<1>3. DOMAIN wf.waves = {}
  BY <1>2
<1> QED BY <1>1, <1>2, <1>3 DEF StatusesAgree, Sound

LEMMA StepSound ==
  ASSUME StatusesAgree, Next
  PROVE  StatusesAgree' /\ Lawful(wf, wf')
<1>1. Sound(wf)
  BY DEF StatusesAgree
<1>2. SUFFICES Sound(wf') /\ Lawful(wf, wf')
  BY DEF StatusesAgree
<1>3. CASE ScheduleNextWave
  BY <1>1, <1>3, StartWaveSound DEF ScheduleNextWave
<1>4. CASE ScheduleNothing
  BY <1>1, <1>4, SkipWaveSound DEF ScheduleNothing
<1>5. CASE ScheduleCompletion
  BY <1>1, <1>5, CompleteSound DEF ScheduleCompletion
<1>6. CASE \E i \in WaveIndexes : Dispatch(i)
  BY <1>1, <1>6, AssignWorkersSound DEF Dispatch, WaveIndexes
<1>7. CASE \E i \in WaveIndexes, nodes \in Registries : WorkflowDispatch(i, nodes)
  BY <1>1, <1>7, DispatchWaveSound, WorkflowAssumption DEF WorkflowDispatch, WaveIndexes
<1>8. CASE \E t \in Tasks, report \in Reports : SubmitResult(t, report)
  BY <1>1, <1>8, CollectSound DEF SubmitResult
<1>9. CASE \E t \in Tasks, from \in Agents, report \in Reports : AgentResult(t, from, report)
  BY <1>1, <1>9, IntakeSound DEF AgentResult
<1>10. CASE \E i \in WaveIndexes : ReviewWavePasses(i)
  BY <1>1, <1>10, PassReviewSound DEF ReviewWavePasses, WaveIndexes
<1>11. CASE \E i \in WaveIndexes : ReviewWaveFails(i)
  BY <1>1, <1>11, FailReviewSound DEF ReviewWaveFails, WaveIndexes
<1>12. CASE \E live \in LiveSessions, lost \in LostStatuses : RecoverWorkflow(live, lost)
  BY <1>1, <1>12, RecoverSound, WorkflowAssumption DEF RecoverWorkflow
<1> QED BY <1>3, <1>4, <1>5, <1>6, <1>7, <1>8, <1>9, <1>10, <1>11, <1>12 DEF Next

\* The statuses of tasks and waves agree after every handler, and closed waves keep
\* the verdict of their review: the inductive invariant behind all that follows.
THEOREM StatusesAlwaysAgree == Spec => []StatusesAgree
<1>1. Init => StatusesAgree
  BY InitSound
<1>2. StatusesAgree /\ [Next]_vars => StatusesAgree'
  <2>1. StatusesAgree /\ Next => StatusesAgree'
    BY StepSound
  <2>2. StatusesAgree /\ UNCHANGED vars => StatusesAgree'
    BY DEF StatusesAgree, vars
  <2> QED BY <2>1, <2>2
<1> QED BY <1>1, <1>2, PTL DEF Spec

\* Every handler leaves a state its TypeScript interfaces allow.
THEOREM TypeCorrect == Spec => []TypeOK
<1>1. StatusesAgree => TypeOK
  BY DEF StatusesAgree, Sound, TypeOK
<1> QED BY <1>1, StatusesAlwaysAgree, PTL

\* No task ever leaves pending or blocked before everything it depends on is done,
\* whatever the plan, the policy and the order of the calls.
THEOREM DependenciesAlwaysHold == Spec => []DependenciesHold
<1>1. StatusesAgree => DependenciesHold
  BY DEF StatusesAgree, Sound, DependenciesHold
<1> QED BY <1>1, StatusesAlwaysAgree, PTL

\* At most one wave is open at any time, and it is the newest.
THEOREM OneOpenWave == Spec => []OnlyNewestWaveOpen
<1>1. StatusesAgree => OnlyNewestWaveOpen
  BY DEF StatusesAgree, Sound, WaveStands, OnlyNewestWaveOpen, WaveIndexes
<1> QED BY <1>1, StatusesAlwaysAgree, PTL

\* A task is scheduled in one wave at most, and listed once there: the scheduler never
\* gives out work it has already given out.
THEOREM NoTaskScheduledTwice == Spec => []EachTaskInOneWave
<1>1. ASSUME StatusesAgree
      PROVE  EachTaskInOneWave
  <2>1. SUFFICES ASSUME NEW i \in DOMAIN wf.waves, NEW j \in DOMAIN wf.waves,
                        NEW k \in DOMAIN wf.waves[i].tasks, NEW l \in DOMAIN wf.waves[j].tasks,
                        wf.waves[i].tasks[k] = wf.waves[j].tasks[l]
                 PROVE  i = j /\ k = l
    BY DEF EachTaskInOneWave, WaveIndexes
  <2>2. Sound(wf) /\ wf \in StateType
    BY <1>1 DEF StatusesAgree, Sound
  <2>3. /\ wf.waves[i].tasks[k] \in TasksIn(wf.waves[i].tasks)
        /\ wf.waves[j].tasks[l] \in TasksIn(wf.waves[j].tasks)
    BY DEF TasksIn
  <2>4. i = j
    BY <2>1, <2>2, <2>3, WaveTypes DEF Sound
  <2>5. wf.waves[i].tasks \in Seq(Tasks)
    BY <2>2, WaveTypes
  <2>6. k \in Nat /\ l \in Nat
    BY <2>4, <2>5
  <2>7. ~(k < l) /\ ~(l < k)
    BY <2>1, <2>2, <2>4 DEF Sound, WaveStands, Compatible
  <2> QED BY <2>4, <2>6, <2>7
<1> QED BY <1>1, StatusesAlwaysAgree, PTL

\* A wave closed as done has only done tasks; one closed as failed keeps its tasks in
\* reviewing or failed.
THEOREM ClosedWavesStaySettled == Spec => []ClosedWavesSettled
<1>1. StatusesAgree => ClosedWavesSettled
  BY DEF StatusesAgree, Sound, WaveStands, ClosedWavesSettled, WaveIndexes
<1> QED BY <1>1, StatusesAlwaysAgree, PTL

\* A workflow reported done has only done tasks and done waves, and stays so.
THEOREM DoneWorkflowIsDone == Spec => []DoneMeansDone
<1>1. ASSUME StatusesAgree
      PROVE  DoneMeansDone
  <2>1. SUFFICES ASSUME wf.phase = "done", NEW i \in DOMAIN wf.waves
                 PROVE  wf.waves[i].status = "done"
    BY <1>1 DEF StatusesAgree, Sound, DoneMeansDone, WaveIndexes
  <2>2. WaveStands(wf, i) /\ \A t \in Tasks : wf.status[t] = "done"
    BY <1>1, <2>1 DEF StatusesAgree, Sound
  <2>3. /\ wf.waves[i].tasks \in Seq(Tasks) /\ wf.waves[i].tasks # <<>>
        /\ wf.waves[i].status \in WaveStatus
    BY <1>1, <2>2, WaveTypes DEF StatusesAgree, Sound, WaveStands
  <2>4. 1 \in DOMAIN wf.waves[i].tasks /\ wf.waves[i].tasks[1] \in Tasks
    BY <2>3
  <2>5. wf.waves[i].tasks[1] \in TasksIn(wf.waves[i].tasks)
    BY <2>4 DEF TasksIn
  <2> QED BY <2>2, <2>3, <2>4, <2>5 DEF WaveStands, IsOpen, WaveStatus
<1> QED BY <1>1, StatusesAlwaysAgree, PTL

\* Work that is finished stays as it is: no later call runs a done task again, changes
\* what it reported, or touches a wave that has been closed.
THEOREM FinishedWorkStaysFinal == Spec => FinishedWorkIsFinal
<1> DEFINE Final == 
     /\ \A t \in Tasks : wf.status[t] = "done" =>
          /\ wf'.status[t] = "done"
          /\ wf'.changed_files[t] = wf.changed_files[t]
          /\ wf'.assigned_to[t] = wf.assigned_to[t]
     /\ \A i \in WaveIndexes : ~IsOpen(wf.waves[i]) => wf'.waves[i] = wf.waves[i]
<1>1. StatusesAgree /\ [Next]_vars => [Final]_vars
  <2>1. ASSUME StatusesAgree, Next
        PROVE  Final
    <3>1. Lawful(wf, wf')
      BY <2>1, StepSound
    <3> QED BY <3>1 DEF Lawful, Lifecycle!Moves, WaveIndexes
  <2> QED BY <2>1
<1> QED BY <1>1, StatusesAlwaysAgree, PTL DEF Spec, FinishedWorkIsFinal

-----------------------------------------------------------------------------
(* Refinement                                                              *)

\* Tasks under way sit in one wave, the open one, and are pairwise compatible.
LEMMA SoundIsExclusive ==
  ASSUME NEW s, Sound(s)
  PROVE  Lifecycle!Exclusive(s.status)
<1>1. SUFFICES ASSUME NEW t \in Tasks, NEW u \in Tasks, t # u,
                      s.status[t] \in {"assigned", "running"},
                      s.status[u] \in {"assigned", "running"}
               PROVE  ~Conflict(t, u) /\ t \notin NonParallel
  BY DEF Lifecycle!Exclusive, Lifecycle!InFlight, Lifecycle!Conflict,
         Lifecycle!PathsOverlap, Conflict, PathsOverlap
<1>2. PICK i \in DOMAIN s.waves : t \in TasksIn(s.waves[i].tasks)
  BY <1>1 DEF Sound
<1>3. PICK j \in DOMAIN s.waves : u \in TasksIn(s.waves[j].tasks)
  BY <1>1 DEF Sound
<1>4. IsOpen(s.waves[i]) /\ IsOpen(s.waves[j])
  BY <1>1, <1>2, <1>3, ClosedWaveTasks
<1>5. i = j
  BY <1>4 DEF Sound, WaveStands
<1>6. PICK k \in DOMAIN s.waves[i].tasks : s.waves[i].tasks[k] = t
  BY <1>2 DEF TasksIn
<1>7. PICK l \in DOMAIN s.waves[i].tasks : s.waves[i].tasks[l] = u
  BY <1>3, <1>5 DEF TasksIn
<1>8. k \in Nat /\ l \in Nat /\ k # l
  BY <1>1, <1>6, <1>7, WaveTypes DEF Sound
<1>9. Compatible(t, u) \/ Compatible(u, t)
  BY <1>6, <1>7, <1>8 DEF Sound, WaveStands
<1> QED BY <1>9, ConflictSymmetric DEF Compatible

\* The workflow implements TaskLifecycle: every handler moves tasks along their
\* lifecycle only, starts none before its dependencies are done, and never has
\* conflicting tasks on their way together.
THEOREM LifecycleImplemented == Spec => ImplementsLifecycle
<1>1. Init => Lifecycle!Init
  BY DEF Init, InitialState, Lifecycle!Init
<1>2. StatusesAgree /\ [Next]_vars => [Lifecycle!Advance]_(wf.status)
  <2>1. ASSUME StatusesAgree, Next
        PROVE  Lifecycle!Advance
    <3>1. Sound(wf') /\ Lawful(wf, wf')
      BY <2>1, StepSound DEF StatusesAgree
    <3>2. wf'.status \in [Tasks -> TaskStatus]
      BY <3>1 DEF Sound, StateType
    <3>3. Lifecycle!Exclusive(wf'.status)
      BY <3>1, SoundIsExclusive
    <3>4. /\ \A t \in Tasks : wf'.status[t] # wf.status[t] =>
               <<wf.status[t], wf'.status[t]>> \in Lifecycle!Moves
          /\ \A t \in Tasks : wf.status[t] = "pending" /\ wf'.status[t] = "ready" =>
               DependenciesDone(wf.status, t)
      BY <3>1 DEF Lawful
    <3> QED BY <3>2, <3>3, <3>4
            DEF Lifecycle!Advance, Lifecycle!TaskStatus, TaskStatus,
                Lifecycle!DependenciesDone, DependenciesDone
  <2>2. UNCHANGED vars => UNCHANGED wf.status
    BY DEF vars
  <2> QED BY <2>1, <2>2
<1> QED BY <1>1, <1>2, StatusesAlwaysAgree, PTL DEF Spec, ImplementsLifecycle, Lifecycle!Spec

-----------------------------------------------------------------------------
(* What was extracted once stays true                                      *)

\* How a handler may change the number of waves.
WavesGrow(s, n) ==
  /\ DOMAIN s.waves \subseteq DOMAIN n.waves
  /\ AllDone(s) => Len(n.waves) = Len(s.waves)

LEMMA SameWavesGrow ==
  ASSUME NEW s, NEW n, n.waves = s.waves
  PROVE  WavesGrow(s, n)
BY DEF WavesGrow

LEMMA OneWaveSetGrows ==
  ASSUME NEW s \in StateType, NEW n, NEW i \in DOMAIN s.waves, NEW v \in WaveStatus,
         n.waves = [s.waves EXCEPT ![i].status = v]
  PROVE  WavesGrow(s, n)
<1>1. s.waves \in Seq(WaveType)
  BY WaveTypes
<1>2. LET us == [s.waves EXCEPT ![i].status = v]
      IN Len(us) = Len(s.waves) /\ DOMAIN us = DOMAIN s.waves
  BY <1>1, SetWaveStatus
<1> QED BY <1>2 DEF WavesGrow

LEMMA AppendedWaveGrows ==
  ASSUME NEW s \in StateType, NEW n, StartWave(s, n)
  PROVE  WavesGrow(s, n)
<1>1. PICK queue \in WaveQueues(ResolveDependencies(s.status), s.retry_count) :
        n.waves = Append(s.waves, [tasks |-> queue, status |-> "pending"])
  BY StartWaveEffect
<1>2. s.waves \in Seq(WaveType)
  BY WaveTypes
<1>3. DOMAIN s.waves \subseteq DOMAIN n.waves
  BY <1>1, <1>2
<1>4. ~AllDone(s)
  BY DEF StartWave, MaySchedule
<1> QED BY <1>3, <1>4 DEF WavesGrow

LEMMA PassedWaveGrows ==
  ASSUME NEW s \in StateType, NEW n, NEW i \in DOMAIN s.waves, PassReview(s, n, i)
  PROVE  WavesGrow(s, n)
<1> DEFINE S == TasksIn(s.waves[i].tasks)
<1>1. /\ n \in StateType /\ SameWork(s, n) /\ n.phase = s.phase
      /\ n.waves = [s.waves EXCEPT ![i].status = "done"]
      /\ n.status = [t \in Tasks |->
           IF t \in S /\ s.status[t] = "reviewing" THEN "done" ELSE s.status[t]]
      /\ Reviewable(s, i) /\ ReviewPasses(s, i)
  BY PassReviewEffect
<1>2. "done" \in WaveStatus
  BY DEF WaveStatus
<1> QED BY <1>1, <1>2, OneWaveSetGrows

LEMMA StepWavesGrow ==
  ASSUME StatusesAgree, Next
  PROVE  WavesGrow(wf, wf')
<1>1. wf \in StateType
  BY DEF StatusesAgree, Sound
<1>2. CASE ScheduleNextWave
  BY <1>1, <1>2, AppendedWaveGrows DEF ScheduleNextWave
<1>3. CASE ScheduleNothing
  BY <1>1, <1>3, SkipWaveEffect, SameWavesGrow DEF ScheduleNothing
<1>4. CASE ScheduleCompletion
  BY <1>1, <1>4, CompleteEffect, SameWavesGrow DEF ScheduleCompletion
<1>5. ASSUME NEW i \in WaveIndexes, Dispatch(i)
      PROVE  WavesGrow(wf, wf')
  <2> DEFINE S == TasksIn(wf.waves[i].tasks)
  <2>1. /\ wf' \in StateType
        /\ \A t \in S : wf.status[t] = "ready"
        /\ wf'.status = [t \in Tasks |-> IF t \in S THEN "running" ELSE wf.status[t]]
        /\ \A t \in Tasks \ S : wf'.assigned_to[t] = wf.assigned_to[t]
        /\ wf'.changed_files = wf.changed_files /\ wf'.phase = "running"
        /\ wf'.waves = [wf.waves EXCEPT ![i].status = "running"]
    BY <1>1, <1>5, AssignWorkersEffect DEF Dispatch, WaveIndexes
  <2>2. "running" \in WaveStatus /\ i \in DOMAIN wf.waves
    BY DEF WaveStatus, WaveIndexes
  <2> QED BY <1>1, <2>1, <2>2, OneWaveSetGrows
<1>6. ASSUME NEW i \in WaveIndexes, NEW nodes \in Registries, WorkflowDispatch(i, nodes)
      PROVE  WavesGrow(wf, wf')
  <2>1. i \in DOMAIN wf.waves /\ nodes \in SUBSET Agents /\ DispatchWave(wf, wf', i, nodes)
    BY <1>6, WorkflowAssumption DEF WorkflowDispatch, WaveIndexes
  <2>2. \E S \in SUBSET TasksIn(wf.waves[i].tasks) :
          /\ wf' \in StateType
          /\ \A t \in S : wf.status[t] = "ready"
          /\ wf'.status = [t \in Tasks |-> IF t \in S THEN "assigned" ELSE wf.status[t]]
          /\ \A t \in Tasks \ S : wf'.assigned_to[t] = wf.assigned_to[t]
          /\ wf'.changed_files = wf.changed_files /\ wf'.phase = wf.phase
          /\ wf'.waves = wf.waves
    BY <1>1, <2>1, DispatchWaveEffect, Zenon
  <2>3. wf'.waves = wf.waves
    BY <2>2
  <2> QED BY <2>3, SameWavesGrow
<1>7. ASSUME NEW t \in Tasks, NEW report \in Reports, SubmitResult(t, report)
      PROVE  WavesGrow(wf, wf')
  <2>1. wf'.waves = wf.waves
    BY <1>1, <1>7, CollectEffect DEF SubmitResult
  <2> QED BY <2>1, SameWavesGrow
<1>8. ASSUME NEW t \in Tasks, NEW from \in Agents, NEW report \in Reports,
             AgentResult(t, from, report)
      PROVE  WavesGrow(wf, wf')
  <2>1. wf'.waves = wf.waves
    BY <1>1, <1>8, IntakeEffect DEF AgentResult
  <2> QED BY <2>1, SameWavesGrow
<1>9. ASSUME NEW i \in WaveIndexes, ReviewWavePasses(i)
      PROVE  WavesGrow(wf, wf')
  <2>1. i \in DOMAIN wf.waves /\ PassReview(wf, wf', i)
    BY <1>9 DEF ReviewWavePasses, WaveIndexes
  <2> QED BY <1>1, <2>1, PassedWaveGrows
<1>10. ASSUME NEW i \in WaveIndexes, ReviewWaveFails(i)
       PROVE  WavesGrow(wf, wf')
  <2>1. wf'.waves = [wf.waves EXCEPT ![i].status = "failed"]
    BY <1>1, <1>10, FailReviewEffect DEF ReviewWaveFails, WaveIndexes
  <2>2. "failed" \in WaveStatus /\ i \in DOMAIN wf.waves
    BY DEF WaveStatus, WaveIndexes
  <2> QED BY <1>1, <2>1, <2>2, OneWaveSetGrows
<1>11. ASSUME NEW live \in LiveSessions, NEW lost \in LostStatuses, RecoverWorkflow(live, lost)
       PROVE  WavesGrow(wf, wf')
  <2>1. lost \in {"failed", "ready"}
    BY WorkflowAssumption
  <2>2. wf'.waves = wf.waves
    BY <1>1, <1>11, <2>1, RecoverEffect DEF RecoverWorkflow
  <2> QED BY <2>2, SameWavesGrow
<1> QED BY <1>2, <1>3, <1>4, <1>5, <1>6, <1>7, <1>8, <1>9, <1>10, <1>11 DEF Next

\* Once all tasks are done, every wave is closed.
LEMMA AllDoneAllClosed ==
  ASSUME NEW s, Sound(s), AllDone(s), NEW i \in DOMAIN s.waves
  PROVE  ~IsOpen(s.waves[i])
<1>1. WaveStands(s, i) /\ s.waves[i].tasks \in Seq(Tasks)
  BY WaveTypes DEF Sound
<1>2. 1 \in DOMAIN s.waves[i].tasks /\ s.waves[i].tasks[1] \in Tasks
  BY <1>1 DEF WaveStands
<1>3. s.waves[i].tasks[1] \in TasksIn(s.waves[i].tasks)
  BY <1>2 DEF TasksIn
<1> QED BY <1>1, <1>2, <1>3 DEF WaveStands, AllDone

LEMMA ExecutionStays ==
  ASSUME NEW s, NEW n, Lawful(s, n), WavesGrow(s, n)
  PROVE  ExecutionCandidates(s) \subseteq ExecutionCandidates(n)
<1>1. ASSUME NEW p \in Confirmed(s)
      PROVE  /\ p \in Confirmed(n)
             /\ n.assigned_to[p[2]] = s.assigned_to[p[2]]
             /\ n.changed_files[p[2]] = s.changed_files[p[2]]
  <2>1. /\ p \in (DOMAIN s.waves) \X Tasks /\ s.status[p[2]] = "done"
        /\ PassedReview(s.waves[p[1]]) /\ p[2] \in TasksIn(s.waves[p[1]].tasks)
    BY DEF Confirmed
  <2>2. p[1] \in DOMAIN s.waves /\ p[2] \in Tasks /\ ~IsOpen(s.waves[p[1]])
    BY <2>1 DEF PassedReview, IsOpen
  <2>3. n.waves[p[1]] = s.waves[p[1]] /\ p \in (DOMAIN n.waves) \X Tasks
    BY <2>1, <2>2 DEF Lawful, WavesGrow
  <2>4. n.status[p[2]] = "done"
    BY <2>1, <2>2 DEF Lawful, Lifecycle!Moves
  <2> QED BY <2>1, <2>2, <2>3, <2>4 DEF Lawful, Confirmed
<1> QED BY <1>1 DEF ExecutionCandidates

LEMMA TemplateStays ==
  ASSUME NEW s, NEW n, Sound(s), Lawful(s, n), WavesGrow(s, n)
  PROVE  TemplateCandidates(s) \subseteq TemplateCandidates(n)
<1>1. SUFFICES ASSUME IsSuccessfulWorkflowShape(s)
               PROVE  IsSuccessfulWorkflowShape(n) /\ Len(n.waves) = Len(s.waves)
  BY DEF TemplateCandidates
<1>2. AllDone(s) /\ Len(n.waves) = Len(s.waves)
  BY <1>1 DEF IsSuccessfulWorkflowShape, WavesGrow
<1>3. AllDone(n)
  BY <1>2 DEF AllDone, Lawful, Lifecycle!Moves
<1>4. \A i \in DOMAIN s.waves : n.waves[i] = s.waves[i]
  BY <1>2, AllDoneAllClosed DEF Lawful
<1> QED BY <1>1, <1>2, <1>3, <1>4 DEF IsSuccessfulWorkflowShape, WavesGrow

\* A memory record that was right when it was stored is right for good: the store may
\* drop every later candidate of the same source key.
THEOREM MemoryIsTrueForGood == Spec => MemoryStaysTrue
<1> DEFINE Stays == /\ ExecutionCandidates(wf) \subseteq ExecutionCandidates(wf')
                    /\ TemplateCandidates(wf) \subseteq TemplateCandidates(wf')
<1>1. StatusesAgree /\ [Next]_vars => [Stays]_vars
  <2>1. ASSUME StatusesAgree, Next
        PROVE  Stays
    <3>1. Lawful(wf, wf') /\ WavesGrow(wf, wf') /\ Sound(wf)
      BY <2>1, StepSound, StepWavesGrow DEF StatusesAgree
    <3> QED BY <3>1, ExecutionStays, TemplateStays
  <2> QED BY <2>1
<1> QED BY <1>1, StatusesAlwaysAgree, PTL DEF Spec, MemoryStaysTrue

-----------------------------------------------------------------------------
(* The invariants, of a record                                             *)

HighRisk(S) == {t \in S : IsHighRisk(t)}

WithinLimits(S) ==
  /\ Cardinality(S) <= Policy.max_parallel_tasks
  /\ Cardinality(HighRisk(S)) <= Policy.high_risk_parallel_limit

WavesWithinLimits(s) == \A i \in DOMAIN s.waves : WithinLimits(TasksIn(s.waves[i].tasks))

SlotsFollow(s) ==
  \A a \in Agents, t \in Tasks :
    /\ s.status[t] = "running" /\ s.assigned_to[t] = a => s.active[a][t] > 0
    /\ s.status[t] \in {"pending", "blocked", "reviewing", "done"} => s.active[a][t] = 0

\* What the theorems at the end lift to wf.
Bounded(s) == Sound(s) /\ WavesWithinLimits(s) /\ SlotsFollow(s)

-----------------------------------------------------------------------------
(* A selected wave is within the limits                                    *)

LEMMA TaskSets ==
  ASSUME NEW S \in SUBSET Tasks
  PROVE  IsFiniteSet(S) /\ Cardinality(S) \in Nat
BY PlanAssumption, FS_Subset, FS_CardinalityType

\* Who has at most one member more than a set below a limit keeps to the limit.
LEMMA OneMore ==
  ASSUME NEW S \in SUBSET Tasks, NEW A \in SUBSET Tasks, NEW u, NEW limit \in Nat,
         S \subseteq A \cup {u}, Cardinality(A) < limit
  PROVE  Cardinality(S) <= limit
<1>1. IsFiniteSet(A) /\ Cardinality(A) \in Nat /\ Cardinality(S) \in Nat
  BY TaskSets
<1>2. IsFiniteSet(A \cup {u}) /\ Cardinality(A \cup {u}) <= Cardinality(A) + 1
  BY <1>1, FS_AddElement
<1>3. Cardinality(S) <= Cardinality(A \cup {u})
  BY <1>2, FS_Subset
<1>4. Cardinality(A \cup {u}) \in Nat
  BY <1>2, FS_CardinalityType
<1> QED BY <1>1, <1>2, <1>3, <1>4

\* What generateNextWave selects is within the limits: the last task selected, and the
\* last of high risk, were tested against all the others.
LEMMA SelectionWithinLimits ==
  ASSUME NEW st, NEW retries, NEW queue \in WaveQueues(st, retries)
  PROVE  WithinLimits(TasksIn(queue))
<1> DEFINE S == TasksIn(queue)
<1> DEFINE ahead(u) == {v \in S : Precedes(v, u, retries)}
<1>1. /\ queue \in Seq(Tasks) /\ S \subseteq Ready(st) /\ S \subseteq Tasks
      /\ Len(queue) \in Nat /\ DOMAIN queue = 1..Len(queue)
  BY QueueType DEF Ready
<1>2. Policy.max_parallel_tasks \in Nat /\ Policy.high_risk_parallel_limit \in Nat
  BY PlanAssumption DEF PolicyType
<1>3. ASSUME NEW k \in DOMAIN queue
      PROVE  /\ Admits(queue[k], ahead(queue[k]))
             /\ \A j \in DOMAIN queue : j < k => queue[j] \in ahead(queue[k])
  BY <1>1 DEF WaveQueues, IsSelection, TasksIn
<1>4. Cardinality({}) = 0
  BY FS_EmptySet
<1>5. Cardinality(S) <= Policy.max_parallel_tasks
  <2>1. CASE DOMAIN queue = {}
    <3>1. S = {}
      BY <2>1 DEF TasksIn
    <3> QED BY <1>2, <1>4, <3>1
  <2>2. CASE DOMAIN queue # {}
    <3>1. PICK k \in DOMAIN queue : \A j \in DOMAIN queue : j <= k
      BY <1>1, <2>2, LastPosition
    <3>2. S \subseteq ahead(queue[k]) \cup {queue[k]}
      <4>1. ASSUME NEW j \in DOMAIN queue
            PROVE  queue[j] \in ahead(queue[k]) \cup {queue[k]}
        <5>1. j < k \/ j = k
          BY <1>1, <3>1
        <5> QED BY <1>3, <5>1
      <4> QED BY <4>1 DEF TasksIn
    <3>3. Cardinality(ahead(queue[k])) < Policy.max_parallel_tasks
      BY <1>3 DEF Admits
    <3>4. ahead(queue[k]) \in SUBSET Tasks /\ S \in SUBSET Tasks
      BY <1>1
    <3> HIDE DEF S, ahead
    <3> QED BY <1>2, <3>2, <3>3, <3>4, OneMore
  <2> QED BY <2>1, <2>2
<1>6. Cardinality(HighRisk(S)) <= Policy.high_risk_parallel_limit
  <2> DEFINE D == {k \in DOMAIN queue : IsHighRisk(queue[k])}
  <2>1. CASE D = {}
    <3>1. HighRisk(S) = {}
      BY <2>1 DEF TasksIn, HighRisk
    <3> QED BY <1>2, <1>4, <3>1
  <2>2. CASE D # {}
    <3>1. PICK k \in D : \A j \in D : j <= k
      BY <1>1, <2>2, LastPosition
    <3> DEFINE A == {u \in ahead(queue[k]) : IsHighRisk(u)}
    <3>2. HighRisk(S) \subseteq A \cup {queue[k]}
      <4>1. ASSUME NEW j \in D
            PROVE  queue[j] \in A \cup {queue[k]}
        <5>1. j < k \/ j = k
          BY <1>1, <3>1
        <5> QED BY <1>3, <5>1
      <4> QED BY <4>1 DEF TasksIn, HighRisk
    <3>3. Cardinality(A) < Policy.high_risk_parallel_limit
      BY <1>3 DEF Admits
    <3>4. A \in SUBSET Tasks /\ HighRisk(S) \in SUBSET Tasks
      BY <1>1 DEF HighRisk
    <3> HIDE DEF A
    <3> QED BY <1>2, <3>2, <3>3, <3>4, OneMore
  <2> QED BY <2>1, <2>2
<1> QED BY <1>5, <1>6 DEF WithinLimits

-----------------------------------------------------------------------------
(* Every handler keeps the limits and the slots                            *)

Limited(s) == WavesWithinLimits(s) /\ SlotsFollow(s)

LEMMA SameWavesLimits ==
  ASSUME NEW s, NEW n, WavesWithinLimits(s), n.waves = s.waves
  PROVE  WavesWithinLimits(n)
BY DEF WavesWithinLimits

LEMMA WaveStatusLimits ==
  ASSUME NEW s \in StateType, NEW n, WavesWithinLimits(s), NEW i \in DOMAIN s.waves,
         NEW v \in WaveStatus, n.waves = [s.waves EXCEPT ![i].status = v]
  PROVE  WavesWithinLimits(n)
<1>1. /\ DOMAIN n.waves = DOMAIN s.waves
      /\ n.waves[i].tasks = s.waves[i].tasks
      /\ \A j \in DOMAIN s.waves : j # i => n.waves[j] = s.waves[j]
  BY WaveTypes, SetWaveStatus
<1> QED BY <1>1 DEF WavesWithinLimits

\* Slots stay in order when the lists are left alone, no task starts to run, and only a
\* task that had no slot comes to a status that may have none.
LEMMA MovesKeepSlots ==
  ASSUME NEW s, NEW n, SlotsFollow(s), n.active = s.active, n.assigned_to = s.assigned_to,
         \A t \in Tasks :
           \/ n.status[t] = s.status[t]
           \/ n.status[t] \in {"ready", "assigned", "failed"}
           \/ s.status[t] \in {"pending", "blocked", "reviewing", "done"} /\ n.status[t] # "running"
  PROVE  SlotsFollow(n)
BY DEF SlotsFollow

LEMMA CompleteLimited ==
  ASSUME NEW s, NEW n, Bounded(s), CompleteWorkflow(s, n)
  PROVE  Limited(n)
<1>1. n.status = s.status /\ n.waves = s.waves /\ n.assigned_to = s.assigned_to
  BY CompleteEffect DEF Bounded, Sound, SameWork
<1>2. n.active = s.active
  BY DEF CompleteWorkflow, Bounded, Sound, StateType
<1> QED BY <1>1, <1>2, SameWavesLimits, MovesKeepSlots DEF Bounded, Limited

LEMMA SkipWaveLimited ==
  ASSUME NEW s, NEW n, Bounded(s), SkipWave(s, n)
  PROVE  Limited(n)
<1>1. /\ n.status = ResolveDependencies(s.status) /\ n.waves = s.waves
      /\ n.assigned_to = s.assigned_to
  BY SkipWaveEffect DEF Bounded, Sound, SameWork
<1>2. n.active = s.active
  BY DEF SkipWave, Bounded, Sound, StateType
<1>3. s.status \in [Tasks -> TaskStatus] /\ DependenciesKept(s.status)
  BY DEF Bounded, Sound, StateType, DependenciesKept
<1>4. \A t \in Tasks : \/ n.status[t] = s.status[t]
                       \/ s.status[t] = "pending" /\ n.status[t] \in {"ready", "blocked"}
  BY <1>1, <1>3, ResolutionMoves
<1> QED BY <1>1, <1>2, <1>4, SameWavesLimits, MovesKeepSlots DEF Bounded, Limited

LEMMA StartWaveLimited ==
  ASSUME NEW s, NEW n, Bounded(s), StartWave(s, n)
  PROVE  Limited(n)
<1>1. s \in StateType /\ s.status \in [Tasks -> TaskStatus] /\ DependenciesKept(s.status)
  BY DEF Bounded, Sound, StateType, DependenciesKept
<1>2. n.status = ResolveDependencies(s.status) /\ n.assigned_to = s.assigned_to
  BY <1>1, StartWaveEffect DEF SameWork
<1>3. n.active = s.active
  BY <1>1 DEF StartWave, StateType
<1>4. \A t \in Tasks : \/ n.status[t] = s.status[t]
                       \/ s.status[t] = "pending" /\ n.status[t] \in {"ready", "blocked"}
  BY <1>1, <1>2, ResolutionMoves
<1>5. SlotsFollow(n)
  BY <1>2, <1>3, <1>4, MovesKeepSlots DEF Bounded
<1>6. PICK queue \in WaveQueues(ResolveDependencies(s.status), s.retry_count) :
        n.waves = Append(s.waves, [tasks |-> queue, status |-> "pending"])
  BY <1>1, StartWaveEffect
<1> DEFINE last == Len(s.waves) + 1
<1> DEFINE wave == [tasks |-> queue, status |-> "pending"]
<1>7. /\ DOMAIN n.waves = DOMAIN s.waves \cup {last} /\ n.waves[last].tasks = queue
      /\ \A i \in DOMAIN s.waves : n.waves[i] = s.waves[i]
  <2>1. wave \in WaveType /\ wave.tasks = queue /\ n.waves = Append(s.waves, wave)
    BY <1>6, QueueType DEF WaveType, WaveStatus
  <2>2. s.waves \in Seq(WaveType)
    BY <1>1, WaveTypes
  <2> HIDE DEF wave
  <2> QED BY <2>1, <2>2
<1>8. WithinLimits(TasksIn(queue))
  BY SelectionWithinLimits
<1>9. WavesWithinLimits(n)
  BY <1>7, <1>8 DEF Bounded, WavesWithinLimits
<1> QED BY <1>5, <1>9 DEF Limited

LEMMA AssignWorkersLimited ==
  ASSUME NEW s, NEW n, Bounded(s), NEW i \in DOMAIN s.waves, AssignWorkers(s, n, i)
  PROVE  Limited(n)
<1> DEFINE S == TasksIn(s.waves[i].tasks)
<1>1. s \in StateType /\ S \subseteq Tasks
  BY WaveTypes DEF Bounded, Sound
<1>2. PICK pick \in [S -> Agents] :
        /\ n.status = [t \in Tasks |-> IF t \in S THEN "running" ELSE s.status[t]]
        /\ n.assigned_to = [t \in Tasks |-> IF t \in S THEN pick[t] ELSE s.assigned_to[t]]
        /\ n.active = ActiveAfter(s, S, pick)
        /\ n.waves = [s.waves EXCEPT ![i].status = "running"]
  BY <1>1 DEF AssignWorkers, StateType
<1>3. WavesWithinLimits(n)
  <2>1. "running" \in WaveStatus
    BY DEF WaveStatus
  <2> QED BY <1>1, <1>2, <2>1, WaveStatusLimits DEF Bounded
<1>4. ASSUME NEW a \in Agents, NEW t \in Tasks
      PROVE  /\ n.status[t] = "running" /\ n.assigned_to[t] = a => n.active[a][t] > 0
             /\ n.status[t] \in {"pending", "blocked", "reviewing", "done"} => n.active[a][t] = 0
  <2>1. s.active[a][t] \in Nat
    BY <1>1 DEF StateType
  <2>2. n.active[a][t] = s.active[a][t] + (IF t \in S /\ pick[t] = a THEN 1 ELSE 0)
    BY <1>2 DEF ActiveAfter
  <2>3. CASE t \in S
    BY <1>2, <2>1, <2>2, <2>3
  <2>4. CASE t \notin S
    <3>1. /\ n.active[a][t] = s.active[a][t]
          /\ n.status[t] = s.status[t] /\ n.assigned_to[t] = s.assigned_to[t]
      BY <1>2, <2>1, <2>2, <2>4
    <3> QED BY <3>1 DEF Bounded, SlotsFollow
  <2> QED BY <2>3, <2>4
<1>5. SlotsFollow(n)
  BY <1>4 DEF SlotsFollow
<1> QED BY <1>3, <1>5 DEF Limited

LEMMA DispatchWaveLimited ==
  ASSUME NEW s, NEW n, Bounded(s), NEW i \in DOMAIN s.waves, NEW nodes \in SUBSET Agents,
         DispatchWave(s, n, i, nodes)
  PROVE  Limited(n)
<1>1. s \in StateType
  BY DEF Bounded, Sound
<1>2. PICK S \in SUBSET TasksIn(s.waves[i].tasks) :
        /\ n \in StateType
        /\ \A t \in S : s.status[t] = "ready"
        /\ n.status = [t \in Tasks |-> IF t \in S THEN "assigned" ELSE s.status[t]]
        /\ \A t \in Tasks \ S : n.assigned_to[t] = s.assigned_to[t]
        /\ n.changed_files = s.changed_files /\ n.phase = s.phase /\ n.waves = s.waves
  BY <1>1, DispatchWaveEffect
<1>3. n.active = s.active
  BY <1>1 DEF DispatchWave, StateType
<1>4. SlotsFollow(n)
  BY <1>2, <1>3 DEF Bounded, SlotsFollow
<1> QED BY <1>2, <1>4, SameWavesLimits DEF Bounded, Limited

\* A report takes its task off every agent's list.
LEMMA CollectSlots ==
  ASSUME NEW s \in StateType, NEW n, SlotsFollow(s), NEW t \in Tasks,
         NEW report \in Reports, CollectResult(s, n, t, report)
  PROVE  SlotsFollow(n)
<1>1. /\ n.status[t] \in {"ready", "reviewing", "failed"}
      /\ \A u \in Tasks \ {t} : /\ n.status[u] = s.status[u]
                                /\ n.assigned_to[u] = s.assigned_to[u]
  BY CollectEffect
<1>2. n.active = [a \in Agents |-> [s.active[a] EXCEPT ![t] = 0]]
  BY DEF CollectResult, ReleaseTask, StateType
<1>3. \A a \in Agents : s.active[a] \in [Tasks -> Nat]
  BY DEF StateType
<1>4. \A a \in Agents : /\ n.active[a][t] = 0
                        /\ \A u \in Tasks \ {t} : n.active[a][u] = s.active[a][u]
  BY <1>2, <1>3
<1> QED BY <1>1, <1>4 DEF SlotsFollow

LEMMA CollectLimited ==
  ASSUME NEW s, NEW n, Bounded(s), NEW t \in Tasks, NEW report \in Reports,
         CollectResult(s, n, t, report)
  PROVE  Limited(n)
<1>1. s \in StateType
  BY DEF Bounded, Sound
<1>2. n.waves = s.waves
  BY <1>1, CollectEffect
<1> QED BY <1>1, <1>2, SameWavesLimits, CollectSlots DEF Bounded, Limited

\* The agent a report is the first sign of gets a slot for the task; its list loses and
\* gains no other task.
LEMMA MarkSlots ==
  ASSUME NEW s \in StateType, SlotsFollow(s), NEW t \in Tasks, s.assigned_to[t] \in Agents
  PROVE  SlotsFollow(MarkAssignedTaskRunning(s, t))
<1> DEFINE a == s.assigned_to[t]
<1> DEFINE slots == [u \in Tasks |-> IF u = t \/ s.active[a][u] > 0 THEN 1 ELSE 0]
<1>1. PICK m : m = MarkAssignedTaskRunning(s, t)
  OBVIOUS
<1>2. /\ m.status = [s.status EXCEPT ![t] = "running"] /\ m.assigned_to = s.assigned_to
      /\ m.active = [s.active EXCEPT ![a] = slots]
  BY <1>1 DEF MarkAssignedTaskRunning, StateType
<1>3. /\ s.status \in [Tasks -> TaskStatus]
      /\ s.active \in [Agents -> [Tasks -> Nat]]
  BY DEF StateType
<1>4. /\ m.status[t] = "running" /\ \A u \in Tasks \ {t} : m.status[u] = s.status[u]
      /\ m.active[a] = slots /\ \A b \in Agents \ {a} : m.active[b] = s.active[b]
  BY <1>2, <1>3
<1>5. ASSUME NEW b \in Agents, NEW u \in Tasks
      PROVE  /\ m.status[u] = "running" /\ m.assigned_to[u] = b => m.active[b][u] > 0
             /\ m.status[u] \in {"pending", "blocked", "reviewing", "done"} => m.active[b][u] = 0
  <2>1. s.active[b][u] \in Nat
    BY <1>3
  <2>2. CASE u = t
    <3>1. m.active[a][t] = 1
      BY <1>4
    <3> QED BY <1>2, <1>4, <2>2, <3>1
  <2>3. CASE u # t
    <3>1. m.active[b][u] > 0 <=> s.active[b][u] > 0
      BY <1>4, <2>1, <2>3
    <3>2. m.active[b][u] = 0 <=> s.active[b][u] = 0
      BY <1>4, <2>1, <2>3
    <3> QED BY <1>2, <1>4, <2>3, <3>1, <3>2 DEF SlotsFollow
  <2> QED BY <2>2, <2>3
<1> QED BY <1>1, <1>5 DEF SlotsFollow

LEMMA IntakeLimited ==
  ASSUME NEW s, NEW n, Bounded(s), NEW t \in Tasks, NEW from \in Agents,
         NEW report \in Reports, IntakeResult(s, n, t, from, report)
  PROVE  Limited(n)
<1>1. s \in StateType /\ SlotsFollow(s)
  BY DEF Bounded, Sound
<1>2. n.waves = s.waves
  BY <1>1, IntakeEffect
<1>3. PICK m : /\ m = IF s.status[t] = "assigned" THEN MarkAssignedTaskRunning(s, t) ELSE s
               /\ CollectResult(m, n, t, report)
  BY DEF IntakeResult
<1>4. s.assigned_to[t] \in Agents
  BY DEF IntakeResult
<1>5. m \in StateType /\ SlotsFollow(m)
  BY <1>1, <1>3, <1>4, MarkEffect, MarkSlots
<1>6. SlotsFollow(n)
  BY <1>3, <1>5, CollectSlots
<1> QED BY <1>2, <1>6, SameWavesLimits DEF Bounded, Limited

LEMMA PassReviewLimited ==
  ASSUME NEW s, NEW n, Bounded(s), NEW i \in DOMAIN s.waves, PassReview(s, n, i)
  PROVE  Limited(n)
<1>1. s \in StateType
  BY DEF Bounded, Sound
<1>2. /\ n.status = [t \in Tasks |->
           IF t \in TasksIn(s.waves[i].tasks) /\ s.status[t] = "reviewing" THEN "done"
           ELSE s.status[t]]
      /\ n.waves = [s.waves EXCEPT ![i].status = "done"] /\ n.assigned_to = s.assigned_to
  BY <1>1, PassReviewEffect DEF SameWork
<1>3. n.active = s.active
  BY <1>1 DEF PassReview, StateType
<1>4. "done" \in WaveStatus
  BY DEF WaveStatus
<1>5. WavesWithinLimits(n)
  BY <1>1, <1>2, <1>4, WaveStatusLimits DEF Bounded
<1>6. SlotsFollow(n)
  BY <1>2, <1>3, MovesKeepSlots DEF Bounded
<1> QED BY <1>5, <1>6 DEF Limited

LEMMA FailReviewLimited ==
  ASSUME NEW s, NEW n, Bounded(s), NEW i \in DOMAIN s.waves, FailReview(s, n, i)
  PROVE  Limited(n)
<1>1. s \in StateType
  BY DEF Bounded, Sound
<1>2. /\ n.status = s.status /\ n.assigned_to = s.assigned_to
      /\ n.waves = [s.waves EXCEPT ![i].status = "failed"]
  BY <1>1, FailReviewEffect DEF SameWork
<1>3. n.active = s.active
  BY <1>1 DEF FailReview, StateType
<1>4. "failed" \in WaveStatus
  BY DEF WaveStatus
<1>5. WavesWithinLimits(n)
  BY <1>1, <1>2, <1>4, WaveStatusLimits DEF Bounded
<1>6. SlotsFollow(n)
  BY <1>2, <1>3, MovesKeepSlots DEF Bounded
<1> QED BY <1>5, <1>6 DEF Limited

\* A recovery leaves the slots of the tasks it gives up, and these become failed or ready.
LEMMA RecoverLimited ==
  ASSUME NEW s, NEW n, Bounded(s), NEW live, NEW lost \in {"failed", "ready"},
         Recover(s, n, live, lost)
  PROVE  Limited(n)
<1>1. s \in StateType /\ s.status \in [Tasks -> TaskStatus] /\ DependenciesKept(s.status)
  BY DEF Bounded, Sound, StateType, DependenciesKept
<1>2. PICK ls : ls = LostStatus(s, live, lost)
  OBVIOUS
<1>3. n.status = ResolveDependencies(ls) /\ n.waves = s.waves /\ n.assigned_to = s.assigned_to
  BY <1>1, <1>2, RecoverEffect DEF SameWork
<1>4. n.active = s.active
  BY <1>1 DEF Recover, StateType
<1>5. /\ ls \in [Tasks -> TaskStatus]
      /\ \A t \in Tasks : \/ ls[t] = s.status[t]
                          \/ s.status[t] = "running" /\ ls[t] \in {"failed", "ready"}
  BY <1>1, <1>2 DEF LostStatus, TaskStatus
<1>6. DependenciesKept(ls)
  BY <1>1, <1>5, PlanAssumption DEF DependenciesKept, DependenciesDone
<1>7. \A t \in Tasks : \/ n.status[t] = ls[t]
                       \/ ls[t] = "pending" /\ n.status[t] \in {"ready", "blocked"}
  BY <1>3, <1>5, <1>6, ResolutionMoves
<1>8. \A t \in Tasks :
           \/ n.status[t] = s.status[t]
           \/ n.status[t] \in {"ready", "assigned", "failed"}
           \/ s.status[t] \in {"pending", "blocked", "reviewing", "done"} /\ n.status[t] # "running"
  BY <1>5, <1>7
<1> QED BY <1>3, <1>4, <1>8, SameWavesLimits, MovesKeepSlots DEF Bounded, Limited

-----------------------------------------------------------------------------
(* The workflow                                                            *)

\* The invariant of the theorems: what StatusesAgree says, the limits and the slots.
LimitsHold == Bounded(wf)

LEMMA InitBounded == ASSUME Init PROVE LimitsHold
<1>1. Sound(wf)
  BY InitSound DEF StatusesAgree
<1>2. DOMAIN wf.waves = {}
  BY DEF Init, InitialState
<1>3. /\ \A t \in Tasks : wf.status[t] = "pending"
      /\ \A a \in Agents, t \in Tasks : wf.active[a][t] = 0
  BY DEF Init, InitialState
<1> QED BY <1>1, <1>2, <1>3 DEF LimitsHold, Bounded, WavesWithinLimits, SlotsFollow

LEMMA StepBounded ==
  ASSUME LimitsHold, Next
  PROVE  LimitsHold'
<1>1. Bounded(wf)
  BY DEF LimitsHold
<1>2. Sound(wf')
  BY <1>1, StepSound DEF Bounded, StatusesAgree
<1>3. SUFFICES Limited(wf')
  BY <1>2 DEF LimitsHold, Bounded, Limited
<1>4. CASE ScheduleNextWave
  BY <1>1, <1>4, StartWaveLimited DEF ScheduleNextWave
<1>5. CASE ScheduleNothing
  BY <1>1, <1>5, SkipWaveLimited DEF ScheduleNothing
<1>6. CASE ScheduleCompletion
  BY <1>1, <1>6, CompleteLimited DEF ScheduleCompletion
<1>7. CASE \E i \in WaveIndexes : Dispatch(i)
  BY <1>1, <1>7, AssignWorkersLimited DEF Dispatch, WaveIndexes
<1>8. CASE \E i \in WaveIndexes, nodes \in Registries : WorkflowDispatch(i, nodes)
  BY <1>1, <1>8, DispatchWaveLimited, WorkflowAssumption DEF WorkflowDispatch, WaveIndexes
<1>9. CASE \E t \in Tasks, report \in Reports : SubmitResult(t, report)
  BY <1>1, <1>9, CollectLimited DEF SubmitResult
<1>10. CASE \E t \in Tasks, from \in Agents, report \in Reports : AgentResult(t, from, report)
  BY <1>1, <1>10, IntakeLimited DEF AgentResult
<1>11. CASE \E i \in WaveIndexes : ReviewWavePasses(i)
  BY <1>1, <1>11, PassReviewLimited DEF ReviewWavePasses, WaveIndexes
<1>12. CASE \E i \in WaveIndexes : ReviewWaveFails(i)
  BY <1>1, <1>12, FailReviewLimited DEF ReviewWaveFails, WaveIndexes
<1>13. CASE \E live \in LiveSessions, lost \in LostStatuses : RecoverWorkflow(live, lost)
  BY <1>1, <1>13, RecoverLimited, WorkflowAssumption DEF RecoverWorkflow
<1> QED BY <1>4, <1>5, <1>6, <1>7, <1>8, <1>9, <1>10, <1>11, <1>12, <1>13 DEF Next

LEMMA LimitsAlwaysHold == Spec => []LimitsHold
<1>1. Init => LimitsHold
  BY InitBounded
<1>2. LimitsHold /\ [Next]_vars => LimitsHold'
  <2>1. LimitsHold /\ Next => LimitsHold'
    BY StepBounded
  <2>2. LimitsHold /\ UNCHANGED vars => LimitsHold'
    BY DEF LimitsHold, vars
  <2> QED BY <2>1, <2>2
<1> QED BY <1>1, <1>2, PTL DEF Spec

\* All tasks under way are in the newest wave: a closed one has none.
LEMMA UnderWayInOneWave ==
  ASSUME Sound(wf), NEW t \in InFlight
  PROVE  /\ Len(wf.waves) \in DOMAIN wf.waves
         /\ t \in TasksIn(wf.waves[Len(wf.waves)].tasks)
<1>1. t \in Tasks /\ wf.status[t] \in {"assigned", "running"}
  BY DEF InFlight
<1>2. PICK i \in DOMAIN wf.waves : t \in TasksIn(wf.waves[i].tasks)
  BY <1>1 DEF Sound
<1>3. IsOpen(wf.waves[i])
  BY <1>1, <1>2, ClosedWaveTasks
<1>4. i = Len(wf.waves)
  BY <1>3 DEF Sound, WaveStands
<1> QED BY <1>2, <1>4

\* Whatever the handlers do and in whatever order, tasks under way at the same time do not
\* conflict, one that may not run in parallel is alone, and no more are under way, nor of
\* high risk, than the policy allows (scheduler.ts getSkipDecision).
THEOREM LimitsHoldUnderWay == Spec => []ParallelismBounded
<1>1. ASSUME LimitsHold
      PROVE  ParallelismBounded
  <2> DEFINE S == TasksIn(wf.waves[Len(wf.waves)].tasks)
  <2>1. Sound(wf) /\ WavesWithinLimits(wf) /\ wf \in StateType
    BY <1>1 DEF LimitsHold, Bounded, Sound
  <2>2. Policy.max_parallel_tasks \in Nat /\ Policy.high_risk_parallel_limit \in Nat
    BY PlanAssumption DEF PolicyType
  <2>3. CASE InFlight = {}
    <3>1. {t \in InFlight : IsHighRisk(t)} = {}
      BY <2>3
    <3>2. Cardinality({}) = 0
      BY FS_EmptySet
    <3> HIDE DEF S
    <3> QED BY <2>2, <2>3, <3>1, <3>2 DEF ParallelismBounded
  <2>4. CASE InFlight # {}
    <3>1. Len(wf.waves) \in DOMAIN wf.waves /\ InFlight \subseteq S
      BY <2>1, <2>4, UnderWayInOneWave
    <3>2. S \subseteq Tasks /\ wf.waves[Len(wf.waves)].tasks \in Seq(Tasks)
      BY <2>1, <3>1, WaveTypes
    <3>3. WithinLimits(S)
      BY <2>1, <3>1 DEF WavesWithinLimits
    <3>4. ASSUME NEW t \in InFlight, NEW u \in InFlight, t # u
          PROVE  ~Conflict(t, u) /\ t \notin NonParallel
      <4>1. PICK k \in DOMAIN wf.waves[Len(wf.waves)].tasks,
                 l \in DOMAIN wf.waves[Len(wf.waves)].tasks :
              wf.waves[Len(wf.waves)].tasks[k] = t /\ wf.waves[Len(wf.waves)].tasks[l] = u
        BY <3>1, <3>4 DEF TasksIn
      <4>2. k \in Nat /\ l \in Nat /\ k # l
        BY <3>2, <3>4, <4>1
      <4>3. k < l \/ l < k
        BY <4>2
      <4>4. Compatible(t, u) \/ Compatible(u, t)
        BY <2>1, <3>1, <4>1, <4>3 DEF Sound, WaveStands
      <4> QED BY <4>4, ConflictSymmetric DEF Compatible
    <3> DEFINE H == {t \in InFlight : IsHighRisk(t)}
    <3>5. H \subseteq HighRisk(S) /\ HighRisk(S) \subseteq Tasks
      BY <3>1, <3>2 DEF HighRisk
    <3> HIDE DEF S, H
    <3>6. Cardinality(InFlight) <= Cardinality(S) /\ Cardinality(H) <= Cardinality(HighRisk(S))
      BY <3>1, <3>2, <3>5, TaskSets, FS_Subset
    <3>7. /\ Cardinality(S) \in Nat /\ Cardinality(HighRisk(S)) \in Nat
          /\ Cardinality(InFlight) \in Nat /\ Cardinality(H) \in Nat
      BY <3>1, <3>2, <3>5, TaskSets
    <3>8. /\ Cardinality(InFlight) <= Policy.max_parallel_tasks
          /\ Cardinality(H) <= Policy.high_risk_parallel_limit
      BY <2>2, <3>3, <3>6, <3>7 DEF WithinLimits
    <3> QED BY <3>4, <3>8 DEF ParallelismBounded, H
  <2> QED BY <2>3, <2>4
<1> QED BY <1>1, LimitsAlwaysHold, PTL

\* A running task holds a slot of its agent and one whose report was accepted holds none,
\* whichever handlers wrote the lists (result_collector.ts releaseTaskFromAgent).
THEOREM SlotsAlwaysFollow == Spec => []SlotsFollowTasks
<1>1. LimitsHold => SlotsFollowTasks
  BY DEF LimitsHold, Bounded, SlotsFollow, SlotsFollowTasks
<1> QED BY <1>1, LimitsAlwaysHold, PTL

-----------------------------------------------------------------------------
(* The pool never gives an agent more than its limit                       *)

\* The slots counted over all agents, of a record.
LoadsLimited(s) == \A a \in Agents : Load(s.active, a) <= Policy.max_tasks_per_agent

LEMMA LoadIsSum ==
  ASSUME NEW active \in [Agents -> [Tasks -> Nat]], NEW a \in Agents
  PROVE  /\ Load(active, a) = SumFunctionOnSet(active[a], Tasks)
         /\ Load(active, a) \in Nat
<1>1. active[a] \in [Tasks -> Nat]
  OBVIOUS
<1>2. Load(active, a) = SumFunctionOnSet(active[a], Tasks)
  BY <1>1 DEF Load, SumFunction
<1>3. SumFunctionOnSet(active[a], Tasks) \in Nat
  BY <1>1, PlanAssumption, SumOfNaturals
<1> QED BY <1>2, <1>3

\* Who has no more of any task than before keeps to the limit.
LEMMA FewerSlots ==
  ASSUME NEW s \in StateType, LoadsLimited(s), NEW n,
         n.active \in [Agents -> [Tasks -> Nat]],
         \A a \in Agents, t \in Tasks : n.active[a][t] <= s.active[a][t]
  PROVE  LoadsLimited(n)
<1>1. s.active \in [Agents -> [Tasks -> Nat]] /\ Policy.max_tasks_per_agent \in Nat
  BY PlanAssumption DEF StateType, PolicyType
<1>2. ASSUME NEW a \in Agents
      PROVE  Load(n.active, a) <= Policy.max_tasks_per_agent
  <2>1. /\ Load(n.active, a) = SumFunctionOnSet(n.active[a], Tasks)
        /\ Load(s.active, a) = SumFunctionOnSet(s.active[a], Tasks)
        /\ Load(n.active, a) \in Nat /\ Load(s.active, a) \in Nat
    BY <1>1, LoadIsSum
  <2>2. \A t \in Tasks : n.active[a][t] \in Int /\ s.active[a][t] \in Int
    BY <1>1
  <2>3. SumFunctionOnSet(n.active[a], Tasks) <= SumFunctionOnSet(s.active[a], Tasks)
    BY <2>2, PlanAssumption, SumMonotone
  <2>4. Load(s.active, a) <= Policy.max_tasks_per_agent
    BY DEF LoadsLimited
  <2> QED BY <1>1, <2>1, <2>3, <2>4
<1> QED BY <1>2 DEF LoadsLimited

\* Whoever is selected has room for one more, the fallback agent included.
LEMMA SelectedHasRoom ==
  ASSUME NEW t, NEW known, NEW active, NEW a \in SelectAgent(t, known, active)
  PROVE  HasRoom(active, a)
BY DEF SelectAgent, CanRun

\* The last task of the wave that an agent gets was given to it while it had room, and
\* what it had then was all it gets but this one.
LEMMA AssignmentWithinLimit ==
  ASSUME NEW s, NEW n, Sound(s), LoadsLimited(s), NEW i \in DOMAIN s.waves,
         AssignWorkers(s, n, i)
  PROVE  LoadsLimited(n)
<1> DEFINE queue == s.waves[i].tasks
           S == TasksIn(queue)
<1>1. /\ s \in StateType /\ queue \in Seq(Tasks) /\ S \subseteq Tasks
      /\ s.active \in [Agents -> [Tasks -> Nat]] /\ Policy.max_tasks_per_agent \in Nat
  BY WaveTypes, PlanAssumption DEF Sound, StateType, PolicyType
<1>2. \A k, l \in DOMAIN queue : k < l => queue[k] # queue[l]
  BY DEF Sound, WaveStands, Compatible
<1>3. PICK pick \in [S -> Agents] :
        Assignable(s, queue, pick) /\ n.active = ActiveAfter(s, S, pick)
  BY <1>1 DEF AssignWorkers, StateType
<1>4. ASSUME NEW U \in SUBSET S
      PROVE  /\ ActiveAfter(s, U, pick) \in [Agents -> [Tasks -> Nat]]
             /\ \A a \in Agents, t \in Tasks : ActiveAfter(s, U, pick)[a][t] =
                  s.active[a][t] + (IF t \in U /\ pick[t] = a THEN 1 ELSE 0)
  BY <1>1 DEF ActiveAfter
<1>5. PICK len \in Nat : DOMAIN queue = 1..len
  BY <1>1
<1>6. ASSUME NEW a \in Agents
      PROVE  Load(n.active, a) <= Policy.max_tasks_per_agent
  <2> DEFINE D == {k \in DOMAIN queue : pick[queue[k]] = a}
  <2>1. CASE D = {}
    <3>1. \A t \in S : pick[t] # a
      BY <2>1 DEF TasksIn
    <3>2. \A t \in Tasks : n.active[a][t] = s.active[a][t]
      <4>1. \A t \in Tasks : n.active[a][t] =
                s.active[a][t] + (IF t \in S /\ pick[t] = a THEN 1 ELSE 0)
        BY <1>3, <1>4
      <4>2. \A t \in Tasks : s.active[a][t] \in Nat /\ ~(t \in S /\ pick[t] = a)
        BY <1>1, <3>1
      <4> HIDE DEF S
      <4> QED BY <4>1, <4>2
    <3>3. SumFunctionOnSet(n.active[a], Tasks) = SumFunctionOnSet(s.active[a], Tasks)
      BY <3>2, PlanAssumption, SumOfEquals
    <3>4. /\ Load(n.active, a) = SumFunctionOnSet(n.active[a], Tasks)
          /\ Load(s.active, a) = SumFunctionOnSet(s.active[a], Tasks)
      <4>1. n.active \in [Agents -> [Tasks -> Nat]]
        BY <1>3, <1>4
      <4> HIDE DEF S
      <4> QED BY <1>1, <4>1, LoadIsSum
    <3> QED BY <3>3, <3>4 DEF LoadsLimited
  <2>2. CASE D # {}
    <3>1. PICK k \in D : \A j \in D : j <= k
      <4>1. D \in SUBSET (1..len)
        BY <1>5
      <4> HIDE DEF D
      <4> QED BY <2>2, <4>1, LastPosition
    <3> DEFINE before == {queue[j] : j \in 1..(k - 1)}
               last == queue[k]
               earlier == ActiveAfter(s, before, pick)
    <3>2. /\ k \in DOMAIN queue /\ k \in 1..len /\ last \in S /\ last \in Tasks
          /\ pick[last] = a
      BY <1>1, <1>5, <3>1 DEF TasksIn
    <3>3. before \in SUBSET S /\ last \notin before
      <4>1. \A j \in 1..(k - 1) : j \in DOMAIN queue /\ j < k
        BY <1>5, <3>2
      <4> QED BY <1>2, <3>2, <4>1 DEF TasksIn
    <3>4. \A t \in S \ {last} : pick[t] = a => t \in before
      <4>1. ASSUME NEW j \in D, queue[j] # last
            PROVE  queue[j] \in before
        <5>1. j \in 1..len /\ j <= k /\ j # k
          BY <1>5, <3>1, <4>1
        <5>2. j \in 1..(k - 1)
          BY <3>2, <5>1
        <5> QED BY <5>2
      <4> QED BY <4>1 DEF TasksIn
    <3> HIDE DEF before, last
    <3>5. /\ earlier \in [Agents -> [Tasks -> Nat]]
          /\ n.active \in [Agents -> [Tasks -> Nat]]
          /\ \A t \in Tasks : earlier[a][t] =
               s.active[a][t] + (IF t \in before /\ pick[t] = a THEN 1 ELSE 0)
          /\ \A t \in Tasks : n.active[a][t] =
               s.active[a][t] + (IF t \in S /\ pick[t] = a THEN 1 ELSE 0)
      BY <1>3, <1>4, <3>3
    <3>6. Load(earlier, a) < Policy.max_tasks_per_agent
      <4>1. a \in SelectAgent(last, KnownAfter(s, before, pick), earlier)
        BY <1>3, <3>2 DEF Assignable, before, last
      <4> HIDE DEF earlier
      <4> QED BY <4>1, SelectedHasRoom DEF HasRoom
    <3> HIDE DEF earlier, S
    <3>7. /\ n.active[a][last] = earlier[a][last] + 1
          /\ \A t \in Tasks \ {last} : n.active[a][t] = earlier[a][t]
      <4>1. /\ n.active[a][last] = s.active[a][last] + 1
            /\ earlier[a][last] = s.active[a][last] /\ s.active[a][last] \in Nat
        BY <1>1, <3>2, <3>3, <3>5
      <4>2. \A t \in Tasks \ {last} :
              t \in S /\ pick[t] = a <=> t \in before /\ pick[t] = a
        BY <3>3, <3>4
      <4> QED BY <3>5, <4>1, <4>2
    <3>8. \A t \in Tasks : earlier[a][t] \in Int
      BY <3>5
    <3>9. SumFunctionOnSet(n.active[a], Tasks) = SumFunctionOnSet(earlier[a], Tasks) + 1
      BY <3>2, <3>7, <3>8, PlanAssumption, SumOneMore
    <3>10. /\ Load(n.active, a) = SumFunctionOnSet(n.active[a], Tasks)
           /\ Load(earlier, a) = SumFunctionOnSet(earlier[a], Tasks)
           /\ Load(earlier, a) \in Nat
      BY <3>5, LoadIsSum
    <3> QED BY <1>1, <3>6, <3>9, <3>10
  <2> QED BY <2>1, <2>2
<1> QED BY <1>6 DEF LoadsLimited

LEMMA CollectionWithinLimit ==
  ASSUME NEW s \in StateType, NEW n, LoadsLimited(s), NEW m, NEW t \in Tasks, NEW report,
         m.active \in [Agents -> [Tasks -> Nat]],
         \A a \in Agents, u \in Tasks \ {t} : m.active[a][u] <= s.active[a][u],
         n.active = ReleaseTask(m, t)
  PROVE  LoadsLimited(n)
<1>1. s.active \in [Agents -> [Tasks -> Nat]]
  BY DEF StateType
<1>2. n.active = [a \in Agents |-> [m.active[a] EXCEPT ![t] = 0]]
  BY DEF ReleaseTask
<1>3. n.active \in [Agents -> [Tasks -> Nat]]
  BY <1>2
<1>4. \A a \in Agents : m.active[a] \in [Tasks -> Nat]
  OBVIOUS
<1>5. \A a \in Agents : n.active[a][t] = 0 /\ \A u \in Tasks \ {t} : n.active[a][u] = m.active[a][u]
  BY <1>2, <1>4
<1>6. \A a \in Agents, u \in Tasks : n.active[a][u] <= s.active[a][u]
  BY <1>1, <1>5
<1> QED BY <1>3, <1>6, FewerSlots

\* A report that is the first sign of its agent overfills no list: the slot it makes is
\* given back in the same call.
LEMMA IntakeWithinLimit ==
  ASSUME NEW s, NEW n, Sound(s), LoadsLimited(s), NEW t \in Tasks, NEW from \in Agents,
         NEW report \in Reports, IntakeResult(s, n, t, from, report)
  PROVE  LoadsLimited(n)
<1>1. s \in StateType /\ s.active \in [Agents -> [Tasks -> Nat]]
  BY DEF Sound, StateType
<1>2. PICK m : /\ m = IF s.status[t] = "assigned" THEN MarkAssignedTaskRunning(s, t) ELSE s
               /\ CollectResult(m, n, t, report)
  BY DEF IntakeResult
<1>3. s.assigned_to[t] \in Agents
  BY DEF IntakeResult
<1>4. m \in StateType
  BY <1>1, <1>2, <1>3, MarkEffect
<1>5. n.active = ReleaseTask(m, t)
  BY <1>2, <1>4 DEF CollectResult, StateType
<1>6. \A a \in Agents, u \in Tasks \ {t} : m.active[a][u] <= s.active[a][u]
  <2>1. CASE s.status[t] # "assigned"
    BY <1>1, <1>2, <2>1
  <2>2. CASE s.status[t] = "assigned"
    <3> DEFINE a == s.assigned_to[t]
               slots == [u \in Tasks |-> IF u = t \/ s.active[a][u] > 0 THEN 1 ELSE 0]
    <3>1. m.active = [s.active EXCEPT ![a] = slots]
      BY <1>1, <1>2, <2>2 DEF MarkAssignedTaskRunning, StateType
    <3>2. m.active[a] = slots /\ \A b \in Agents \ {a} : m.active[b] = s.active[b]
      BY <1>1, <1>3, <3>1
    <3>3. \A b \in Agents, u \in Tasks : s.active[b][u] \in Nat
      BY <1>1
    <3>4. \A u \in Tasks \ {t} : m.active[a][u] <= s.active[a][u]
      BY <1>3, <3>2, <3>3
    <3> QED BY <3>2, <3>3, <3>4
  <2> QED BY <2>1, <2>2
<1>7. m.active \in [Agents -> [Tasks -> Nat]]
  BY <1>4 DEF StateType
<1> QED BY <1>1, <1>5, <1>6, <1>7, CollectionWithinLimit

LEMMA SubmissionWithinLimit ==
  ASSUME NEW s, NEW n, Sound(s), LoadsLimited(s), NEW t \in Tasks, NEW report \in Reports,
         CollectResult(s, n, t, report)
  PROVE  LoadsLimited(n)
<1>1. s \in StateType /\ s.active \in [Agents -> [Tasks -> Nat]]
  BY DEF Sound, StateType
<1>2. n.active = ReleaseTask(s, t)
  BY <1>1 DEF CollectResult, StateType
<1>3. \A a \in Agents, u \in Tasks \ {t} : s.active[a][u] <= s.active[a][u]
  BY <1>1
<1> QED BY <1>1, <1>2, <1>3, CollectionWithinLimit

\* No other handler touches the lists.
LEMMA OthersKeepSlots ==
  ASSUME NEW s \in StateType, NEW n,
         \/ StartWave(s, n) \/ SkipWave(s, n) \/ CompleteWorkflow(s, n)
         \/ \E i \in DOMAIN s.waves : PassReview(s, n, i) \/ FailReview(s, n, i)
         \/ \E i \in DOMAIN s.waves, nodes \in SUBSET Agents : DispatchWave(s, n, i, nodes)
         \/ \E live, lost : Recover(s, n, live, lost)
  PROVE  n.active = s.active
<1>1. CASE StartWave(s, n)
  BY <1>1 DEF StartWave, StateType
<1>2. CASE SkipWave(s, n) \/ CompleteWorkflow(s, n)
  BY <1>2 DEF SkipWave, CompleteWorkflow, StateType
<1>3. CASE \E i \in DOMAIN s.waves : PassReview(s, n, i) \/ FailReview(s, n, i)
  BY <1>3 DEF PassReview, FailReview, StateType
<1>4. CASE \E i \in DOMAIN s.waves, nodes \in SUBSET Agents : DispatchWave(s, n, i, nodes)
  BY <1>4 DEF DispatchWave, StateType
<1>5. CASE \E live, lost : Recover(s, n, live, lost)
  BY <1>5 DEF Recover, StateType
<1> QED BY <1>1, <1>2, <1>3, <1>4, <1>5

LEMMA StepWithinLimit ==
  ASSUME StatusesAgree, LoadsLimited(wf), Next
  PROVE  LoadsLimited(wf')
<1>1. Sound(wf) /\ wf \in StateType
  BY DEF StatusesAgree, Sound
<1>2. CASE ScheduleNextWave \/ ScheduleNothing \/ ScheduleCompletion
  <2>1. wf'.active = wf.active
    BY <1>1, <1>2, OthersKeepSlots DEF ScheduleNextWave, ScheduleNothing, ScheduleCompletion
  <2> QED BY <2>1 DEF LoadsLimited
<1>3. CASE \E i \in WaveIndexes : Dispatch(i)
  BY <1>1, <1>3, AssignmentWithinLimit DEF Dispatch, WaveIndexes
<1>4. CASE \E i \in WaveIndexes, nodes \in Registries : WorkflowDispatch(i, nodes)
  <2>1. PICK i \in DOMAIN wf.waves, nodes \in SUBSET Agents : DispatchWave(wf, wf', i, nodes)
    BY <1>4, WorkflowAssumption DEF WorkflowDispatch, WaveIndexes
  <2>2. wf'.active = wf.active
    BY <1>1, <2>1, OthersKeepSlots
  <2> QED BY <2>2 DEF LoadsLimited
<1>5. CASE \E t \in Tasks, report \in Reports : SubmitResult(t, report)
  BY <1>1, <1>5, SubmissionWithinLimit DEF SubmitResult
<1>6. CASE \E t \in Tasks, from \in Agents, report \in Reports : AgentResult(t, from, report)
  BY <1>1, <1>6, IntakeWithinLimit DEF AgentResult
<1>7. CASE \E i \in WaveIndexes : ReviewWavePasses(i) \/ ReviewWaveFails(i)
  <2>1. wf'.active = wf.active
    BY <1>1, <1>7, OthersKeepSlots DEF ReviewWavePasses, ReviewWaveFails, WaveIndexes
  <2> QED BY <2>1 DEF LoadsLimited
<1>8. CASE \E live \in LiveSessions, lost \in LostStatuses : RecoverWorkflow(live, lost)
  <2>1. wf'.active = wf.active
    BY <1>1, <1>8, OthersKeepSlots DEF RecoverWorkflow
  <2> QED BY <2>1 DEF LoadsLimited
<1> QED BY <1>2, <1>3, <1>4, <1>5, <1>6, <1>7, <1>8 DEF Next

\* No agent of the pool is ever listed with more tasks than max_tasks_per_agent, although
\* intake adds to the lists without looking and a recovery leaves them as they are
\* (worker_pool.ts hasAgentCapacity, intake_result.ts markAssignedTaskRunning).
THEOREM AgentsStayWithinLimit == Spec => []AgentsWithinLimit
<1>1. Init => LoadsLimited(wf)
  <2>1. SUFFICES ASSUME Init, NEW a \in Agents
                 PROVE  Load(wf.active, a) <= Policy.max_tasks_per_agent
    BY DEF LoadsLimited
  <2>2. wf.active = [b \in Agents |-> [t \in Tasks |-> 0]]
    BY <2>1 DEF Init, InitialState
  <2>3. wf.active \in [Agents -> [Tasks -> Nat]] /\ \A t \in Tasks : wf.active[a][t] = 0
    BY <2>2
  <2>4. Load(wf.active, a) = SumFunctionOnSet(wf.active[a], Tasks)
    BY <2>3, LoadIsSum
  <2>5. SumFunctionOnSet(wf.active[a], Tasks) = 0
    BY <2>3, PlanAssumption, SumOfZeros
  <2> QED BY <2>4, <2>5, PlanAssumption DEF PolicyType
<1>2. StatusesAgree /\ LoadsLimited(wf) /\ [Next]_vars => LoadsLimited(wf)'
  <2>1. StatusesAgree /\ LoadsLimited(wf) /\ Next => LoadsLimited(wf)'
    BY StepWithinLimit DEF LoadsLimited
  <2>2. LoadsLimited(wf) /\ UNCHANGED vars => LoadsLimited(wf)'
    BY DEF LoadsLimited, vars
  <2> QED BY <2>1, <2>2
<1>3. LoadsLimited(wf) => AgentsWithinLimit
  BY DEF LoadsLimited, AgentsWithinLimit
<1> QED BY <1>1, <1>2, <1>3, StatusesAlwaysAgree, PTL DEF Spec
===============================================================================
