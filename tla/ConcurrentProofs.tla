--------------------------- MODULE ConcurrentProofs ---------------------------
(***************************************************************************)
(* Proofs about ConcurrentWorkflow, for any number of calls.  Every save   *)
(* is computed from a snapshot, so the lemmas of WorkflowProofs about a    *)
(* record and its successor apply whatever happened to the file meanwhile: *)
(* what has to be carried along is that the snapshots are sound too, which *)
(* messages the snapshots rely on, and that a lone call's snapshot is what *)
(* the file holds.  The last part counts the messages about each task, a   *)
(* sum over the nodes, against its retries (NobodyIsToldTwice).            *)
(***************************************************************************)
EXTENDS ConcurrentWorkflow, WorkflowProofs, SumLemmas

-----------------------------------------------------------------------------
(* The file stays sound                                                    *)

TargetType == [wave : Nat, nodes : SUBSET Agents]

\* A dispatch under way is for a wave it has seen.
TargetKnown(c) == pc[c] = "dispatching" => target[c].wave \in DOMAIN snapshot[c].waves

CallsSound ==
  /\ Sound(wf)
  /\ DOMAIN pc = Calls
  /\ target \in [Calls -> TargetType]
  /\ snapshot \in [Calls -> StateType]
  /\ \A c \in Calls : Sound(snapshot[c]) /\ TargetKnown(c)

LEMMA InitialStateSound == Sound(InitialState)
<1>1. InitialState \in StateType
  BY InitialStateType
<1>2. /\ \A t \in Tasks : InitialState.status[t] = "pending"
      /\ InitialState.waves = <<>> /\ InitialState.phase = "pending"
  BY DEF InitialState
<1>3. DOMAIN InitialState.waves = {}
  BY <1>2
<1> QED BY <1>1, <1>2, <1>3 DEF Sound

LEMMA SaveSound ==
  ASSUME NEW s, NEW n, Sound(s), SavesAtOnce(s, n)
  PROVE  Sound(n)
<1>1. CASE StartWave(s, n) \/ SkipWave(s, n) \/ CompleteWorkflow(s, n)
  BY <1>1, StartWaveSound, SkipWaveSound, CompleteSound
<1>2. CASE \E i \in DOMAIN s.waves :
             AssignWorkers(s, n, i) \/ PassReview(s, n, i) \/ FailReview(s, n, i)
  BY <1>2, AssignWorkersSound, PassReviewSound, FailReviewSound
<1>3. CASE \E t \in Tasks, report \in Reports : CollectResult(s, n, t, report)
  BY <1>3, CollectSound
<1>4. CASE \E t \in Tasks, report \in Reports, from \in Agents : IntakeResult(s, n, t, from, report)
  BY <1>4, IntakeSound
<1>5. CASE \E live \in LiveSessions, lost \in LostStatuses : Recover(s, n, live, lost)
  BY <1>5, RecoverSound, WorkflowAssumption
<1> QED BY <1>1, <1>2, <1>3, <1>4, <1>5 DEF SavesAtOnce

\* A call that is over leaves nothing behind that could make the invariant fail.
LEMMA LeaveSound ==
  ASSUME CallsSound, NEW c \in Calls, Leave(c), Sound(wf')
  PROVE  CallsSound'
<1>1. Sound(InitialState) /\ InitialState \in StateType /\ NoTarget \in TargetType
  BY InitialStateSound, InitialStateType DEF NoTarget, TargetType
<1>2. /\ DOMAIN pc' = Calls /\ target' \in [Calls -> TargetType]
      /\ snapshot' \in [Calls -> StateType]
  BY <1>1 DEF CallsSound, Leave
<1>3. ASSUME NEW d \in Calls
      PROVE  Sound(snapshot'[d]) /\ TargetKnown(d)'
  <2>1. CASE d = c
    BY <1>1, <2>1 DEF CallsSound, Leave, TargetKnown
  <2>2. CASE d # c
    BY <2>2 DEF CallsSound, Leave, TargetKnown
  <2> QED BY <2>1, <2>2
<1> QED BY <1>2, <1>3 DEF CallsSound

LEMMA ConcurrentInitSound == ASSUME ConcurrentInit PROVE CallsSound
<1>1. Sound(wf)
  BY InitialStateSound DEF ConcurrentInit, Init
<1> QED BY <1>1, InitialStateSound, InitialStateType
        DEF ConcurrentInit, CallsSound, TargetType, NoTarget, TargetKnown

LEMMA ConcurrentStepSound ==
  ASSUME CallsSound, [ConcurrentNext]_concurrentVars
  PROVE  CallsSound'
<1>1. ASSUME NEW c \in Calls, LoadState(c)
      PROVE  CallsSound'
  <2>1. wf \in StateType
    BY DEF CallsSound, Sound
  <2>2. /\ DOMAIN pc' = Calls /\ target' = target /\ wf' = wf
        /\ snapshot' \in [Calls -> StateType]
    BY <1>1, <2>1 DEF CallsSound, LoadState
  <2>3. ASSUME NEW d \in Calls
        PROVE  Sound(snapshot'[d]) /\ TargetKnown(d)'
    <3>1. CASE d = c
      BY <1>1, <3>1 DEF CallsSound, LoadState, TargetKnown
    <3>2. CASE d # c
      BY <1>1, <3>2 DEF CallsSound, LoadState, TargetKnown
    <3> QED BY <3>1, <3>2
  <2> QED BY <2>2, <2>3 DEF CallsSound
<1>2. ASSUME NEW c \in Calls, Save(c)
      PROVE  CallsSound'
  BY <1>2, LeaveSound, SaveSound DEF CallsSound, Save
<1>3. ASSUME NEW c \in Calls, ReturnUnsaved(c)
      PROVE  CallsSound'
  BY <1>3, LeaveSound DEF CallsSound, ReturnUnsaved
<1>4. ASSUME NEW c \in Calls, SaveDispatch(c)
      PROVE  CallsSound'
  <2>1. target[c].wave \in DOMAIN snapshot[c].waves /\ target[c].nodes \in SUBSET Agents
    BY <1>4 DEF CallsSound, SaveDispatch, TargetKnown, TargetType
  <2>2. Sound(wf')
    BY <1>4, <2>1, DispatchWaveSound DEF CallsSound, SaveDispatch
  <2> QED BY <1>4, <2>2, LeaveSound DEF SaveDispatch
<1>5. ASSUME NEW c \in Calls, Crash(c)
      PROVE  CallsSound'
  BY <1>5, LeaveSound DEF CallsSound, Crash
<1>6. ASSUME NEW c \in Calls, NEW i \in DOMAIN snapshot[c].waves, NEW nodes \in Registries,
             SelectTargets(c, i, nodes)
      PROVE  CallsSound'
  <2>1. i \in Nat /\ nodes \in SUBSET Agents
    BY WorkflowAssumption DEF CallsSound, StateType
  <2>2. /\ DOMAIN pc' = Calls /\ target' \in [Calls -> TargetType]
        /\ snapshot' = snapshot /\ wf' = wf
    BY <1>6, <2>1 DEF CallsSound, SelectTargets, TargetType
  <2>3. ASSUME NEW d \in Calls
        PROVE  TargetKnown(d)'
    <3>1. CASE d = c
      BY <1>6, <3>1 DEF CallsSound, SelectTargets, TargetKnown
    <3>2. CASE d # c
      BY <1>6, <3>2 DEF CallsSound, SelectTargets, TargetKnown
    <3> QED BY <3>1, <3>2
  <2> QED BY <2>2, <2>3 DEF CallsSound
<1>7. ASSUME NEW c \in Calls, NEW t \in Tasks, NEW node \in Agents, SendAssignment(c, t, node)
      PROVE  CallsSound'
  BY <1>7 DEF CallsSound, SendAssignment, TargetKnown
<1>8. CASE Reset
  BY <1>8, InitialStateSound DEF CallsSound, Reset, TargetKnown, callVars
<1>9. CASE UNCHANGED concurrentVars
  BY <1>9 DEF CallsSound, TargetKnown, concurrentVars
<1> QED BY <1>1, <1>2, <1>3, <1>4, <1>5, <1>6, <1>7, <1>8, <1>9 DEF ConcurrentNext

\* However many calls overlap, are cut off or have the workflow reset under them, the
\* file holds a sound state: an update may be lost, but no handler ever finds a state
\* that handlers called one at a time could not have left.
THEOREM FileStaysSound == ConcurrentSpec => []SavedStateSound
<1>1. CallsSound => SavedStateSound
  BY DEF CallsSound, SavedStateSound
<1> QED BY <1>1, ConcurrentInitSound, ConcurrentStepSound, PTL DEF ConcurrentSpec

-----------------------------------------------------------------------------
(* Without overlap the file takes the steps of Workflow                    *)

Undisturbed == trouble["overlap"] = 0 /\ trouble["reset"] = 0

\* A lone call works on what the file holds.
Serial ==
  /\ DOMAIN pc = Calls /\ DOMAIN snapshot = Calls /\ DOMAIN target = Calls
  /\ trouble \in [Kinds -> Nat]
  /\ \A c \in Calls : pc[c] = "dispatching" =>
       target[c].wave \in DOMAIN snapshot[c].waves /\ target[c].nodes \in Registries
  /\ Undisturbed => /\ \A c, d \in UnderWay : c = d
                    /\ \A c \in UnderWay : snapshot[c] = wf

\* Troubles are counted and never forgotten.
LEMMA NoteCounts ==
  ASSUME trouble \in [Kinds -> Nat], NEW kind \in Kinds, Note(kind)
  PROVE  /\ trouble' \in [Kinds -> Nat]
         /\ trouble'[kind] # 0
         /\ Undisturbed' => Undisturbed
BY DEF Note, Kinds, Undisturbed

LEMMA LeaveSerial ==
  ASSUME Serial, NEW c \in UnderWay, Leave(c), trouble' \in [Kinds -> Nat],
         Undisturbed' => Undisturbed
  PROVE  Serial'
<1>1. c \in Calls /\ UnderWay' = UnderWay \ {c}
  BY DEF Serial, UnderWay, Leave
<1>2. /\ DOMAIN pc' = Calls /\ DOMAIN snapshot' = Calls /\ DOMAIN target' = Calls
      /\ \A d \in Calls \ {c} :
           pc'[d] = pc[d] /\ target'[d] = target[d] /\ snapshot'[d] = snapshot[d]
      /\ pc'[c] = "idle"
  BY <1>1 DEF Serial, Leave
<1>3. ASSUME NEW d \in Calls, pc'[d] = "dispatching"
      PROVE  target'[d].wave \in DOMAIN snapshot'[d].waves /\ target'[d].nodes \in Registries
  BY <1>2, <1>3 DEF Serial
<1>4. Undisturbed' => UnderWay' = {}
  BY <1>1 DEF Serial
<1> QED BY <1>2, <1>3, <1>4 DEF Serial

LEMMA SerialStep ==
  ASSUME Serial, [ConcurrentNext]_concurrentVars
  PROVE  Serial'
<1>1. ASSUME NEW c \in Calls, LoadState(c)
      PROVE  Serial'
  <2>1. /\ trouble' \in [Kinds -> Nat]
        /\ Undisturbed' => Undisturbed /\ UnderWay = {}
    BY <1>1, NoteCounts DEF LoadState, Serial, Kinds, Undisturbed
  <2>2. UnderWay' = UnderWay \cup {c} /\ snapshot'[c] = wf /\ wf' = wf
    BY <1>1 DEF LoadState, Serial, UnderWay
  <2>3. Undisturbed' => /\ \A d, e \in UnderWay' : d = e
                        /\ \A d \in UnderWay' : snapshot'[d] = wf'
    BY <2>1, <2>2
  <2>4. ASSUME NEW d \in Calls, pc'[d] = "dispatching"
        PROVE  target'[d].wave \in DOMAIN snapshot'[d].waves /\ target'[d].nodes \in Registries
    BY <1>1, <2>4 DEF LoadState, Serial
  <2> QED BY <1>1, <2>1, <2>3, <2>4 DEF LoadState, Serial
<1>2. ASSUME NEW c \in Calls, Save(c) \/ ReturnUnsaved(c) \/ SaveDispatch(c)
      PROVE  Serial'
  <2>1. c \in UnderWay /\ Leave(c) /\ trouble' = trouble
    BY <1>2 DEF Save, ReturnUnsaved, SaveDispatch, UnderWay
  <2> QED BY <2>1, LeaveSerial DEF Serial, Undisturbed
<1>3. ASSUME NEW c \in Calls, Crash(c)
      PROVE  Serial'
  <2>1. c \in UnderWay /\ Leave(c) /\ Note("crash") /\ "crash" \in Kinds
    BY <1>3 DEF Crash, Kinds
  <2> QED BY <2>1, LeaveSerial, NoteCounts DEF Serial
<1>4. ASSUME NEW c \in Calls, NEW i \in DOMAIN snapshot[c].waves, NEW nodes \in Registries,
             SelectTargets(c, i, nodes)
      PROVE  Serial'
  <2>1. /\ UnderWay' = UnderWay /\ snapshot' = snapshot /\ wf' = wf /\ trouble' = trouble
        /\ DOMAIN pc' = Calls /\ DOMAIN target' = Calls
    BY <1>4 DEF SelectTargets, Serial, UnderWay
  <2>2. ASSUME NEW d \in Calls, pc'[d] = "dispatching"
        PROVE  target'[d].wave \in DOMAIN snapshot[d].waves /\ target'[d].nodes \in Registries
    BY <1>4, <2>2 DEF SelectTargets, Serial
  <2> QED BY <2>1, <2>2 DEF Serial, Undisturbed
<1>5. ASSUME NEW c \in Calls, NEW t \in Tasks, NEW node \in Agents, SendAssignment(c, t, node)
      PROVE  Serial'
  BY <1>5 DEF SendAssignment, Serial, UnderWay, Undisturbed
<1>6. CASE Reset
  <2>1. trouble' \in [Kinds -> Nat] /\ ~Undisturbed'
    BY <1>6, NoteCounts DEF Reset, Serial, Undisturbed, Kinds
  <2> QED BY <1>6, <2>1 DEF Reset, Serial, callVars
<1>7. CASE UNCHANGED concurrentVars
  BY <1>7 DEF concurrentVars, Serial, UnderWay, Undisturbed
<1> QED BY <1>1, <1>2, <1>3, <1>4, <1>5, <1>6, <1>7 DEF ConcurrentNext

LEMMA SaveIsStep ==
  ASSUME SavesAtOnce(wf, wf')
  PROVE  Next
BY DEF SavesAtOnce, Next, ScheduleNextWave, ScheduleNothing, ScheduleCompletion, Dispatch,
       SubmitResult, AgentResult, ReviewWavePasses, ReviewWaveFails, RecoverWorkflow,
       WaveIndexes

LEMMA SerialStepIsStep ==
  ASSUME Serial, [ConcurrentNext]_concurrentVars, Undisturbed'
  PROVE  [Next]_vars
<1>1. ASSUME NEW c \in Calls, Save(c)
      PROVE  Next
  <2>1. c \in UnderWay /\ Undisturbed
    BY <1>1 DEF Save, UnderWay, Undisturbed
  <2> QED BY <1>1, <2>1, SaveIsStep DEF Save, Serial
<1>2. ASSUME NEW c \in Calls, SaveDispatch(c)
      PROVE  Next
  <2>1. c \in UnderWay /\ Undisturbed
    BY <1>2 DEF SaveDispatch, UnderWay, Undisturbed
  <2>2. /\ snapshot[c] = wf /\ target[c].wave \in WaveIndexes /\ target[c].nodes \in Registries
        /\ DispatchWave(wf, wf', target[c].wave, target[c].nodes)
    BY <1>2, <2>1 DEF SaveDispatch, Serial, WaveIndexes
  <2> QED BY <2>2 DEF Next, WorkflowDispatch
<1>3. CASE Reset
  BY <1>3, NoteCounts DEF Reset, Serial, Undisturbed, Kinds
<1> QED BY <1>1, <1>2, <1>3
        DEF ConcurrentNext, LoadState, ReturnUnsaved, Crash, SelectTargets, SendAssignment,
            concurrentVars, vars

\* Calls made one after the other take the file from state to state as Workflow says,
\* whatever a crash cuts off: every property proved of Workflow's steps is one of the
\* program for as long as no two calls overlap.
THEOREM SerialCallsAreSteps == ConcurrentSpec => SerialWithoutOverlap
<1> DEFINE Lone == trouble'["overlap"] = 0 /\ trouble'["reset"] = 0 => [Next]_vars
<1>1. ConcurrentInit => Serial
  BY DEF ConcurrentInit, Serial, Kinds, UnderWay, Undisturbed
<1>2. Serial /\ [ConcurrentNext]_concurrentVars => Serial'
  BY SerialStep
<1>3. Serial /\ [ConcurrentNext]_concurrentVars => [Lone]_concurrentVars
  BY SerialStepIsStep DEF Undisturbed
<1> QED BY <1>1, <1>2, <1>3, PTL DEF ConcurrentSpec, SerialWithoutOverlap

-----------------------------------------------------------------------------
(* Who is assigned a task has been told                                    *)

\* Every assignment in s has its message.
Promised(s) ==
  \A t \in Tasks : s.status[t] = "assigned" =>
    s.assigned_to[t] \in Agents /\ told[s.assigned_to[t]][t] > 0

AllTold ==
  /\ CallsSound
  /\ told \in [Agents -> [Tasks -> Nat]]
  /\ DOMAIN unsent = Calls
  /\ Promised(wf)
  /\ \A c \in Calls :
       /\ Promised(snapshot[c])
       /\ \A t \in Sent(c) : \A node \in SelectNode(t, target[c].nodes) :
            node \in Agents => told[node][t] > 0

\* The registry's choice is determined by the order of the node ids.
LEMMA OneNodeSelected ==
  ASSUME NEW t, NEW nodes \in SUBSET Agents,
         NEW n \in SelectNode(t, nodes), NEW m \in SelectNode(t, nodes)
  PROVE  n = m
<1> DEFINE capable == {k \in nodes : CanNodeRun(k, t)}
<1>1. CASE capable \cap {PreferredAgent[t]} # {}
  BY <1>1 DEF SelectNode
<1>2. CASE capable \cap {PreferredAgent[t]} = {}
  <2>1. /\ n \in Agents /\ m \in Agents
        /\ NodeRank[n] <= NodeRank[m] /\ NodeRank[m] <= NodeRank[n]
    BY <1>2 DEF SelectNode
  <2> QED BY <2>1, NodeAssumption
<1> QED BY <1>1, <1>2

\* No handler but workflow-dispatch assigns a task.
AssignedKept(s, n) ==
  \A t \in Tasks : n.status[t] = "assigned" =>
    s.status[t] = "assigned" /\ n.assigned_to[t] = s.assigned_to[t]

LEMMA SaveAssignsNothing ==
  ASSUME NEW s, NEW n, Sound(s), SavesAtOnce(s, n)
  PROVE  AssignedKept(s, n)
<1>1. s \in StateType /\ DependenciesKept(s.status) /\ s.status \in [Tasks -> TaskStatus]
  BY DEF Sound, DependenciesKept, StateType
<1>2. CASE StartWave(s, n) \/ SkipWave(s, n)
  <2>1. n.status = ResolveDependencies(s.status) /\ n.assigned_to = s.assigned_to
    BY <1>1, <1>2, StartWaveEffect, SkipWaveEffect DEF SameWork
  <2> QED BY <1>1, <2>1, ResolutionMoves DEF AssignedKept
<1>3. CASE CompleteWorkflow(s, n)
  BY <1>1, <1>3, CompleteEffect DEF SameWork, AssignedKept
<1>4. ASSUME NEW i \in DOMAIN s.waves, AssignWorkers(s, n, i)
      PROVE  AssignedKept(s, n)
  <2> DEFINE S == TasksIn(s.waves[i].tasks)
  <2>1. /\ n \in StateType
        /\ \A t \in S : s.status[t] = "ready"
        /\ n.status = [t \in Tasks |-> IF t \in S THEN "running" ELSE s.status[t]]
        /\ \A t \in Tasks \ S : n.assigned_to[t] = s.assigned_to[t]
        /\ n.changed_files = s.changed_files /\ n.phase = "running"
        /\ n.waves = [s.waves EXCEPT ![i].status = "running"]
    BY <1>1, <1>4, AssignWorkersEffect
  <2>2. ASSUME NEW t \in Tasks, n.status[t] = "assigned"
        PROVE  t \notin S /\ s.status[t] = "assigned"
    BY <2>1, <2>2
  <2> QED BY <2>1, <2>2 DEF AssignedKept
<1>5. ASSUME NEW i \in DOMAIN s.waves, PassReview(s, n, i) \/ FailReview(s, n, i)
      PROVE  AssignedKept(s, n)
  <2>1. CASE PassReview(s, n, i)
    <3> DEFINE S == TasksIn(s.waves[i].tasks)
    <3>1. /\ n \in StateType /\ SameWork(s, n) /\ n.phase = s.phase
          /\ n.waves = [s.waves EXCEPT ![i].status = "done"]
          /\ n.status = [t \in Tasks |->
               IF t \in S /\ s.status[t] = "reviewing" THEN "done" ELSE s.status[t]]
          /\ Reviewable(s, i) /\ ReviewPasses(s, i)
      BY <1>1, <2>1, PassReviewEffect
    <3>2. n.assigned_to = s.assigned_to
      BY <3>1 DEF SameWork
    <3> QED BY <3>1, <3>2 DEF AssignedKept
  <2>2. CASE FailReview(s, n, i)
    <3>1. n.assigned_to = s.assigned_to /\ n.status = s.status
      BY <1>1, <2>2, FailReviewEffect DEF SameWork
    <3> QED BY <3>1 DEF AssignedKept
  <2> QED BY <1>5, <2>1, <2>2
<1>6. ASSUME NEW t \in Tasks, NEW report \in Reports, CollectResult(s, n, t, report)
      PROVE  AssignedKept(s, n)
  <2>1. /\ n.status[t] \in {"ready", "reviewing", "failed"}
        /\ \A u \in Tasks \ {t} :
             n.status[u] = s.status[u] /\ n.assigned_to[u] = s.assigned_to[u]
    BY <1>1, <1>6, CollectEffect
  <2> QED BY <2>1 DEF AssignedKept
<1>7. ASSUME NEW t \in Tasks, NEW report \in Reports, NEW from \in Agents,
             IntakeResult(s, n, t, from, report)
      PROVE  AssignedKept(s, n)
  <2>1. /\ n.status[t] \in {"ready", "reviewing", "failed"}
        /\ \A u \in Tasks \ {t} :
             n.status[u] = s.status[u] /\ n.assigned_to[u] = s.assigned_to[u]
    BY <1>1, <1>7, IntakeEffect
  <2> QED BY <2>1 DEF AssignedKept
<1>8. ASSUME NEW live \in LiveSessions, NEW lost \in LostStatuses, Recover(s, n, live, lost)
      PROVE  AssignedKept(s, n)
  <2>1. lost \in {"failed", "ready"}
    BY WorkflowAssumption
  <2>2. /\ n.assigned_to = s.assigned_to
        /\ n.status = ResolveDependencies(LostStatus(s, live, lost))
    BY <1>1, <1>8, <2>1, RecoverEffect DEF SameWork
  <2>3. \A t \in Tasks : LegalMove(s.status, n.status, t)
    BY <1>1, <2>1, <2>2, RecoveryMoves
  <2>4. \A t \in Tasks : n.status[t] = "assigned" => s.status[t] \in {"assigned", "ready"}
    BY <2>3 DEF LegalMove
  <2>5. \A t \in Tasks : s.status[t] = "ready" => n.status[t] # "assigned"
    <3>1. LostStatus(s, live, lost) \in [Tasks -> TaskStatus]
      BY <1>1, <2>1 DEF LostStatus, TaskStatus
    <3> QED BY <1>1, <2>2, <3>1 DEF ResolveDependencies, LostStatus
  <2> QED BY <2>2, <2>4, <2>5 DEF AssignedKept
<1> QED BY <1>2, <1>3, <1>4, <1>5, <1>6, <1>7, <1>8 DEF SavesAtOnce

LEMMA PromiseKept ==
  ASSUME NEW s, Promised(s), AssignedKept(s, wf'), told' = told
  PROVE  Promised(wf)'
BY DEF Promised, AssignedKept

\* A dispatch that has sent all its messages keeps its word.
LEMMA DispatchPromised ==
  ASSUME AllTold, NEW c \in Calls, SaveDispatch(c)
  PROVE  Promised(wf)'
<1> DEFINE s == snapshot[c]
           i == target[c].wave
           nodes == target[c].nodes
           S == Dispatchable(s, i, nodes)
<1>1. /\ s \in StateType /\ Promised(s) /\ told' = told
      /\ DispatchWave(s, wf', i, nodes) /\ Sent(c) = S
  BY DEF AllTold, CallsSound, SaveDispatch, Sent
<1>2. \A t \in S : \A node \in SelectNode(t, nodes) : node \in Agents => told[node][t] > 0
  BY <1>1 DEF AllTold
<1> HIDE DEF S
<1>3. PICK node \in [S -> Agents] :
        /\ \A t \in S : node[t] \in SelectNode(t, nodes)
        /\ wf' = [s EXCEPT
                    !.status = [t \in Tasks |-> IF t \in S THEN "assigned" ELSE @[t]],
                    !.assigned_to = [t \in Tasks |-> IF t \in S THEN node[t] ELSE @[t]]]
  BY <1>1 DEF DispatchWave, S
<1>4. /\ wf'.status = [t \in Tasks |-> IF t \in S THEN "assigned" ELSE s.status[t]]
      /\ wf'.assigned_to = [t \in Tasks |-> IF t \in S THEN node[t] ELSE s.assigned_to[t]]
  BY <1>1, <1>3 DEF StateType
<1>5. ASSUME NEW t \in Tasks, wf'.status[t] = "assigned"
      PROVE  wf'.assigned_to[t] \in Agents /\ told[wf'.assigned_to[t]][t] > 0
  <2>1. CASE t \in S
    BY <1>2, <1>3, <1>4, <2>1
  <2>2. CASE t \notin S
    BY <1>1, <1>4, <1>5, <2>2 DEF Promised
  <2> QED BY <2>1, <2>2
<1> QED BY <1>1, <1>5 DEF Promised

LEMMA LeaveTold ==
  ASSUME AllTold, NEW c \in Calls, Leave(c), told' = told, CallsSound', Promised(wf)'
  PROVE  AllTold'
<1>1. pc'[c] = "idle" /\ snapshot'[c] = InitialState
  BY DEF AllTold, CallsSound, Leave
<1>2. \A t \in Tasks : InitialState.status[t] # "assigned"
  BY DEF InitialState
<1>3. ASSUME NEW d \in Calls
      PROVE  /\ Promised(snapshot[d])'
             /\ \A t \in Sent(d)' : \A node \in SelectNode(t, target'[d].nodes) :
                  node \in Agents => told[node][t] > 0
  <2>1. CASE d = c
    BY <1>1, <1>2, <2>1 DEF Sent, Promised
  <2>2. CASE d # c
    <3>1. /\ pc'[d] = pc[d] /\ snapshot'[d] = snapshot[d]
          /\ target'[d] = target[d] /\ unsent'[d] = unsent[d]
      BY <2>2 DEF AllTold, CallsSound, Leave
    <3>2. Sent(d)' = Sent(d)
      BY <3>1 DEF Sent
    <3> QED BY <3>1, <3>2 DEF AllTold, Promised
  <2> QED BY <2>1, <2>2
<1>4. DOMAIN unsent' = Calls
  BY DEF AllTold, Leave
<1> QED BY <1>3, <1>4 DEF AllTold

LEMMA SendTold ==
  ASSUME AllTold, NEW c \in Calls, NEW t \in Tasks, NEW node \in Agents,
         SendAssignment(c, t, node), CallsSound'
  PROVE  AllTold'
<1>1. /\ told' \in [Agents -> [Tasks -> Nat]] /\ told'[node][t] > 0
      /\ \A a \in Agents, u \in Tasks : told[a][u] > 0 => told'[a][u] > 0
  BY DEF AllTold, SendAssignment
<1>2. UNCHANGED <<wf, pc, snapshot, target>>
  BY DEF SendAssignment
<1>3. Promised(wf)' /\ \A d \in Calls : Promised(snapshot[d])'
  BY <1>1, <1>2 DEF AllTold, Promised
<1>4. ASSUME NEW d \in Calls, NEW u \in Sent(d)', NEW m \in SelectNode(u, target[d].nodes),
             m \in Agents
      PROVE  told'[m][u] > 0
  <2>1. CASE u \in Sent(d)
    <3>1. told[m][u] > 0 /\ u \in Tasks
      <4>1. told[m][u] > 0
        BY <1>4, <2>1 DEF AllTold
      <4>2. /\ pc[d] = "dispatching" /\ snapshot[d] \in StateType
            /\ target[d].wave \in DOMAIN snapshot[d].waves
        BY <2>1 DEF Sent, AllTold, CallsSound, TargetKnown
      <4>3. u \in TasksIn(snapshot[d].waves[target[d].wave].tasks)
        BY <2>1, <4>2 DEF Sent, Dispatchable
      <4> QED BY <4>1, <4>2, <4>3, WaveTypes
    <3> QED BY <1>1, <1>4, <3>1
  <2>2. CASE u \notin Sent(d)
    <3>1. d = c /\ u = t
      BY <1>2, <1>4, <2>2 DEF Sent, SendAssignment, AllTold
    <3>2. target[c].nodes \in SUBSET Agents /\ node \in SelectNode(t, target[c].nodes)
      BY DEF AllTold, CallsSound, TargetType, SendAssignment
    <3>3. m = node
      BY <1>4, <3>1, <3>2, OneNodeSelected
    <3> QED BY <1>1, <3>1, <3>3
  <2> QED BY <2>1, <2>2
<1>5. DOMAIN unsent' = Calls
  BY DEF AllTold, SendAssignment
<1> QED BY <1>1, <1>2, <1>3, <1>4, <1>5 DEF AllTold

LEMMA ToldStep ==
  ASSUME AllTold, [ConcurrentNext]_concurrentVars
  PROVE  AllTold'
<1>1. CallsSound'
  BY ConcurrentStepSound DEF AllTold
<1>2. \A t \in Tasks : InitialState.status[t] # "assigned"
  BY DEF InitialState
<1>3. ASSUME NEW c \in Calls, LoadState(c)
      PROVE  AllTold'
  <2>1. /\ wf' = wf /\ told' = told /\ DOMAIN unsent' = Calls
        /\ \A d \in Calls : snapshot'[d] = wf \/ snapshot'[d] = snapshot[d]
    BY <1>3 DEF LoadState, AllTold, CallsSound
  <2>2. \A d \in Calls : Sent(d)' = Sent(d) /\ target'[d] = target[d]
    BY <1>3 DEF LoadState, AllTold, CallsSound, Sent
  <2>3. Promised(wf)' /\ \A d \in Calls : Promised(snapshot[d])'
    BY <2>1 DEF AllTold, Promised
  <2> QED BY <1>1, <2>1, <2>2, <2>3 DEF AllTold
<1>4. ASSUME NEW c \in Calls, Save(c)
      PROVE  AllTold'
  <2>1. /\ Sound(snapshot[c]) /\ Promised(snapshot[c]) /\ told' = told
        /\ SavesAtOnce(snapshot[c], wf') /\ Leave(c)
    BY <1>4 DEF AllTold, CallsSound, Save
  <2>2. Promised(wf)'
    BY <2>1, SaveAssignsNothing, PromiseKept
  <2> QED BY <1>1, <2>1, <2>2, LeaveTold
<1>5. ASSUME NEW c \in Calls, ReturnUnsaved(c) \/ Crash(c)
      PROVE  AllTold'
  <2>1. wf' = wf /\ told' = told /\ Leave(c)
    BY <1>5 DEF ReturnUnsaved, Crash
  <2>2. Promised(wf)'
    BY <2>1 DEF AllTold, Promised
  <2> QED BY <1>1, <2>1, <2>2, LeaveTold
<1>6. ASSUME NEW c \in Calls, SaveDispatch(c)
      PROVE  AllTold'
  BY <1>1, <1>6, DispatchPromised, LeaveTold DEF SaveDispatch
<1>7. ASSUME NEW c \in Calls, NEW i \in DOMAIN snapshot[c].waves, NEW nodes \in Registries,
             SelectTargets(c, i, nodes)
      PROVE  AllTold'
  <2>1. wf' = wf /\ told' = told /\ snapshot' = snapshot /\ DOMAIN unsent' = Calls
    BY <1>7 DEF SelectTargets, AllTold
  <2>2. Promised(wf)' /\ \A d \in Calls : Promised(snapshot[d])'
    BY <2>1 DEF AllTold, Promised
  <2>3. Sent(c)' = {}
    BY <1>7 DEF SelectTargets, AllTold, CallsSound, Sent
  <2>4. \A d \in Calls \ {c} : Sent(d)' = Sent(d) /\ target'[d] = target[d]
    BY <1>7 DEF SelectTargets, AllTold, CallsSound, Sent
  <2> QED BY <1>1, <2>1, <2>2, <2>3, <2>4 DEF AllTold
<1>8. ASSUME NEW c \in Calls, NEW t \in Tasks, NEW node \in Agents, SendAssignment(c, t, node)
      PROVE  AllTold'
  BY <1>1, <1>8, SendTold
<1>9. CASE Reset
  <2>1. wf' = InitialState /\ told' = told /\ UNCHANGED callVars
    BY <1>9 DEF Reset
  <2>2. Promised(wf)' /\ \A d \in Calls : Promised(snapshot[d])'
    BY <1>2, <2>1 DEF AllTold, Promised, callVars
  <2>3. \A d \in Calls : Sent(d)' = Sent(d)
    BY <2>1 DEF Sent, callVars
  <2> QED BY <1>1, <2>1, <2>2, <2>3 DEF AllTold, callVars
<1>10. CASE UNCHANGED concurrentVars
  <2>1. Promised(wf)' /\ \A d \in Calls : Promised(snapshot[d])'
    BY <1>10 DEF AllTold, Promised, concurrentVars
  <2>2. \A d \in Calls : Sent(d)' = Sent(d)
    BY <1>10 DEF Sent, concurrentVars
  <2> QED BY <1>1, <1>10, <2>1, <2>2 DEF AllTold, concurrentVars
<1> QED BY <1>3, <1>4, <1>5, <1>6, <1>7, <1>8, <1>9, <1>10 DEF ConcurrentNext

\* Whoever is assigned a task has been told, whatever overlapped, was cut off or was
\* reset: a dispatch sends before it saves, and no other save brings an assignment
\* back that was not in the file it was computed from.
THEOREM AssignedNodesAreTold == ConcurrentSpec => []AssignedIsTold
<1>1. ConcurrentInit => AllTold
  <2>1. SUFFICES ASSUME ConcurrentInit PROVE AllTold
    OBVIOUS
  <2>2. \A t \in Tasks : InitialState.status[t] # "assigned"
    BY DEF InitialState
  <2>3. Promised(wf) /\ \A c \in Calls : Promised(snapshot[c]) /\ Sent(c) = {}
    BY <2>1, <2>2 DEF ConcurrentInit, Init, Promised, Sent
  <2> QED BY <2>1, <2>3, ConcurrentInitSound DEF ConcurrentInit, AllTold
<1>2. AllTold /\ [ConcurrentNext]_concurrentVars => AllTold'
  BY ToldStep
<1>3. AllTold => AssignedIsTold
  BY DEF AllTold, Promised, AssignedIsTold
<1> QED BY <1>1, <1>2, <1>3, PTL DEF ConcurrentSpec

-----------------------------------------------------------------------------
(* Types                                                                   *)

ConcurrentTyped ==
  /\ CallsSound
  /\ pc \in [Calls -> {"idle", "loaded", "dispatching"}]
  /\ unsent \in [Calls -> SUBSET Tasks]
  /\ told \in [Agents -> [Tasks -> Nat]]
  /\ trouble \in [Kinds -> Nat]

LEMMA DispatchableTasks ==
  ASSUME NEW s \in StateType, NEW i \in DOMAIN s.waves, NEW nodes
  PROVE  Dispatchable(s, i, nodes) \subseteq Tasks
<1>1. TasksIn(s.waves[i].tasks) \subseteq Tasks
  BY WaveTypes
<1> QED BY <1>1 DEF Dispatchable

LEMMA TypedStep ==
  ASSUME ConcurrentTyped, [ConcurrentNext]_concurrentVars
  PROVE  ConcurrentTyped'
<1>1. CallsSound'
  BY ConcurrentStepSound DEF ConcurrentTyped
<1>2. SUFFICES /\ pc' \in [Calls -> {"idle", "loaded", "dispatching"}]
               /\ unsent' \in [Calls -> SUBSET Tasks]
               /\ told' \in [Agents -> [Tasks -> Nat]]
               /\ trouble' \in [Kinds -> Nat]
  BY <1>1 DEF ConcurrentTyped
<1>3. \A k \in Kinds : Note(k) => trouble' \in [Kinds -> Nat]
  BY NoteCounts DEF ConcurrentTyped
<1>4. ASSUME NEW c \in Calls, LoadState(c)
      PROVE  /\ pc' \in [Calls -> {"idle", "loaded", "dispatching"}]
             /\ unsent' = unsent /\ told' = told /\ trouble' \in [Kinds -> Nat]
  BY <1>3, <1>4 DEF ConcurrentTyped, LoadState, Kinds
<1>5. ASSUME NEW c \in Calls, Leave(c)
      PROVE  /\ pc' \in [Calls -> {"idle", "loaded", "dispatching"}]
             /\ unsent' \in [Calls -> SUBSET Tasks]
  BY <1>5 DEF ConcurrentTyped, Leave
<1>6. ASSUME NEW c \in Calls, NEW i \in DOMAIN snapshot[c].waves, NEW nodes \in Registries,
             SelectTargets(c, i, nodes)
      PROVE  /\ pc' \in [Calls -> {"idle", "loaded", "dispatching"}]
             /\ unsent' \in [Calls -> SUBSET Tasks] /\ told' = told /\ trouble' = trouble
  <2>1. Dispatchable(snapshot[c], i, nodes) \subseteq Tasks
    BY DispatchableTasks DEF ConcurrentTyped, CallsSound
  <2> QED BY <1>6, <2>1 DEF ConcurrentTyped, SelectTargets
<1>7. ASSUME NEW c \in Calls, NEW t \in Tasks, NEW node \in Agents, SendAssignment(c, t, node)
      PROVE  /\ pc' = pc /\ unsent' \in [Calls -> SUBSET Tasks]
             /\ told' \in [Agents -> [Tasks -> Nat]] /\ trouble' = trouble
  BY <1>7 DEF ConcurrentTyped, SendAssignment
<1>8. CASE \E c \in Calls : Save(c) \/ ReturnUnsaved(c) \/ SaveDispatch(c)
  BY <1>5, <1>8 DEF ConcurrentTyped, Save, ReturnUnsaved, SaveDispatch
<1>9. CASE \E c \in Calls : Crash(c)
  BY <1>3, <1>5, <1>9 DEF ConcurrentTyped, Crash, Kinds
<1>10. CASE Reset
  BY <1>3, <1>10 DEF ConcurrentTyped, Reset, callVars, Kinds
<1>11. CASE UNCHANGED concurrentVars
  BY <1>11 DEF ConcurrentTyped, concurrentVars
<1> QED BY <1>4, <1>6, <1>7, <1>8, <1>9, <1>10, <1>11 DEF ConcurrentNext, ConcurrentTyped

LEMMA TypedAlways == ConcurrentSpec => []ConcurrentTyped
<1>1. ConcurrentInit => ConcurrentTyped
  BY ConcurrentInitSound DEF ConcurrentInit, ConcurrentTyped
<1>2. ConcurrentTyped /\ [ConcurrentNext]_concurrentVars => ConcurrentTyped'
  BY TypedStep
<1> QED BY <1>1, <1>2, PTL DEF ConcurrentSpec

\* Calls keep to their steps and hold states the interfaces allow, whatever overlaps, is
\* cut off or is reset (cli.ts, inbound_server.ts, dispatch_wave.ts).
THEOREM ConcurrentTypeCorrect == ConcurrentSpec => []ConcurrentTypeOK
<1>1. ConcurrentTyped => ConcurrentTypeOK
  BY DEF ConcurrentTyped, CallsSound, Sound, TargetType, ConcurrentTypeOK
<1> QED BY <1>1, TypedAlways, PTL

-----------------------------------------------------------------------------
(* Once per attempt                                                        *)

\* The statuses of a task whose present attempt a message has been sent for.
Attempted == {"assigned", "reviewing", "done", "failed"}

\* A handler takes a task back from these only with a retry, and forgets no retry.
AttemptsCounted(s, n) ==
  \A t \in Tasks :
    \/ n.retry_count[t] = s.retry_count[t] + 1
    \/ n.retry_count[t] = s.retry_count[t] /\ (s.status[t] \in Attempted => n.status[t] \in Attempted)

LEMMA ResolutionKeepsAttempts ==
  ASSUME NEW st \in [Tasks -> TaskStatus], DependenciesKept(st), NEW t \in Tasks,
         st[t] \in Attempted
  PROVE  ResolveDependencies(st)[t] = st[t]
BY ResolutionMoves DEF Attempted

\* What a report does to the retries.
LEMMA ReportCountsAttempts ==
  ASSUME NEW s \in StateType, NEW n, NEW t \in Tasks, NEW report \in Reports,
         CollectResult(s, n, t, report)
  PROVE  /\ n.status[t] = "ready" => n.retry_count[t] = s.retry_count[t] + 1
         /\ n.status[t] # "ready" => n.retry_count[t] = s.retry_count[t]
         /\ \A u \in Tasks \ {t} : n.retry_count[u] = s.retry_count[u]
<1> DEFINE next == StatusAfter(s, t, report)
           count == IF next = "ready" THEN s.retry_count[t] + 1 ELSE s.retry_count[t]
<1>1. /\ n.status = [s.status EXCEPT ![t] = next]
      /\ n.retry_count = [s.retry_count EXCEPT ![t] = count]
  BY DEF CollectResult, StateType
<1>2. s.status \in [Tasks -> TaskStatus] /\ s.retry_count \in [Tasks -> Nat]
  BY DEF StateType
<1> HIDE DEF next
<1>3. /\ n.status[t] = next /\ n.retry_count[t] = count
      /\ \A u \in Tasks \ {t} : n.retry_count[u] = s.retry_count[u]
  BY <1>1, <1>2
<1> QED BY <1>3

LEMMA SaveCountsAttempts ==
  ASSUME NEW s, NEW n, Sound(s), SavesAtOnce(s, n)
  PROVE  AttemptsCounted(s, n)
<1>1. s \in StateType /\ DependenciesKept(s.status) /\ s.status \in [Tasks -> TaskStatus]
  BY DEF Sound, DependenciesKept, StateType
<1>2. CASE StartWave(s, n) \/ SkipWave(s, n)
  <2>1. n.status = ResolveDependencies(s.status)
    BY <1>1, <1>2, StartWaveEffect, SkipWaveEffect
  <2>2. n.retry_count = s.retry_count
    BY <1>1, <1>2 DEF StartWave, SkipWave, StateType
  <2> QED BY <1>1, <2>1, <2>2, ResolutionKeepsAttempts DEF AttemptsCounted
<1>3. CASE CompleteWorkflow(s, n)
  BY <1>1, <1>3 DEF CompleteWorkflow, StateType, AttemptsCounted
<1>4. ASSUME NEW i \in DOMAIN s.waves, AssignWorkers(s, n, i)
      PROVE  AttemptsCounted(s, n)
  <2> DEFINE S == TasksIn(s.waves[i].tasks)
  <2>1. /\ \A t \in S : s.status[t] = "ready"
        /\ n.status = [t \in Tasks |-> IF t \in S THEN "running" ELSE s.status[t]]
        /\ n.retry_count = s.retry_count
    BY <1>1, <1>4 DEF AssignWorkers, StateType
  <2> QED BY <2>1 DEF AttemptsCounted, Attempted
<1>5. ASSUME NEW i \in DOMAIN s.waves, PassReview(s, n, i)
      PROVE  AttemptsCounted(s, n)
  <2> DEFINE S == TasksIn(s.waves[i].tasks)
  <2>1. /\ n.status = [t \in Tasks |->
             IF t \in S /\ s.status[t] = "reviewing" THEN "done" ELSE s.status[t]]
        /\ n.retry_count = s.retry_count
    BY <1>1, <1>5 DEF PassReview, StateType
  <2> QED BY <2>1 DEF AttemptsCounted, Attempted
<1>6. ASSUME NEW i \in DOMAIN s.waves, FailReview(s, n, i)
      PROVE  AttemptsCounted(s, n)
  BY <1>1, <1>6 DEF FailReview, StateType, AttemptsCounted
<1>7. ASSUME NEW t \in Tasks, NEW report \in Reports, CollectResult(s, n, t, report)
      PROVE  AttemptsCounted(s, n)
  <2>1. /\ s.status[t] = "running" /\ n.status[t] \in {"ready", "reviewing", "failed"}
        /\ \A u \in Tasks \ {t} : n.status[u] = s.status[u]
    BY <1>1, <1>7, CollectEffect
  <2> QED BY <1>1, <1>7, <2>1, ReportCountsAttempts DEF AttemptsCounted, Attempted
<1>8. ASSUME NEW t \in Tasks, NEW report \in Reports, NEW from \in Agents,
             IntakeResult(s, n, t, from, report)
      PROVE  AttemptsCounted(s, n)
  <2>1. /\ n.status[t] \in {"ready", "reviewing", "failed"}
        /\ \A u \in Tasks \ {t} : n.status[u] = s.status[u]
    BY <1>1, <1>8, IntakeEffect
  <2>2. PICK m : /\ m = IF s.status[t] = "assigned" THEN MarkAssignedTaskRunning(s, t) ELSE s
                 /\ CollectResult(m, n, t, report)
    BY <1>8 DEF IntakeResult
  <2>3. s.assigned_to[t] \in Agents
    BY <1>8 DEF IntakeResult
  <2>4. m \in StateType
    BY <1>1, <2>2, <2>3, MarkEffect
  <2>5. m.retry_count = s.retry_count
    BY <1>1, <2>2 DEF MarkAssignedTaskRunning, StateType
  <2>6. /\ n.status[t] = "ready" => n.retry_count[t] = s.retry_count[t] + 1
        /\ n.status[t] # "ready" => n.retry_count[t] = s.retry_count[t]
        /\ \A u \in Tasks \ {t} : n.retry_count[u] = s.retry_count[u]
    BY <2>2, <2>4, <2>5, ReportCountsAttempts
  <2> QED BY <2>1, <2>6 DEF AttemptsCounted, Attempted
<1>9. ASSUME NEW live \in LiveSessions, NEW lost \in LostStatuses, Recover(s, n, live, lost)
      PROVE  AttemptsCounted(s, n)
  <2> DEFINE ls == LostStatus(s, live, lost)
  <2>1. lost \in {"failed", "ready"}
    BY WorkflowAssumption
  <2>2. n.status = ResolveDependencies(ls)
    BY <1>1, <1>9, <2>1, RecoverEffect
  <2>3. n.retry_count = s.retry_count
    BY <1>1, <1>9 DEF Recover, StateType
  <2>4. \A t \in Tasks : LegalMove(s.status, n.status, t)
    BY <1>1, <2>1, <2>2, RecoveryMoves
  <2>5. ASSUME NEW t \in Tasks, s.status[t] = "assigned"
        PROVE  n.status[t] # "ready"
    <3>1. ls[t] = "assigned" /\ ls \in [Tasks -> TaskStatus]
      BY <1>1, <2>1, <2>5 DEF LostStatus, TaskStatus
    <3> HIDE DEF ls
    <3> QED BY <2>2, <3>1 DEF ResolveDependencies
  <2> QED BY <2>3, <2>4, <2>5 DEF AttemptsCounted, Attempted, LegalMove
<1> QED BY <1>2, <1>3, <1>4, <1>5, <1>6, <1>7, <1>8, <1>9 DEF SavesAtOnce

\* The messages a dispatch has yet to send are for tasks it will assign.
UnsentPlanned ==
  \A c \in Calls : pc[c] = "dispatching" =>
    unsent[c] \subseteq Dispatchable(snapshot[c], target[c].wave, target[c].nodes)

\* How often t may have been told of.
Counts(t) == wf.status[t] \in Attempted \/ \E c \in Calls : t \in Sent(c)
Due(t) == wf.retry_count[t] + (IF Counts(t) THEN 1 ELSE 0)
NobodyToldTwice == \A t \in Tasks : TimesTold(t) <= Due(t)

AttemptsSound ==
  /\ ConcurrentTyped /\ Serial /\ UnsentPlanned
  /\ Troubles = 0 => NobodyToldTwice

\* As long as there was no trouble, none is noted and nobody is disturbed.
LEMMA NoTroubleYet ==
  ASSUME trouble \in [Kinds -> Nat], trouble' \in [Kinds -> Nat], Troubles' = 0
  PROVE  /\ \A k \in Kinds : ~Note(k)
         /\ trouble' = trouble => Troubles = 0
         /\ Undisturbed'
<1>1. /\ trouble'["overlap"] \in Nat /\ trouble'["crash"] \in Nat /\ trouble'["reset"] \in Nat
      /\ trouble'["overlap"] + trouble'["crash"] + trouble'["reset"] = 0
  BY DEF Kinds, Troubles
<1>2. \A k \in Kinds : trouble'[k] = 0
  BY <1>1 DEF Kinds
<1>3. \A k \in Kinds : ~Note(k)
  BY <1>2, NoteCounts
<1> QED BY <1>2, <1>3 DEF Kinds, Undisturbed, Troubles

LEMMA TimesToldType ==
  ASSUME told \in [Agents -> [Tasks -> Nat]], NEW t \in Tasks
  PROVE  /\ TimesTold(t) = SumFunctionOnSet([n \in Agents |-> told[n][t]], Agents)
         /\ TimesTold(t) \in Nat
<1>1. TimesTold(t) = SumFunctionOnSet([n \in Agents |-> told[n][t]], Agents)
  BY DEF TimesTold, SumFunction
<1>2. \A n \in Agents : [m \in Agents |-> told[m][t]][n] \in Nat
  OBVIOUS
<1> QED BY <1>1, <1>2, PlanAssumption, SumOfNaturals

\* A message counts for its task and for no other.
LEMMA SendCounts ==
  ASSUME ConcurrentTyped, NEW c \in Calls, NEW t \in Tasks, NEW node \in Agents,
         SendAssignment(c, t, node)
  PROVE  /\ TimesTold(t)' = TimesTold(t) + 1
         /\ \A u \in Tasks \ {t} : TimesTold(u)' = TimesTold(u)
<1>1. /\ told \in [Agents -> [Tasks -> Nat]] /\ told' \in [Agents -> [Tasks -> Nat]]
      /\ told'[node][t] = told[node][t] + 1
      /\ \A n \in Agents, u \in Tasks : n # node \/ u # t => told'[n][u] = told[n][u]
  BY DEF ConcurrentTyped, SendAssignment
<1>2. \A u \in Tasks :
        /\ TimesTold(u) = SumFunctionOnSet([n \in Agents |-> told[n][u]], Agents)
        /\ TimesTold(u)' = SumFunctionOnSet([n \in Agents |-> told'[n][u]], Agents)
  BY DEF TimesTold, SumFunction
<1>3. TimesTold(t)' = TimesTold(t) + 1
  <2> DEFINE f == [n \in Agents |-> told[n][t]]
             g == [n \in Agents |-> told'[n][t]]
  <2>1. /\ \A n \in Agents : f[n] \in Int
        /\ g[node] = f[node] + 1 /\ \A n \in Agents \ {node} : g[n] = f[n]
    BY <1>1
  <2>2. TimesTold(t) = SumFunctionOnSet(f, Agents) /\ TimesTold(t)' = SumFunctionOnSet(g, Agents)
    BY <1>2
  <2> HIDE DEF f, g
  <2> QED BY <2>1, <2>2, PlanAssumption, SumOneMore
<1>4. ASSUME NEW u \in Tasks \ {t}
      PROVE  TimesTold(u)' = TimesTold(u)
  <2>1. [n \in Agents |-> told'[n][u]] = [n \in Agents |-> told[n][u]]
    BY <1>1
  <2> QED BY <1>2, <2>1
<1> QED BY <1>3, <1>4

LEMMA DueType ==
  ASSUME wf.retry_count \in [Tasks -> Nat], NEW t \in Tasks
  PROVE  Due(t) \in Nat
BY DEF Due

\* What a lone call may do to the attempts without telling anybody.
LEMMA SilentStep ==
  ASSUME wf \in StateType, told' = told, NobodyToldTwice,
         \A t \in Tasks :
           \/ wf'.retry_count[t] = wf.retry_count[t] + 1
           \/ wf'.retry_count[t] = wf.retry_count[t] /\ (Counts(t) => Counts(t)'),
         told \in [Agents -> [Tasks -> Nat]]
  PROVE  NobodyToldTwice'
<1>1. ASSUME NEW t \in Tasks
      PROVE  TimesTold(t)' <= Due(t)'
  <2>1. TimesTold(t)' = TimesTold(t) /\ TimesTold(t) \in Nat /\ TimesTold(t) <= Due(t)
    BY TimesToldType DEF TimesTold, NobodyToldTwice
  <2>2. wf.retry_count[t] \in Nat
    BY DEF StateType
  <2>3. Due(t) = wf.retry_count[t] + (IF Counts(t) THEN 1 ELSE 0)
    BY DEF Due
  <2>4. Due(t)' = wf'.retry_count[t] + (IF Counts(t)' THEN 1 ELSE 0)
    BY DEF Due
  <2>5. Due(t) <= Due(t)'
    BY <2>2, <2>3, <2>4
  <2>6. Due(t) \in Nat /\ Due(t)' \in Nat
    BY <2>2, <2>3, <2>4
  <2> QED BY <2>1, <2>5, <2>6
<1> QED BY <1>1 DEF NobodyToldTwice

\* A lone call that leaves has told of no task that does not count afterwards.
LEMMA LoneLeave ==
  ASSUME AttemptsSound, NEW c \in UnderWay, Leave(c), Undisturbed, NEW t \in Tasks, Counts(t)
  PROVE  wf.status[t] \in Attempted \/ t \in Sent(c)
<1>1. \A d \in Calls : t \in Sent(d) => d = c
  BY DEF AttemptsSound, Serial, Sent, UnderWay
<1> QED BY <1>1 DEF Counts

LEMMA NobodyTwiceStep ==
  ASSUME AttemptsSound, [ConcurrentNext]_concurrentVars, Troubles' = 0
  PROVE  NobodyToldTwice'
<1>1. ConcurrentTyped /\ ConcurrentTyped' /\ Serial /\ UnsentPlanned
  BY TypedStep DEF AttemptsSound
<1>2. /\ wf \in StateType /\ told \in [Agents -> [Tasks -> Nat]]
      /\ trouble \in [Kinds -> Nat] /\ trouble' \in [Kinds -> Nat]
  BY <1>1 DEF ConcurrentTyped, CallsSound, Sound
<1>3. \A k \in Kinds : ~Note(k)
  BY <1>2, NoTroubleYet
<1>4. trouble' = trouble
  BY <1>3 DEF ConcurrentNext, LoadState, Save, ReturnUnsaved, SaveDispatch, Crash,
              SelectTargets, SendAssignment, Reset, concurrentVars, Kinds
<1>5. Troubles = 0 /\ NobodyToldTwice /\ Undisturbed
  BY <1>2, <1>4, NoTroubleYet DEF AttemptsSound, Undisturbed
<1>6. ASSUME NEW c \in Calls, LoadState(c)
      PROVE  NobodyToldTwice'
  <2>1. wf' = wf /\ told' = told /\ \A d \in Calls : Sent(d)' = Sent(d)
    BY <1>1, <1>6 DEF LoadState, Sent, ConcurrentTyped, CallsSound
  <2>2. \A t \in Tasks : wf'.retry_count[t] = wf.retry_count[t] /\ (Counts(t) => Counts(t)')
    BY <2>1 DEF Counts
  <2> QED BY <1>2, <1>5, <2>1, <2>2, SilentStep
<1>7. ASSUME NEW c \in Calls, Save(c)
      PROVE  NobodyToldTwice'
  <2>1. c \in UnderWay /\ Leave(c) /\ told' = told /\ snapshot[c] = wf /\ Sent(c) = {}
    BY <1>1, <1>5, <1>7 DEF Save, UnderWay, Serial, Sent
  <2>2. AttemptsCounted(wf, wf')
    BY <1>1, <1>7, <2>1, SaveCountsAttempts DEF Save, ConcurrentTyped, CallsSound
  <2>3. \A t \in Tasks : Counts(t) => wf.status[t] \in Attempted
    BY <1>5, <2>1, LoneLeave
  <2>4. \A t \in Tasks :
          \/ wf'.retry_count[t] = wf.retry_count[t] + 1
          \/ wf'.retry_count[t] = wf.retry_count[t] /\ (Counts(t) => Counts(t)')
    BY <2>2, <2>3 DEF AttemptsCounted, Counts
  <2> QED BY <1>2, <1>5, <2>1, <2>4, SilentStep
<1>8. ASSUME NEW c \in Calls, ReturnUnsaved(c)
      PROVE  NobodyToldTwice'
  <2>1. c \in UnderWay /\ Leave(c) /\ told' = told /\ wf' = wf /\ Sent(c) = {}
    BY <1>8 DEF ReturnUnsaved, UnderWay, Sent
  <2>2. \A t \in Tasks : Counts(t) => wf.status[t] \in Attempted
    BY <1>5, <2>1, LoneLeave
  <2>3. \A t \in Tasks : wf'.retry_count[t] = wf.retry_count[t] /\ (Counts(t) => Counts(t)')
    BY <2>1, <2>2 DEF Counts
  <2> QED BY <1>2, <1>5, <2>1, <2>3, SilentStep
<1>9. ASSUME NEW c \in Calls, SaveDispatch(c)
      PROVE  NobodyToldTwice'
  <2> DEFINE S == Dispatchable(wf, target[c].wave, target[c].nodes)
  <2>1. /\ c \in UnderWay /\ Leave(c) /\ told' = told /\ snapshot[c] = wf
        /\ DispatchWave(wf, wf', target[c].wave, target[c].nodes) /\ Sent(c) = S
    BY <1>1, <1>5, <1>9 DEF SaveDispatch, UnderWay, Serial, Sent
  <2>2. /\ wf'.status = [t \in Tasks |-> IF t \in S THEN "assigned" ELSE wf.status[t]]
        /\ wf'.retry_count = wf.retry_count
    BY <1>2, <2>1 DEF DispatchWave, StateType
  <2> HIDE DEF S
  <2>3. \A t \in Tasks : Counts(t) => wf.status[t] \in Attempted \/ t \in S
    BY <1>5, <2>1, LoneLeave
  <2>4. \A t \in Tasks : Counts(t) => wf'.status[t] \in Attempted
    BY <2>2, <2>3 DEF Attempted
  <2>5. \A t \in Tasks : wf'.retry_count[t] = wf.retry_count[t] /\ (Counts(t) => Counts(t)')
    BY <2>2, <2>4 DEF Counts
  <2> QED BY <1>2, <1>5, <2>1, <2>5, SilentStep
<1>10. ASSUME NEW c \in Calls, NEW i \in DOMAIN snapshot[c].waves, NEW nodes \in Registries,
              SelectTargets(c, i, nodes)
       PROVE  NobodyToldTwice'
  <2>1. wf' = wf /\ told' = told /\ Sent(c) = {}
    BY <1>10 DEF SelectTargets, Sent
  <2>2. \A d \in Calls \ {c} : Sent(d)' = Sent(d)
    BY <1>1, <1>10 DEF SelectTargets, Sent, ConcurrentTyped, CallsSound
  <2>3. \A t \in Tasks : wf'.retry_count[t] = wf.retry_count[t] /\ (Counts(t) => Counts(t)')
    BY <2>1, <2>2 DEF Counts
  <2> QED BY <1>2, <1>5, <2>1, <2>3, SilentStep
<1>11. ASSUME NEW c \in Calls, NEW t \in Tasks, NEW node \in Agents, SendAssignment(c, t, node)
       PROVE  NobodyToldTwice'
  <2>1. /\ c \in UnderWay /\ pc[c] = "dispatching" /\ t \in unsent[c]
        /\ UNCHANGED <<wf, pc, snapshot, target>>
        /\ unsent' = [unsent EXCEPT ![c] = unsent[c] \ {t}]
    BY <1>11 DEF SendAssignment, UnderWay
  <2>2. \A d \in Calls : Sent(d) \subseteq Sent(d)'
    BY <1>1, <2>1 DEF Sent, ConcurrentTyped
  <2>3. t \in Dispatchable(snapshot[c], target[c].wave, target[c].nodes) /\ snapshot[c] = wf
    BY <1>1, <1>5, <2>1 DEF UnsentPlanned, Serial
  <2>4. wf.status[t] = "ready"
    BY <2>3 DEF Dispatchable
  <2>5. t \notin Sent(c) /\ t \in Sent(c)'
    BY <1>1, <2>1, <2>3 DEF Sent, ConcurrentTyped
  <2>6. \A d \in Calls : t \in Sent(d) => d = c
    BY <1>1, <1>5, <2>1 DEF Serial, Sent, UnderWay
  <2>7. ~Counts(t) /\ Counts(t)' /\ \A u \in Tasks : Counts(u) => Counts(u)'
    BY <2>1, <2>2, <2>4, <2>5, <2>6 DEF Counts, Attempted
  <2>8. ASSUME NEW u \in Tasks
        PROVE  TimesTold(u)' <= Due(u)'
    <3>1. wf.retry_count[u] \in Nat /\ wf'.retry_count[u] = wf.retry_count[u]
      BY <1>2, <2>1 DEF StateType
    <3>2. TimesTold(u) \in Nat /\ TimesTold(u) <= Due(u)
      BY <1>2, <1>5, TimesToldType DEF NobodyToldTwice
    <3>3. Due(u) = wf.retry_count[u] + (IF Counts(u) THEN 1 ELSE 0)
      BY DEF Due
    <3>4. Due(u)' = wf'.retry_count[u] + (IF Counts(u)' THEN 1 ELSE 0)
      BY DEF Due
    <3>5. CASE u = t
      BY <1>1, <1>11, <2>7, <3>1, <3>2, <3>3, <3>4, <3>5, SendCounts
    <3>6. CASE u # t
      <4>1. TimesTold(u)' = TimesTold(u)
        BY <1>1, <1>11, <3>6, SendCounts
      <4> QED BY <2>7, <3>1, <3>2, <3>3, <3>4, <4>1
    <3> QED BY <3>5, <3>6
  <2> QED BY <2>8 DEF NobodyToldTwice
<1>12. ~Reset /\ \A c \in Calls : ~Crash(c)
  BY <1>3 DEF Reset, Crash, Kinds
<1>13. CASE UNCHANGED concurrentVars
  <2>1. wf' = wf /\ told' = told /\ \A d \in Calls : Sent(d)' = Sent(d)
    BY <1>13 DEF concurrentVars, Sent
  <2>2. \A t \in Tasks : wf'.retry_count[t] = wf.retry_count[t] /\ (Counts(t) => Counts(t)')
    BY <2>1 DEF Counts
  <2> QED BY <1>2, <1>5, <2>1, <2>2, SilentStep
<1> QED BY <1>6, <1>7, <1>8, <1>9, <1>10, <1>11, <1>12, <1>13 DEF ConcurrentNext

LEMMA UnsentPlannedStep ==
  ASSUME ConcurrentTyped, UnsentPlanned, [ConcurrentNext]_concurrentVars
  PROVE  UnsentPlanned'
<1>1. ASSUME NEW c \in Calls, LoadState(c)
      PROVE  UnsentPlanned'
  BY <1>1 DEF LoadState, UnsentPlanned, ConcurrentTyped, CallsSound
<1>2. ASSUME NEW c \in Calls, Leave(c)
      PROVE  UnsentPlanned'
  BY <1>2 DEF Leave, UnsentPlanned, ConcurrentTyped, CallsSound
<1>3. ASSUME NEW c \in Calls, NEW i \in DOMAIN snapshot[c].waves, NEW nodes \in Registries,
             SelectTargets(c, i, nodes)
      PROVE  UnsentPlanned'
  BY <1>3 DEF SelectTargets, UnsentPlanned, ConcurrentTyped, CallsSound
<1>4. ASSUME NEW c \in Calls, NEW t \in Tasks, NEW node \in Agents, SendAssignment(c, t, node)
      PROVE  UnsentPlanned'
  BY <1>4 DEF SendAssignment, UnsentPlanned, ConcurrentTyped
<1>5. CASE Reset \/ UNCHANGED concurrentVars
  BY <1>5 DEF Reset, callVars, concurrentVars, UnsentPlanned
<1> QED BY <1>1, <1>2, <1>3, <1>4, <1>5
        DEF ConcurrentNext, Save, ReturnUnsaved, SaveDispatch, Crash

\* As long as nothing overlaps, is cut off or is reset, nobody is told twice of one attempt
\* at a task: dispatches may be repeated, and reports and retries may come between any two
\* (dispatch_wave.ts selectDispatchTargets, intake_result.ts, retry_policy.ts).
THEOREM NobodyIsToldTwice == ConcurrentSpec => []ToldOncePerAttempt
<1>1. ConcurrentInit => AttemptsSound
  <2>1. SUFFICES ASSUME ConcurrentInit PROVE AttemptsSound
    OBVIOUS
  <2>2. ConcurrentTyped
    BY <2>1, ConcurrentInitSound DEF ConcurrentInit, ConcurrentTyped
  <2>3. Serial /\ UnsentPlanned
    BY <2>1 DEF ConcurrentInit, Serial, UnsentPlanned, Kinds, UnderWay, Undisturbed
  <2>4. ASSUME NEW t \in Tasks
        PROVE  TimesTold(t) <= Due(t)
    <3>1. told \in [Agents -> [Tasks -> Nat]] /\ \A n \in Agents : told[n][t] = 0
      BY <2>1 DEF ConcurrentInit
    <3>2. TimesTold(t) = SumFunctionOnSet([n \in Agents |-> told[n][t]], Agents)
      BY <3>1, TimesToldType
    <3>3. \A n \in Agents : [m \in Agents |-> told[m][t]][n] = 0
      BY <3>1
    <3>4. TimesTold(t) = 0
      BY <3>2, <3>3, PlanAssumption, SumOfZeros
    <3>5. Due(t) \in Nat
      BY <2>1, DueType DEF ConcurrentInit, Init, InitialState
    <3> QED BY <3>4, <3>5
  <2> QED BY <2>2, <2>3, <2>4 DEF AttemptsSound, NobodyToldTwice
<1>2. AttemptsSound /\ [ConcurrentNext]_concurrentVars => AttemptsSound'
  BY TypedStep, SerialStep, UnsentPlannedStep, NobodyTwiceStep DEF AttemptsSound
<1>3. AttemptsSound => ToldOncePerAttempt
  BY DEF AttemptsSound, NobodyToldTwice, Due, Counts, Attempted, ToldOncePerAttempt
<1> QED BY <1>1, <1>2, <1>3, PTL DEF ConcurrentSpec
===============================================================================
