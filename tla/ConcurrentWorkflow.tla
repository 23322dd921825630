-------------------------- MODULE ConcurrentWorkflow --------------------------
(***************************************************************************)
(* The same handlers as in Workflow, now as they really run: CLI processes *)
(* and requests of the HTTP server, none of which waits for another.  A    *)
(* call loads state.json, computes on that snapshot, and saves the whole   *)
(* result over whatever the file holds by then.  A dispatch awaits once    *)
(* more in between: it sends its TASK_ASSIGNED messages one by one before  *)
(* it saves.  A call may be cut off at any of these points, and init or    *)
(* bootstrap may replace the file by that of a fresh workflow.             *)
(* Loading and saving are one step each; StateStore takes them apart.      *)
(***************************************************************************)
EXTENDS Workflow

CONSTANTS
  Calls,       \* as many calls can be under way at once
  MaxTroubles  \* how many overlaps, crashes and resets a behaviour may have

ASSUME ConcurrencyAssumption == MaxTroubles \in Nat

VARIABLES
  pc,        \* pc[c]: what the call is about to do
  snapshot,  \* snapshot[c]: the state it has loaded
  target,    \* target[c]: the wave a dispatch is for, and the active nodes it found
  unsent,    \* unsent[c]: the tasks whose message a dispatch has yet to send
  told,      \* told[n][t]: the TASK_ASSIGNED lines for t in the inbox of node n
  trouble    \* how often calls overlapped, were cut off, or were reset
callVars == <<pc, snapshot, target, unsent>>
concurrentVars == <<wf, pc, snapshot, target, unsent, told, trouble>>

\* The kinds of trouble, and NoTarget, what a call that dispatches nothing has.
Kinds == {"overlap", "crash", "reset"}
NoTarget == [wave |-> 0, nodes |-> {}]

ConcurrentTypeOK ==
  /\ wf \in StateType
  /\ pc \in [Calls -> {"idle", "loaded", "dispatching"}]
  /\ snapshot \in [Calls -> StateType]
  /\ target \in [Calls -> [wave : Nat, nodes : SUBSET Agents]]
  /\ unsent \in [Calls -> SUBSET Tasks]
  /\ told \in [Agents -> [Tasks -> Nat]]
  /\ trouble \in [Kinds -> Nat]

ConcurrentInit ==
  /\ Init
  /\ pc = [c \in Calls |-> "idle"]
  /\ snapshot = [c \in Calls |-> InitialState]
  /\ target = [c \in Calls |-> NoTarget]
  /\ unsent = [c \in Calls |-> {}]
  /\ told = [n \in Agents |-> [t \in Tasks |-> 0]]
  /\ trouble = [k \in Kinds |-> 0]

-----------------------------------------------------------------------------

Troubles == trouble["overlap"] + trouble["crash"] + trouble["reset"]
Note(kind) ==
  /\ Troubles < MaxTroubles
  /\ trouble' = [trouble EXCEPT ![kind] = @ + 1]

UnderWay == {c \in Calls : pc[c] # "idle"}

\* A call is over, whether it saved or not.
Leave(c) ==
  /\ pc' = [pc EXCEPT ![c] = "idle"]
  /\ snapshot' = [snapshot EXCEPT ![c] = InitialState]
  /\ target' = [target EXCEPT ![c] = NoTarget]
  /\ unsent' = [unsent EXCEPT ![c] = {}]

\* Mutant: the file is read once, when the server starts.
LoadStateOnce(c) ==
  /\ pc[c] = "idle"
  /\ pc' = [pc EXCEPT ![c] = "loaded"]
  /\ IF UnderWay = {} THEN UNCHANGED trouble ELSE Note("overlap")
  /\ UNCHANGED <<wf, snapshot, target, unsent, told>>

\* The request arrives or the process starts, and loadState returns.
LoadState(c) ==
  /\ pc[c] = "idle"
  /\ pc' = [pc EXCEPT ![c] = "loaded"]
  /\ snapshot' = [snapshot EXCEPT ![c] = wf]
  /\ IF UnderWay = {} THEN UNCHANGED trouble ELSE Note("overlap")
  /\ UNCHANGED <<wf, target, unsent, told>>

\* The handlers that save their result right after it is computed.
SavesAtOnce(s, n) ==
  \/ StartWave(s, n) \/ SkipWave(s, n) \/ CompleteWorkflow(s, n)
  \/ \E i \in DOMAIN s.waves : AssignWorkers(s, n, i) \/ PassReview(s, n, i) \/ FailReview(s, n, i)
  \/ \E t \in Tasks, report \in Reports :
       \/ CollectResult(s, n, t, report)
       \/ \E from \in Agents : IntakeResult(s, n, t, from, report)
  \/ \E live \in LiveSessions, lost \in LostStatuses : Recover(s, n, live, lost)

Save(c) ==
  /\ pc[c] = "loaded"
  /\ SavesAtOnce(snapshot[c], wf')
  /\ Leave(c)
  /\ UNCHANGED <<told, trouble>>

\* The call throws or finds nothing to do: an unknown wave, a report of the wrong node.
ReturnUnsaved(c) ==
  /\ pc[c] = "loaded"
  /\ Leave(c)
  /\ UNCHANGED <<wf, told, trouble>>

\* dispatchWorkflowWave loads the registry, and selects a node for every ready task.
SelectTargets(c, i, nodes) ==
  /\ pc[c] = "loaded"
  /\ i \in DOMAIN snapshot[c].waves
  /\ Dispatchable(snapshot[c], i, nodes) # {}
  /\ pc' = [pc EXCEPT ![c] = "dispatching"]
  /\ target' = [target EXCEPT ![c] = [wave |-> i, nodes |-> nodes]]
  /\ unsent' = [unsent EXCEPT ![c] = Dispatchable(snapshot[c], i, nodes)]
  /\ UNCHANGED <<wf, snapshot, told, trouble>>

\* sendMessage returns: the line is in the inbox of the node selected for t.  So is one
\* in the outbox of the coordinator, which nothing reads back and is left out.
SendAssignment(c, t, node) ==
  /\ pc[c] = "dispatching"
  /\ t \in unsent[c]
  /\ node \in SelectNode(t, target[c].nodes)
  /\ told' = [told EXCEPT ![node][t] = @ + 1]
  /\ unsent' = [unsent EXCEPT ![c] = @ \ {t}]
  /\ UNCHANGED <<wf, pc, snapshot, target, trouble>>

\* Mutant: the state is saved while messages are still being sent.
SaveDispatchEarly(c) ==
  /\ pc[c] = "dispatching"
  /\ DispatchWave(snapshot[c], wf', target[c].wave, target[c].nodes)
  /\ Leave(c)
  /\ UNCHANGED <<told, trouble>>

SaveDispatch(c) ==
  /\ pc[c] = "dispatching"
  /\ unsent[c] = {}
  /\ DispatchWave(snapshot[c], wf', target[c].wave, target[c].nodes)
  /\ Leave(c)
  /\ UNCHANGED <<told, trouble>>

\* The process ends, or an append to a mailbox fails and the call throws.
Crash(c) ==
  /\ c \in UnderWay
  /\ Note("crash")
  /\ Leave(c)
  /\ UNCHANGED <<wf, told>>

\* Mutant: the waves of a workflow that is there already are kept.
ResetStatuses ==
  /\ wf' = [wf EXCEPT !.status = InitialState.status, !.phase = InitialState.phase]
  /\ Note("reset")
  /\ UNCHANGED <<told, callVars>>

\* runInit and bootstrapWorkflowFromProposal save a fresh state without loading one.
Reset ==
  /\ wf' = InitialState
  /\ Note("reset")
  /\ UNCHANGED <<told, callVars>>

ConcurrentNext ==
  \/ \E c \in Calls :
       \/ LoadState(c) \/ Save(c) \/ ReturnUnsaved(c) \/ SaveDispatch(c) \/ Crash(c)
       \/ \E i \in DOMAIN snapshot[c].waves, nodes \in Registries : SelectTargets(c, i, nodes)
       \/ \E t \in Tasks, node \in Agents : SendAssignment(c, t, node)
  \/ Reset

ConcurrentSpec == ConcurrentInit /\ [][ConcurrentNext]_concurrentVars

-----------------------------------------------------------------------------
(* What survives                                                           *)

\* The file always holds a state that handlers called one at a time can work with:
\* updates can be lost to an overlap, and calls to a crash, but every save is
\* computed whole from a state that was itself sound (saveState writes the whole
\* WorkflowState, never a part of it).
SavedStateSound == Sound(wf)

\* A task the file has as assigned to a node has its message in that node's inbox,
\* whichever calls overlapped or were cut off: the messages go out before the save.
AssignedIsTold ==
  \A t \in Tasks : wf.status[t] = "assigned" => told[wf.assigned_to[t]][t] > 0

\* The tasks whose message a dispatch has sent already.
Sent(c) ==
  IF pc[c] = "dispatching"
    THEN Dispatchable(snapshot[c], target[c].wave, target[c].nodes) \ unsent[c]
    ELSE {}

\* How often nodes were told to work on t.
TimesTold(t) == SumFunction([n \in Agents |-> told[n][t]])

\* Once between two retries, unless calls overlapped, were cut off or the workflow
\* was reset: a repeated dispatch tells nobody twice, and what a report took back
\* is told again only with the next attempt.  A dispatch under way counts with the
\* messages it has sent.
ToldOncePerAttempt ==
  Troubles = 0 =>
    \A t \in Tasks :
      TimesTold(t) <= wf.retry_count[t]
        + (IF \/ wf.status[t] \in {"assigned", "reviewing", "done", "failed"}
              \/ \E c \in Calls : t \in Sent(c)
             THEN 1 ELSE 0)

\* As long as no two calls overlap and nobody starts the workflow anew, the file goes
\* from state to state as Workflow says, crashes or not: this is what lets Workflow
\* take a whole handler as one step.
SerialWithoutOverlap ==
  [][trouble'["overlap"] = 0 /\ trouble'["reset"] = 0 => [Next]_vars]_concurrentVars
===============================================================================
