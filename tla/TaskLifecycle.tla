---------------------------- MODULE TaskLifecycle ----------------------------
(***************************************************************************)
(* What a workflow promises about its tasks, with nothing said of waves,   *)
(* agents or reviews: each task moves along its lifecycle, starts only     *)
(* after everything it depends on is done, and is never on its way         *)
(* together with a task it is predicted to conflict with.  Workflow is     *)
(* checked and proved to implement this specification.                     *)
(***************************************************************************)
EXTENDS Scheduler

VARIABLE status

\* The moves the handlers make of one task, which is not what the table of
\* state_store.ts allows: no handler consults it.  Three of them are not in the
\* table (an accepted report takes an assigned task straight to reviewing or failed,
\* a retry or a recovery takes a running one to ready).  What the table allows and
\* no handler does is left out: nothing is cancelled or unblocked, no task that was
\* ready is blocked, no failed one restarted, no reviewed one failed, and an assigned
\* one runs only within the handler that takes its report.
Moves ==
  {<<"pending", "ready">>, <<"pending", "blocked">>,
   <<"ready", "assigned">>, <<"ready", "running">>,
   <<"assigned", "reviewing">>, <<"assigned", "failed">>, <<"assigned", "ready">>,
   <<"running", "reviewing">>, <<"running", "failed">>, <<"running", "ready">>,
   <<"reviewing", "done">>}

InFlight(st) == {t \in Tasks : st[t] \in {"assigned", "running"}}

\* No two tasks on their way conflict, and one that may not run in parallel is alone.
Exclusive(st) ==
  \A t, u \in InFlight(st) : t # u => ~Conflict(t, u) /\ t \notin NonParallel

Init == status = [t \in Tasks |-> "pending"]

\* One handler may move several tasks at once.
Advance ==
  /\ status' \in [Tasks -> TaskStatus]
  /\ \A t \in Tasks :
       /\ status'[t] # status[t] => <<status[t], status'[t]>> \in Moves
       /\ status[t] = "pending" /\ status'[t] = "ready" => DependenciesDone(status, t)
  /\ Exclusive(status')

Spec == Init /\ [][Advance]_status
=============================================================================
