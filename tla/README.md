# Annie task graph scheduler: specifications and proofs

TLA+ modules that model the scheduling core of this repository and the stores around it, TLC runs that check them
on small instances, and theorems about them checked by TLAPS. Source paths below are
relative to `src/` of the repository (`scheduler/scheduler.ts` is
`src/scheduler/scheduler.ts` there).

## The system

A *plan* is a DAG of tasks with hints (expected files, risk, preferred agent, required
capabilities) and an execution policy. A *workflow* runs one plan. All of its state is one
JSON document, `state.json`, next to an append-only `audit.jsonl`. Every command and HTTP
handler loads the document, computes a new one, saves it, and appends audit events.

A workflow goes round in cycles: `next-wave` resolves dependencies and selects a *wave* of
ready tasks; `dispatch` or `workflow-dispatch` hands its tasks to agents or registered
nodes; workers report with `submit-result` or `agent-result`; `review-wave` closes the wave
as done or failed; `recover` cleans up after lost sessions.

| Component | State | Operations | Works with |
|---|---|---|---|
| Plan, policy, conflicts, risk (`models/`, `validation/plan_loader.ts`, `scheduler/conflict_detector.ts`, `risk_scorer.ts`) | none (fixed per workflow) | load, normalise, compare two tasks, score | scheduler |
| Dependency resolver, wave scheduler (`scheduler/`) | task statuses | `resolveDependencies`, `generateNextWave` | next-wave, recover |
| Workflow scheduling (`workflow_scheduling/`) | waves, phase | `scheduleNextWorkflowWave` | resolver, scheduler, store |
| Worker pool (`execution/worker_pool.ts`) | agents and their slots | `assignWorkers` | dispatch command |
| Workflow dispatch (`workflow_dispatch/`) | assignments | `dispatchWorkflowWave` | node registry, message bus, store |
| Results (`execution/result_collector.ts`, `retry_policy.ts`, `result_intake/`) | task results, retries, slots | `collectResult`, `intakeAgentResult` | store |
| Review gate (`execution/review_gate.ts`) | wave verdicts | `reviewWave` | store |
| Recovery (`storage/recovery_manager.ts`) | statuses of lost tasks | `recoverWorkflow` | resolver, store |
| State store (`storage/state_store.ts`) | the two files | save, load, append | all handlers |
| Command line, HTTP server (`cli.ts`, `server/`) | none | one handler per command or route | all |
| Message bus (`communication/`) | mailboxes | send, acknowledge, retry | dispatch, agent messages |
| Node registry, interview (`node_registry/`, `node_registration_interview/`) | `nodes/registry.json` | register proposals | dispatch, delegation |
| Projects (`projects/`) | `projects.json` | register, build queue and pool, plan dispatch | state documents |
| Memory (`memory/`) | `records.jsonl` | append without duplicates | reports |
| Plan proposals, handoff (`plan_proposal/`, `planning/`) | `plans/proposals.json` | save, list | bootstrap |
| Agent messages, action policy, delegation | mailboxes | intake | registry, bus |
| Runtime discovery, intents, templates, reporting, visualization | none of interest | read or project | - |

What is hard about it: a handler may be issued at any time, in any order, on any wave, and
many accept what they should perhaps refuse; reports come late, twice or never; a failed
task leaves a wave half done; the scheduler's loops depend on plan order; nothing is
locked, and a handler is a sequence of file operations that a crash may cut off or another
handler may interleave with. `PROJECT.json` lists these hazards at their lines with the
properties that cover them. What makes each component correct is stated as the properties
named below.

## Modules

| Module | Models | Form |
|---|---|---|
| `Plan` | the plan and policy as CONSTANTS, `Conflict`, `Score` | operators, `PlanAssumption` |
| `Scheduler` | one pass of dependency resolution, the possible waves | loop-free operators |
| `SchedulerLoops` | the same two as the code runs them, loop by loop | folds; a state is one input |
| `Execution` | every handler that changes a workflow, as a relation between the record `s` it loads and the record `n` it saves | operators |
| `Workflow` | one workflow: `wf` is the content of `state.json`, an action is a whole handler | state machine, properties |
| `TaskLifecycle` | what a workflow promises of its tasks, without waves, agents and reviews | abstract specification |
| `StateStore` | the file protocol under a handler, await by await, with crashes and overlapping calls | state machine, properties |
| `WorkflowRecord` | an atomic register with a log of what was decided | abstract specification |
| `ConcurrentWorkflow` | the handlers of `Execution` as overlapping calls that load, send messages and save, with crashes and resets | state machine, properties |
| `Memory` | what is extracted from a workflow as memory records | operators on a state, one action property |
| `Stores` | project registry, node registry, plan proposals and memory records, with their files | state machine, properties |
| `DagValidator` | what decides whether a plan becomes a workflow | state machine, properties |
| `CrossProject` | the plan of one queue over the agents of all workflows | state machine, properties |
| `WorkflowProofs`, `ConcurrentProofs`, `SchedulerProofs`, `StateStoreProofs`, `StoresProofs`, `DagProofs`, `CrossProjectProofs` | theorems about the module in the name; `WorkflowProofs` also about `Memory` | proofs |
| `SumLemmas` | least numbers, induction, finite sums: what several proofs need and no library states | lemmas |
| `MC...` | values of the constants for TLC | |

`Execution` extends `Scheduler`, which extends `Plan`; `Workflow` extends `Execution` and
instantiates `TaskLifecycle`; `StateStore` instantiates `WorkflowRecord`. The handlers are
relations on records and not actions on variables, so that `ConcurrentWorkflow`, which also
extends `Workflow`, can apply them to a snapshot. `Memory` extends `Workflow`. `Stores`,
`DagValidator` and `CrossProject` stand alone: they share files or ids with a workflow, and
no state.

How the state corresponds: `wf.status`, `assigned_to`, `retry_count` and `changed_files`
are the fields of the same name of every task; `wf.known` and `wf.active` are the keys of
`agents` and how often each `active_task_ids` lists each task; `wf.waves` is the array of
waves, whose ids `wave_001`, ... are the positions; `wf.current_wave` is such a position or
0 for null; `wf.phase` is the workflow's `status`. Fields that no handler reads again
(times, summaries, reasons, skipped tasks) and audit payloads are left out; a repeated
review, which writes a new time and a new text of the same verdict, changes nothing that is
kept. A handler that throws, or returns without saving, is no step of `Workflow`; in
`StateStore` it is one. Statuses that no code ever writes (a cancelled task, a reviewing or
blocked wave, a failed workflow) are kept in the types where a guard looks at them. That
agents may be offline is not: `canRunTask` of the worker pool asks, and nothing ever makes
one offline. Numbers in a policy are taken to be natural; the validator checks no more than
that the policy is an object.

In `ConcurrentWorkflow`, `snapshot[c]` is what call `c` has loaded, `unsent[c]` the messages
a dispatch still has to send, `told[n][t]` the `TASK_ASSIGNED` lines for `t` in the inbox of
`n`. Loading and saving are one step each there, which `StateStore` takes apart.
`trouble` only counts overlaps, crashes and resets, for the properties and for the bound.

In `Stores`, `disk` and `temp` are what each JSON file and its `.tmp` hold, `open[c]` which of
the two names the file has that call `c` is writing to, and `records` the lines of
`records.jsonl`. Each call is made once and is about one request. A record carries what the
checks of the code look at: ids, a priority, node types, the lead and members of a team.
Two proposals that got one id, which the code allows, are told apart by the call that saved
them.

In `DagValidator`, a dependency is a place in `depends_on`, so that one named twice is two;
`path` holds the frames of the recursive `visit`. In `CrossProject`, `input` is what the
registry and the state files held when `queue plan` read them. `Rank` is the order
`localeCompare` puts global task ids and agent ids in, `QueueRank` that of the queue, which
compares project, workflow and task one after the other and need not be the same. One
registered workflow that cannot be used stops the planning (`Refuse`), be its project not
registered, its state not readable or of another plan: the three errors are one step. Both
modules run to their end on one input; a step is one turn of a loop.

`Position` is the order of `Object.values(state.tasks)`, which is plan order unless task
ids look like array indexes. Paths, directory prefixes and glob matches are relations on
model values. A tie for the least loaded agent is left open; the code takes the entry
created first, so the model allows more than the code does.

Definitions whose comment begins with "Mutant" are deliberately wrong variants of the
definition that follows them. Nothing uses them; each property has one that breaks it,
which is how it is known that the property says something of the code.

## Runs

| Run | Question | Bounds |
|---|---|---|
| `workflow` | do all orders of handlers keep the invariants, the inductive invariant `StatusesAgree`, and implement `TaskLifecycle`? | 4 tasks, 2 agents of one slot, 2 files, 1 retry; about 72,000 states |
| `liveness` | does a cycle of commands get somewhere? | same plan, 3 tasks at a time, 2 slots; about 8,000 states |
| `scheduler_loops` | do the loops compute what `Scheduler` says? | 4 tasks, all statuses, 3 graphs, 5 policies, retry counts 0 and 1; about 26,000 inputs |
| `state_store` | do the files survive crashes at every await when calls do not overlap? | 3 calls, 1 or 2 events each; about 667,000 states |
| `concurrent` | what do the file and the inboxes promise when calls overlap, are cut off, or find the workflow reset? | 3 tasks, 2 nodes, 2 calls, 2 troubles in all; about 557,000 states |
| `dag_validator` | are exactly the acyclic plans accepted, with a right order, and is a reported cycle one? | lists of up to 2 over 3 tasks and an unknown id, all graphs of 4 tasks, some repetitions |
| `cross_project` | has the queue one order, and is the plan within everyone's slots, and fair? | 3 tasks, 2 agents, 2 workflows, all mixes of priority, risk, need and preference; about 614,000 states |
| `stores` | what do registrations, proposals and memory writes survive? | 4 calls about one of the files, 12 requests; about 586,000 states |
| `review_gate`, `worker_limit`, `retry_pool`, `store_torn` | four things documents promise and the code does not do | as above |

**workflow.** The plan is chosen so that the tests of the selection each decide something:
in the first wave one task is left out for a file conflict and one for the limit on
high-risk tasks, in the second one because it must run alone. `ship` needs a capability
that only bob's node declares and that no entry of the worker pool has, so a wave can be
dispatched in part by one dispatcher and not at all by the other. Reports complete with and
without files (two tasks reporting the same file fail their review), fail with a retryable
and with another type; recovery may find any of three sets of sessions alive and may fail
or restart a task. No state counter needs a cap: retries are bounded by `max_retries`,
waves by the tasks, and slots by the agents.

- `DependenciesHold`, `OnlyNewestWaveOpen`, `EachTaskInOneWave`, `ClosedWavesSettled`,
  `DoneMeansDone`: what relates tasks to waves, although neither dispatchers nor the gate
  look at a wave's status.
- `ParallelismBounded`: conflicts and limits hold over what is under way, not only when a
  wave is selected.
- `AgentsWithinLimit`, `SlotsFollowTasks`: the pool's slots, written by four handlers of
  which two do not look at the limit and one leaves slots behind.
- `FinishedWorkIsFinal`: nothing done is run, changed or reported on again, and a wave's
  verdict never changes, although closed waves may be reviewed again.
- `MemoryStaysTrue`: the candidates for tasks and templates extracted in one state are
  extracted again from every later one, so that the memory store may keep the first record
  of a key.
- `ImplementsLifecycle`: see `TaskLifecycle`. Its table of moves is the one the handlers
  follow. Three of them `allowedTaskTransitions` of the store lacks (assigned to reviewing,
  assigned to failed, running to ready), and some that it has no handler makes; no handler
  consults that table.

**liveness.** Weak fairness on some dispatch of each wave, on some review of each wave, on
`next-wave` as long as no review has failed (`NextWaveAsDocumented`), and on reports for each
task. This is the operator of the repository's README, who repeats its steps 3 to 6 "after
review passes", and workers that answer. Nobody has to run `recover`, and no answer has to
be a success. The operator may run `next-wave` after a failed review, as the code lets him
(`review_gate` below), but does not have to. It is weak fairness because each of these stays
possible until somebody takes it. Checked: `RetriedTaskRunsAgain`, `OpenWaveCloses`, and
`WorkflowEnds`: unless a review fails, every workflow is done some day and stays so, so that
no ready task is skipped by every `next-wave` and none waits for ever for what is done. A
registry without the capable node, or a worker that never answers, stops a workflow: nothing
in the code times out.

**scheduler_loops.** `resolveDependencies` reads statuses it has just written, and
`generateNextWave` tests a task against those selected so far; the other modules use a
least closure and a fixed point instead, without recursion, as the proofs need. The run
shows the two forms equal on all statuses a workflow can have, for a chain and a diamond
listed against their order and for free tasks under policies that differ in one or two
fields (directory and glob conflicts, unknown files serialised, agent limit, risk order).
It also shows that no wave leaves a task out in vain and that repeated passes block
everything downstream of a failure although one pass does not. All but the last is proved for every plan.

**state_store.** A call is load, open and truncate `state.json.tmp`, write, rename, append
events, return; a crash may fall between any two. A call may also load, decide that there is
nothing to save, and only append events (`Decline`), as `workflow-dispatch` and `next-wave`
do. The file system is inodes and two names.
Whether calls overlap is chosen at the start. Without overlap the state is always readable,
a call that returned is durable, the log lags behind only where a crash cut it off, and the
files implement `WorkflowRecord`. Three calls are enough for a crash, a call that meets its
leftovers, and one that reads the result. `CHECK_DEADLOCK` is off because a finite set of
calls ends.

**concurrent.** Every handler but the dispatchers' messages is one load and one save. Two
calls are enough for one to save over the other, three tasks for a wave of two, a later wave
and a task only one node can run. A behaviour may have two troubles: two overlaps, an overlap
and a crash, a crash and a reset and so on (`MaxTroubles`); without this bound the inboxes
grow for ever. The calls are symmetric: they differ in nothing but when they run.

- `SavedStateSound`: updates are lost to an overlap, and a second save may take back what a
  first has told its caller, but the file always satisfies the inductive invariant of
  `Workflow`. Handlers save whole states.
- `AssignedIsTold`: an assignment in the file has its message in the inbox of its node,
  because messages go out before the save. The reverse does not hold: after an overlap or a
  crash nodes may have been told what the file does not know.
- `ToldOncePerAttempt`: without any trouble a node is told once per attempt, also when a wave
  is dispatched again and again.
- `SerialWithoutOverlap`: this is what justifies `Workflow`, where a handler is one step:
  calls made one after the other, even when they are cut off, are steps of `Workflow`.

**dag_validator.** `validateDag` decides by counting: every dependency is counted up in one
loop and down in another. The plans have repeated, unknown and own ids in `depends_on`, and
cycles that the search for a cycle enters from outside.

**cross_project.** The first of the two agents is known to both workflows, with every
combination of statuses that the merge treats differently, and entries that have no slot left.
`NobodyOverbooked` compares with the sum over the workflows' own entries, `NothingLeftInVain`
says that who is skipped could not have been served, and `NoPriorityInversion` that the one
pass over the sorted queue never serves a less urgent task before a more urgent one on an
agent both could have. `OrderIsStrict` is about the sort itself: its comparator subtracts
loads, which are infinite for a task nobody can run, and two such tasks compare as no number
and keep the order of the queue. One pool has an agent with more to do than the other and a
capability nobody has, and two tasks change places between the two orders of ids, so that a
cycle through a load and both kinds of ties could show.

**stores.** As in `state_store`, a call opens `<file>.tmp`, writes, renames, and may be cut
off before each of these. The four files have nothing to do with each other, so a constraint
keeps all calls of a behaviour to one of them (`OneSubject`). Four calls are enough to
register both projects and then two workflows under one id, and for a memory write to be cut
off, repeated, and repeated again with more. Whether calls may overlap is chosen at the
start. With overlap `RegistriesConsistent` still holds of every file that can be read;
`AcknowledgedIsKept`, `ChangesAreAcknowledged` and `OneRecordPerKey` are about calls that do
not overlap: overlapping ones lose registrations and store a key twice. `AcknowledgedIsKept`
says that what was registered is there, whatever became of its priority, type or team;
`ChangesAreAcknowledged` that none of these changes but by the very request that is
acknowledged in that step, so that what one call has acknowledged stands until another has,
and what a call that was cut off has left behind never counts.
`CHECK_DEADLOCK` is off because a finite set of calls ends.

**What the code does not do.** Each of these runs is expected to fail:

- `review_gate`: `agent.md` line 445, "ReviewGate must pass before scheduling the next wave."
  A failed review makes the workflow `blocked`, and only `failed` stops the scheduler.
- `worker_limit`: the PRD (line 382) limits the tasks of one worker; `workflow-dispatch`
  never counts what a node has.
- `retry_pool`: transient failures can be retried (PRD line 495), but `dispatch` refuses a
  wave in which another task has reported already. The run has no registered nodes, so
  `dispatch` is the only dispatcher.
- `store_torn`: atomic writes are claimed in the notes of task 003 of phase 1; overlapping
  handlers share one temporary file.

## What is proved

The theorems hold for every value of the constants: any plan, policy, set of agents and
registry, any number of calls and workflows, and every order of steps.

| Module | Theorem | Property |
|---|---|---|
| `WorkflowProofs` | `StatusesAlwaysAgree` | `[]StatusesAgree`, the inductive invariant |
| | `TypeCorrect` | `[]TypeOK` |
| | `DependenciesAlwaysHold` | `[]DependenciesHold` |
| | `OneOpenWave` | `[]OnlyNewestWaveOpen` |
| | `NoTaskScheduledTwice` | `[]EachTaskInOneWave` |
| | `ClosedWavesStaySettled` | `[]ClosedWavesSettled` |
| | `DoneWorkflowIsDone` | `[]DoneMeansDone` |
| | `FinishedWorkStaysFinal` | `FinishedWorkIsFinal` |
| | `LifecycleImplemented` | `ImplementsLifecycle`, the refinement of `TaskLifecycle` |
| | `MemoryIsTrueForGood` | `MemoryStaysTrue` |
| | `LimitsHoldUnderWay` | `[]ParallelismBounded` |
| | `SlotsAlwaysFollow` | `[]SlotsFollowTasks` |
| | `AgentsStayWithinLimit` | `[]AgentsWithinLimit` |
| `SchedulerProofs` | `ResolutionIsAlwaysLeast` | `[]ResolutionIsLeastClosure` |
| | `SelectionIsAlwaysUnique` | `[]SelectionIsUnique` |
| | `WavesAreMaximal` | `[]NoReadyTaskLeftOutInVain` |
| `ConcurrentProofs` | `FileStaysSound` | `[]SavedStateSound` |
| | `SerialCallsAreSteps` | `SerialWithoutOverlap` |
| | `AssignedNodesAreTold` | `[]AssignedIsTold` |
| | `ConcurrentTypeCorrect` | `[]ConcurrentTypeOK` |
| | `NobodyIsToldTwice` | `[]ToldOncePerAttempt` |
| `StateStoreProofs` | `FileNamesAndContents` | `[]TypeOK` |
| | `NeverHalfAState` | `[]ReadableWithoutOverlap` |
| | `ReturnedCallsLast` | `[]ReturnedIsDurable` |
| | `LogGapsAreExplained` | `[]AuditGapsAreCrashes` |
| | `FilesAreRegisterAndLog` | `ImplementsWorkflowRecord`, the refinement of `WorkflowRecord` |
| `StoresProofs` | `RegistriesAreConsistent` | `[]RegistriesConsistent` |
| | `KeysAreUnique` | `[]OneRecordPerKey` |
| | `WhatIsAcknowledgedIsKept` | `[]AcknowledgedIsKept` |
| | `WhatChangesIsAcknowledged` | `ChangesAreAcknowledged` |
| `DagProofs` | `AcceptedPlansAreOrdered` | `[]AcceptedInOrder` |
| | `OnlyCyclesAreRejected` | `[]RejectedForCause` |
| | `ReportedCyclesAreReal` | `[]CycleIsReal` |
| `CrossProjectProofs` | `NoTaskIsPassedOver` | `[]NoPriorityInversion` |
| | `NobodyIsOverbooked` | `[]NobodyOverbooked` |
| | `NothingIsLeftInVain` | `[]NothingLeftInVain` |
| | `QueueHasOneOrder` | `[]OrderIsStrict` |

The assumptions are those named in the modules: finitely many tasks, agents or calls,
distinct positions, values of the declared types, requests of the declared shapes, and that
no snapshot of a file looks like one that was cut off. That a plan is acyclic is not needed
in `WorkflowProofs`.

Every safety invariant and action property of every passing run is the property of a theorem.
The type invariant of `StateStore` is proved only: no run checks it besides.

**The loops.** `FoldLeft` is a recursive function on sets of positions, each turn taking out
the greatest, that is only chosen: `FoldExists` shows that there is one, and one *Runs* lemma
per loop turns it into `run`, the values after 0, 1, ... turns. `PlanOrderVisitsAll` shows
that the order of the loops exists and meets every task once (a sorted injection from
`1..n` into `n` tasks is onto). Then each loop has its invariant. In `resolveDependencies`, the
tasks visited have their final status and all others their first, so the loop's test of a
dependency that is failed or blocked by now is the rule whose least closed set is `Blocks`;
that this set holds nothing the rule does not ask for follows from its being least
(`BlocksIsClosed`). In `sortReadyTasks`, the queue is sorted and what scores no more than
the new task stands in front (`InsertKeepsSorted`). In `generateNextWave`, every task
considered is in the wave exactly if it fits with those ahead of it in the final wave,
because what is appended later precedes nothing considered before (`SelectTaskSound`). Two
selections cannot differ, since a first task to differ in would have the same tasks ahead in
both (`SelectionsAgree`), and one selection has one sorted queue (`QueuesAgree`). A wave is
maximal because the test is passed again when tasks are taken away (`AdmitsIsAntitone`). The
agent limit is the one part of the test where this is not plain: more tasks may bring along
the agent that lets `t` in, so the loop invariant also has to say that the wave has never
used too many agents.

**Workflow.** None of the properties is inductive alone. That reviewing a closed wave again
changes nothing needs to know that its tasks are still as the review left them; that needs
every closed task to be out of the reach of reports, retries and recoveries, hence that tasks
under way lie in the open wave; that needs waves to be disjoint, and a ready task of a
closed wave not to exist, or the scheduler would select it again. `StatusesAgree` is the
conjunction of these facts: types, dependencies, disjoint waves, `WaveStands` for each wave
(its status, the statuses of its tasks, the verdict its review found, which must still be
what a second review would find, and pairwise compatibility of its tasks), tasks under way
in some wave, done phases. It is checked in the run `workflow` before it is proved.

The proof has three layers. An *Effect* lemma per handler says in a few conjuncts what it
changes, with all `EXCEPT`s resolved. `MovesKeepSound` and `AppendKeepsSound` say which
changes preserve the invariant. A *Sound* lemma per handler combines the two and also shows
the step `Lawful`: moves along the lifecycle only, done tasks and closed waves untouched.
`StepSound` collects them over `Next`; the action property and the refinement follow from
`Lawful` without another case split. `SoundIsExclusive` derives that tasks under way do not
conflict: they are in one wave, and a wave's tasks are compatible because the later one was
admitted to a set with the earlier one in it.

**Limits and slots.** `LimitsHold` adds two facts to `StatusesAgree`. Every wave ever
selected is within the limits, since its last task, and its last one of high risk, were
tested against all the others (`SelectionWithinLimits`); the tasks of a wave never change,
and what is under way lies in the newest wave, so the limits hold over that. The slots
follow the tasks by themselves, once it is known that resolving dependencies, also within a
recovery, moves no task out of ready: a recovery leaves slots behind, and only a task that
is still to run or to report, or that failed, may have one too many. `AgentsStayWithinLimit`
is about a sum: `LoadsLimited` holds of the sum over all tasks of the slots of an agent, an
assignment adds one where `SelectAgent` has just seen room, and is repeated for the tasks
of a wave one by one; everything else only releases.

**Sums.** `SumFunctionOnSet` is a recursive function too, chosen from those that take out one
element after the other. `SumExists` shows that there is one and `SumsAgree` that its value
on a set depends on nothing but the values there. `SumWithout` follows, that any element may
be taken out first, and from it what the proofs use: sums grow with their terms, by one when
one term does, and are zero when all terms are. The provers cannot instantiate an induction
theorem with a predicate, so induction here is on a set of numbers (`NumberInduction`) or of
sets (`SetInduction`), which is enough for what a fold computes.

**Overlapping calls and memory.** The *Sound* lemmas are about any `s` and `n`, so they serve
`ConcurrentProofs` as they are: its invariant says that the file and every snapshot are
sound. `SerialCallsAreSteps` adds that, as long as nothing overlapped, the one call under way
has the file's own content. `AssignedNodesAreTold` needs more than its property: every
assignment in every *snapshot* is told as well, since a late save may bring it back.
`NobodyIsToldTwice` counts: the messages about a task, summed over the nodes, are no more
than its retries, plus one for the attempt the file knows of or a lone call has sent its
message for and not saved yet. The save turns the second case into the first, and only a
report that counts a retry takes an attempt back (`AttemptsSound`).
`MemoryIsTrueForGood` follows from `Lawful`.

**Files.** The invariant of `StateStoreProofs` and of `KeysAreUnique` says where the one call
under way stands, what it has read, and what the names and the log hold meanwhile; under
overlap only types remain. `RegistriesAreConsistent` needs no such thing: what any call
computed from a consistent file is consistent, and a file never holds anything else unless
it is torn. `WhatIsAcknowledgedIsKept` needs both: without overlap the text a call writes is
its request's result on what the disk holds at that moment (`CallSound`), every such result
keeps what was registered before (`Grown`), and nobody reads a file that is being written,
because a file only ever gets its new content by the rename (`AcksSound`). The rename is then
also the only step that changes a registry, and the one that acknowledges
(`WhatChangesIsAcknowledged`).

**The validator.** For the sort: `indegree` counts, for every task, the dependencies not yet
counted down, the queue holds exactly the tasks with none left, and what is ordered has all
its dependencies before it. A stuck sort then leaves a set of tasks in which each waits for
another. For the search: the tasks it is done with form a set that can be ordered, so they
can never be all tasks of a stuck sort, and the frames form a path of dependencies.

**The cross-project plan.** For `NoTaskIsPassedOver` the invariant says that whoever waits is
outranked by whoever is decided, and that a task skipped for want of agents still cannot be
served, because loads only grow. The other two compare the plan with the workflows it was
made from. While the state files are read, capacity and load of every agent of the pool are
the sums over the workflows read so far that know it (`PoolSound`); while it is planned, a
load is that of the pool plus the tasks planned for the agent (`Counted`), every task of the
queue is waiting, planned or skipped (`Decided`), and an agent passed over is full
(`PassedOverForGood`). `QueueHasOneOrder` rests on one agent at most being selected for a
task (`OneIsSelected`), so that a task has one load or none, and on `BeforeIsStrict`, which
orders by that load with "none" above every number and breaks ties among equals of one kind
by one rank. That such an order of finitely many tasks has a first one is left to TLC, which
would find a deadlock otherwise.

**Only model-checked.** The liveness properties `RetriedTaskRunsAgain`, `OpenWaveCloses`,
`WorkflowEnds` and `BlockingReachesEveryone`, and that no state is a deadlock: `ENABLED` and
fairness are out of the prover's reach. The runs that are expected to fail are TLC's as well.

## Not modelled

- What keeps no state or only calls external programs: text formatting, parsing and
  validation of payloads, reporting, visualization, templates, intents, runtime discovery,
  the OpenClaw adapter, the registration interview.
- Agent messages, the action policy and team delegation: each checks one message against
  fixed tables and a registry snapshot and sends one message.
- `acknowledgeMessage`, `markProcessed`, `retryDelivery` of the message bus and
  `transitionTaskStatus` of the state store: only tests call them. Dispatch uses the built-in
  transport, which always delivers. Of what it sends, the lines in the inboxes are modelled;
  those in the outbox nothing reads back.
- Texts: of an execution record of the memory, its summary, tests, risks and recommendation
  are left out, as they are in the state.
- Preference candidates of the memory extractor: they tell of the policy and count skipped
  tasks.
- Whoever would act on a plan of `queue plan`: the command prints it and no code dispatches
  by it.

What could still be added: `StateStore` under `ConcurrentWorkflow`, so that torn files and lost
updates meet in one model.
