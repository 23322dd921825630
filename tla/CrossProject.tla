----------------------------- MODULE CrossProject -----------------------------
(***************************************************************************)
(* The command queue plan: the ready tasks of all registered workflows     *)
(* become one queue (global_queue.ts), the agents of all of them one pool  *)
(* (agent_pool.ts), and the queue is gone through once in order of         *)
(* priority, each task going to an agent with room or to none              *)
(* (cross_project_scheduler.ts).  The result is printed; nothing is        *)
(* dispatched by it.  A step is one turn of one of the loops.              *)
(***************************************************************************)
EXTENDS Integers, Sequences, FiniteSets, Functions

CONSTANTS
  Tasks,     \* the global task ids: project, workflow and task
  Agents,    \* the agent ids
  None,      \* JavaScript's null
  Rank,      \* Rank[x]: where x stands in the order of global task and agent ids
  QueueRank, \* QueueRank[x]: where task x stands by project id, then workflow id, then task id
  Skills,    \* what tasks require and agents are capable of
  Inputs     \* the registered workflows and their states to plan for

AgentStatus == {"idle", "busy", "offline"}

\* An agent as one workflow knows it, or as the pool sums it up: max_concurrent_tasks,
\* and how many active_task_ids it has.
AgentType == [status : AgentStatus, capacity : Nat, active : Nat, skills : SUBSET Skills]

\* Priorities are ranks, 4 for urgent and 1 for the lowest.
TaskType ==
  [user : 1..4, project : 1..4, risk : Nat, needs : SUBSET Skills, preferred : Agents \cup {None}]

ASSUME CrossProjectAssumption ==
  /\ IsFiniteSet(Tasks) /\ IsFiniteSet(Agents)
  /\ None \notin Agents /\ None \notin {"agent_capacity", "dispatch_limit"}
  /\ Rank \in [Tasks \cup Agents -> Nat]
  /\ \A x, y \in Tasks : Rank[x] = Rank[y] => x = y
  /\ \A a, b \in Agents : Rank[a] = Rank[b] => a = b
  /\ QueueRank \in [Tasks -> Nat]
  /\ \A x, y \in Tasks : QueueRank[x] = QueueRank[y] => x = y
  /\ \A in \in Inputs :
       /\ in.task \in [Tasks -> TaskType]
       /\ in.ready \subseteq Tasks
       /\ Len(in.agents) \in Nat
       /\ in.agents = [k \in 1..Len(in.agents) |-> in.agents[k]]
       /\ \A k \in 1..Len(in.agents) :
            /\ in.agents[k] = [a \in DOMAIN in.agents[k] |-> in.agents[k][a]]
            /\ DOMAIN in.agents[k] \subseteq Agents
            /\ \A a \in DOMAIN in.agents[k] : in.agents[k][a] \in AgentType
       /\ in.matches \in BOOLEAN
       /\ in.max_dispatches \in Nat

VARIABLES
  input,     \* what the registry and the state files held when they were read
  stage,     \* "reading", "planning", "planned", or "refused"
  read,      \* how many workflows have been read
  pool,      \* the agents of the workflows read so far
  load,      \* load[a]: active and planned tasks of a
  waiting,   \* the tasks of the queue that are not decided yet
  assigned,  \* assigned[x]: the agent planned for x, or None
  skipped    \* skipped[x]: the category x is skipped in, or None
vars == <<input, stage, read, pool, load, waiting, assigned, skipped>>

Task(x) == input.task[x]

Init ==
  /\ input \in Inputs
  /\ stage = "reading" /\ read = 0
  /\ pool = [a \in {} |-> None] /\ load = [a \in {} |-> 0]
  /\ waiting = {}
  /\ assigned = [x \in Tasks |-> None]
  /\ skipped = [x \in Tasks |-> None]

-----------------------------------------------------------------------------
(* buildGlobalTaskQueue and buildGlobalAgentPool                           *)

\* One registered workflow that cannot be used, because its project is not registered,
\* its state cannot be read or is of another plan: nothing is planned at all.
Refuse ==
  /\ stage = "reading" /\ ~input.matches
  /\ stage' = "refused"
  /\ UNCHANGED <<input, read, pool, load, waiting, assigned, skipped>>

\* deriveMergedStatus: offline only where it is offline in both.
MergedStatus(l, r, active, capacity) ==
  CASE l = "offline" /\ r = "offline" -> "offline"
    [] ~(l = "offline" /\ r = "offline") /\ (active >= capacity \/ "busy" \in {l, r}) -> "busy"
    [] OTHER -> "idle"

\* Mutant: an agent that one workflow has offline is offline.
MergeOffline(l, r) ==
  [status |-> IF "offline" \in {l.status, r.status} THEN "offline" ELSE "idle",
   capacity |-> l.capacity + r.capacity,
   active |-> l.active + r.active,
   skills |-> l.skills \cup r.skills]

\* Mutant: the tasks an agent has in the other workflows are forgotten.
MergeForgetting(l, r) ==
  [status |-> MergedStatus(l.status, r.status, r.active, l.capacity + r.capacity),
   capacity |-> l.capacity + r.capacity,
   active |-> r.active,
   skills |-> l.skills \cup r.skills]

\* An agent known in several workflows has the slots it has in each of them.
Merge(l, r) ==
  [status |-> MergedStatus(l.status, r.status, l.active + r.active, l.capacity + r.capacity),
   capacity |-> l.capacity + r.capacity,
   active |-> l.active + r.active,
   skills |-> l.skills \cup r.skills]

ReadWorkflow ==
  /\ stage = "reading" /\ input.matches /\ read < Len(input.agents)
  /\ read' = read + 1
  /\ LET known == input.agents[read + 1]
     IN pool' = [a \in DOMAIN pool \cup DOMAIN known |->
                   IF a \notin DOMAIN known THEN pool[a]
                   ELSE IF a \notin DOMAIN pool THEN known[a]
                   ELSE Merge(pool[a], known[a])]
  /\ UNCHANGED <<input, stage, load, waiting, assigned, skipped>>

StartPlanning ==
  /\ stage = "reading" /\ input.matches /\ read = Len(input.agents)
  /\ stage' = "planning"
  /\ waiting' = input.ready
  /\ load' = [a \in DOMAIN pool |-> pool[a].active]
  /\ UNCHANGED <<input, read, pool, assigned, skipped>>

-----------------------------------------------------------------------------
(* planCrossProjectDispatch                                                *)

IsCapable(a, x) == pool[a].status # "offline" /\ Task(x).needs \subseteq pool[a].skills
CanRunTask(a, x, loads) == IsCapable(a, x) /\ loads[a] < pool[a].capacity

\* Mutant: a preferred agent is taken whatever it has to do.
PreferredAnyway(x, loads) ==
  LET able == {a \in DOMAIN pool : CanRunTask(a, x, loads)}
      preferred == DOMAIN pool \cap {Task(x).preferred}
  IN IF preferred # {} THEN preferred
     ELSE {a \in able : \A b \in able :
             loads[a] < loads[b] \/ (loads[a] = loads[b] /\ Rank[a] <= Rank[b])}

\* selectAgent: the preferred agent if it can, else the least loaded that can; {}
\* when none can.
SelectAgent(x, loads) ==
  LET able == {a \in DOMAIN pool : CanRunTask(a, x, loads)}
      preferred == able \cap {Task(x).preferred}
  IN IF preferred # {} THEN preferred
     ELSE {a \in able : \A b \in able :
             loads[a] < loads[b] \/ (loads[a] = loads[b] /\ Rank[a] <= Rank[b])}

\* getBestAgentLoad, before anything is planned: a task nobody can run comes last.
Loads == [a \in DOMAIN pool |-> pool[a].active]
Unable(x) == SelectAgent(x, Loads) = {}

\* Mutant: the load of a task nobody can run is no number, rather than infinite, and
\* ties with every other.
LighterIfBothAble(x, y) ==
  \E a \in SelectAgent(x, Loads), b \in SelectAgent(y, Loads) : Loads[a] < Loads[b]

LighterThan(x, y) ==
  \E a \in SelectAgent(x, Loads) : \A b \in SelectAgent(y, Loads) : Loads[a] < Loads[b]

\* Equally loaded tasks go by their ids.  The difference of two infinite loads is no
\* number, so that two tasks nobody can run keep the order the queue came in, which
\* compares project, workflow and task one after the other.
ComesBefore(x, y) ==
  IF Unable(x) /\ Unable(y) THEN QueueRank[x] < QueueRank[y] ELSE Rank[x] < Rank[y]

\* Mutant: the order looks at the load before it looks at the risk.
OutranksByLoad(x, y) ==
  LET s == Task(x) t == Task(y)
  IN \/ LighterThan(x, y)
     \/ ~LighterThan(y, x) /\ s.user > t.user
     \/ ~LighterThan(y, x) /\ s.user = t.user /\ ComesBefore(x, y)

\* sortDispatchCandidates.
Outranks(x, y) ==
  LET s == Task(x) t == Task(y)
  IN \/ s.user > t.user
     \/ s.user = t.user /\ s.project > t.project
     \/ /\ s.user = t.user /\ s.project = t.project
        /\ \/ s.risk < t.risk
           \/ s.risk = t.risk /\ LighterThan(x, y)
           \/ s.risk = t.risk /\ ~LighterThan(y, x) /\ ComesBefore(x, y)

IsFirst(x) == x \in waiting /\ \A y \in waiting \ {x} : Outranks(x, y)
Planned == {x \in Tasks : assigned[x] # None}
LimitReached == Cardinality(Planned) >= input.max_dispatches

SkipForLimit(x) ==
  /\ stage = "planning" /\ IsFirst(x) /\ LimitReached
  /\ waiting' = waiting \ {x}
  /\ skipped' = [skipped EXCEPT ![x] = "dispatch_limit"]
  /\ UNCHANGED <<input, stage, read, pool, load, assigned>>

SkipForCapacity(x) ==
  /\ stage = "planning" /\ IsFirst(x) /\ ~LimitReached
  /\ SelectAgent(x, load) = {}
  /\ waiting' = waiting \ {x}
  /\ skipped' = [skipped EXCEPT ![x] = "agent_capacity"]
  /\ UNCHANGED <<input, stage, read, pool, load, assigned>>

Assign(x, a) ==
  /\ stage = "planning" /\ IsFirst(x) /\ ~LimitReached
  /\ a \in SelectAgent(x, load)
  /\ waiting' = waiting \ {x}
  /\ load' = [load EXCEPT ![a] = @ + 1]
  /\ assigned' = [assigned EXCEPT ![x] = a]
  /\ UNCHANGED <<input, stage, read, pool, skipped>>

Finish ==
  /\ stage = "planning" /\ waiting = {}
  /\ stage' = "planned"
  /\ UNCHANGED <<input, read, pool, load, waiting, assigned, skipped>>

Over == stage \in {"planned", "refused"} /\ UNCHANGED vars

Next ==
  \/ Refuse \/ ReadWorkflow \/ StartPlanning \/ Finish \/ Over
  \/ \E x \in Tasks :
       \/ SkipForLimit(x) \/ SkipForCapacity(x)
       \/ \E a \in Agents : Assign(x, a)

Spec == Init /\ [][Next]_vars

-----------------------------------------------------------------------------
(* What the plan is worth                                                  *)

\* What all workflows together have of agent a.
Workflows(a) == {k \in DOMAIN input.agents : a \in DOMAIN input.agents[k]}
TotalCapacity(a) ==
  SumFunction([k \in Workflows(a) |-> input.agents[k][a].capacity])
TotalActive(a) ==
  SumFunction([k \in Workflows(a) |-> input.agents[k][a].active])
PlannedFor(a) == {x \in Tasks : assigned[x] = a}

\* Nobody is planned more than the slots left in all the workflows that know it, no
\* matter in which of them its tasks are (buildGlobalAgentPool, getCapacityRemaining).
NobodyOverbooked ==
  \A a \in Agents :
    PlannedFor(a) # {} =>
      TotalActive(a) + Cardinality(PlannedFor(a)) <= TotalCapacity(a)

\* An agent some workflow has online, and that has, over all workflows, what x needs.
Suits(a, x) ==
  /\ \E k \in Workflows(a) : input.agents[k][a].status # "offline"
  /\ Task(x).needs \subseteq UNION {input.agents[k][a].skills : k \in Workflows(a)}
IsFull(a) == TotalActive(a) + Cardinality(PlannedFor(a)) >= TotalCapacity(a)

\* Every task of the queue is planned or skipped, never both.  In the finished plan
\* no room is left that could have been used: whoever suits a task skipped for want
\* of an agent is full, and so is a preferred agent that was passed over.
NothingLeftInVain ==
  stage = "planned" =>
    \A x \in input.ready :
      /\ (assigned[x] = None) = (skipped[x] # None)
      /\ skipped[x] = "agent_capacity" => \A a \in Agents : Suits(a, x) => IsFull(a)
      /\ assigned[x] # None =>
           \A a \in Agents \ {assigned[x]} :
             a = Task(x).preferred /\ Suits(a, x) => IsFull(a)

\* The comparisons of sortDispatchCandidates put the queue in exactly one order, although
\* one of them may subtract infinities and ties are broken in two ways: of two tasks
\* one comes first, and there is no cycle that would leave the plan to the sort.
OrderIsStrict ==
  stage = "planning" /\ waiting = input.ready =>
    \A x, y \in input.ready :
      /\ x # y => (Outranks(x, y) <=> ~Outranks(y, x))
      /\ \A z \in input.ready : Outranks(x, y) /\ Outranks(y, z) => Outranks(x, z)

\* What user and project priority and the risk say, before any load is looked at.
MoreUrgent(x, y) ==
  LET s == Task(x) t == Task(y)
  IN \/ s.user > t.user
     \/ s.user = t.user /\ s.project > t.project
     \/ s.user = t.user /\ s.project = t.project /\ s.risk < t.risk

\* No task is skipped while a less urgent one is given to an agent that could have
\* had it, neither for want of agents nor for the limit on dispatches.
NoPriorityInversion ==
  \A x, y \in Tasks :
    skipped[x] # None /\ assigned[y] # None /\ MoreUrgent(x, y)
      => ~IsCapable(assigned[y], x)
===============================================================================
