-------------------------- MODULE CrossProjectProofs --------------------------
(***************************************************************************)
(* The plan over all projects, for every set of tasks, agents and          *)
(* workflows.  There is no priority inversion in it: a task is decided     *)
(* before every less urgent one; it is skipped for want of agents only     *)
(* when every agent that could run it is full, and a full agent is given   *)
(* nothing more; and it is skipped for the limit only when nothing at all  *)
(* is assigned any more.  Then the pool is shown to be the sum of the      *)
(* workflows it was read from, so that nobody is overbooked and nothing    *)
(* left in vain by what those workflows say.  Last, the comparisons the    *)
(* queue is sorted by are a strict order.                                  *)
(***************************************************************************)
EXTENDS CrossProject, SumLemmas

IsFullNow(a) == load[a] >= pool[a].capacity
NobodyCanHave(x) == \A a \in DOMAIN pool : IsCapable(a, x) => IsFullNow(a)

TypeSound ==
  /\ input \in Inputs /\ read \in Nat
  /\ stage \in {"reading", "planning", "planned", "refused"}
  /\ pool \in [DOMAIN pool -> AgentType] /\ DOMAIN pool \subseteq Agents
  /\ stage \in {"planning", "planned"} => load \in [DOMAIN pool -> Nat]
  /\ waiting \subseteq Tasks
  /\ assigned \in [Tasks -> Agents \cup {None}]
  /\ DOMAIN skipped = Tasks

\* Nothing is decided before the pool is complete.
DecidedWhenPlanning ==
  stage \in {"reading", "refused"} =>
    waiting = {} /\ \A x \in Tasks : assigned[x] = None /\ skipped[x] = None

\* The tasks that are not decided yet are no more urgent than those that have an agent.
UrgentFirst ==
  \A x \in waiting, y \in Tasks : assigned[y] # None => ~MoreUrgent(x, y)

SkippedForGood ==
  \A x \in Tasks : skipped[x] # None => LimitReached \/ NobodyCanHave(x)

PlanSound ==
  TypeSound /\ DecidedWhenPlanning /\ UrgentFirst /\ SkippedForGood /\ NoPriorityInversion

-----------------------------------------------------------------------------
(* Whenever somebody can run a task, somebody is selected for it           *)

LEMMA SelectAgentNonempty ==
  ASSUME NEW x, NEW loads \in [DOMAIN pool -> Nat], DOMAIN pool \subseteq Agents,
         SelectAgent(x, loads) = {}
  PROVE  \A a \in DOMAIN pool : ~CanRunTask(a, x, loads)
<1> DEFINE able == {a \in DOMAIN pool : CanRunTask(a, x, loads)}
<1>1. ASSUME able # {}
      PROVE  FALSE
  <2>1. PICK l \in {loads[a] : a \in able} : \A k \in {loads[a] : a \in able} : l <= k
    <3>1. {loads[a] : a \in able} \in SUBSET Nat /\ {loads[a] : a \in able} # {}
      BY <1>1
    <3> QED BY <3>1, LeastNumber
  <2> DEFINE light == {a \in able : loads[a] = l}
  <2>2. PICK r \in {Rank[a] : a \in light} : \A k \in {Rank[a] : a \in light} : r <= k
    <3>1. {Rank[a] : a \in light} \in SUBSET Nat
      BY CrossProjectAssumption
    <3>2. {Rank[a] : a \in light} # {}
      BY <2>1
    <3> QED BY <3>1, <3>2, LeastNumber
  <2>3. PICK a \in light : r = Rank[a]
    BY <2>2
  <2>4. \A b \in able : loads[a] < loads[b] \/ (loads[a] = loads[b] /\ Rank[a] <= Rank[b])
    <3> SUFFICES ASSUME NEW b \in able
                 PROVE  loads[a] < loads[b] \/ (loads[a] = loads[b] /\ Rank[a] <= Rank[b])
      OBVIOUS
    <3>1. loads[a] = l /\ l <= loads[b] /\ loads[b] \in Nat /\ l \in Nat
      BY <2>1, <2>3
    <3>2. CASE loads[b] = l
      <4>1. b \in light
        BY <3>2
      <4>2. r <= Rank[b]
        BY <4>1, <2>2
      <4> QED BY <4>2, <2>3, <3>1, <3>2
    <3>3. CASE loads[b] # l
      BY <3>1, <3>3
    <3> QED BY <3>2, <3>3
  <2>5. a \in {c \in able : \A b \in able :
                  loads[c] < loads[b] \/ (loads[c] = loads[b] /\ Rank[c] <= Rank[b])}
    BY <2>3, <2>4
  <2> HIDE DEF able
  <2> QED BY <2>5 DEF SelectAgent, able
<1> QED BY <1>1

LEMMA SelectedCanRun ==
  ASSUME NEW x, NEW loads, NEW a \in SelectAgent(x, loads)
  PROVE  a \in DOMAIN pool /\ CanRunTask(a, x, loads)
BY DEF SelectAgent

-----------------------------------------------------------------------------
(* The order of the queue is that of urgency                               *)

LEMMA OutranksMeansNotLessUrgent ==
  ASSUME input \in Inputs, NEW x \in Tasks, NEW y \in Tasks, Outranks(y, x)
  PROVE  ~MoreUrgent(x, y)
<1>1. input.task \in [Tasks -> TaskType]
  BY CrossProjectAssumption
<1>2. /\ Task(x).user \in Nat /\ Task(y).user \in Nat
      /\ Task(x).project \in Nat /\ Task(y).project \in Nat
      /\ Task(x).risk \in Nat /\ Task(y).risk \in Nat
  BY <1>1 DEF TaskType, Task
<1>3. \/ Task(y).user > Task(x).user
      \/ Task(y).user = Task(x).user /\ Task(y).project > Task(x).project
      \/ /\ Task(y).user = Task(x).user /\ Task(y).project = Task(x).project
         /\ Task(y).risk < Task(x).risk \/ Task(y).risk = Task(x).risk
  BY DEF Outranks
<1> QED BY <1>2, <1>3 DEF MoreUrgent

LEMMA NotMoreUrgentThanItself ==
  ASSUME input \in Inputs, NEW x \in Tasks
  PROVE  ~MoreUrgent(x, x)
<1>1. input.task \in [Tasks -> TaskType]
  BY CrossProjectAssumption
<1>2. Task(x).user \in Nat /\ Task(x).project \in Nat /\ Task(x).risk \in Nat
  BY <1>1 DEF TaskType, Task
<1> QED BY <1>2 DEF MoreUrgent

-----------------------------------------------------------------------------
(* Every step keeps the plan sound                                         *)

LEMMA InitSound ==
  Init => PlanSound
BY DEF Init, PlanSound, TypeSound, DecidedWhenPlanning, UrgentFirst, SkippedForGood,
       NoPriorityInversion

LEMMA ReadWorkflowKeepsPool ==
  ASSUME TypeSound, ReadWorkflow
  PROVE  pool' \in [DOMAIN pool' -> AgentType] /\ DOMAIN pool' \subseteq Agents
<1> DEFINE known == input.agents[read + 1]
<1>1. DOMAIN known \subseteq Agents /\ \A a \in DOMAIN known : known[a] \in AgentType
  <2>1. read + 1 \in 1..Len(input.agents)
    BY CrossProjectAssumption DEF TypeSound, ReadWorkflow
  <2> QED BY <2>1, CrossProjectAssumption DEF TypeSound
<1>2. \A l, r \in AgentType : Merge(l, r) \in AgentType
  <2> SUFFICES ASSUME NEW l \in AgentType, NEW r \in AgentType
               PROVE  Merge(l, r) \in AgentType
    OBVIOUS
  <2>1. MergedStatus(l.status, r.status, l.active + r.active, l.capacity + r.capacity)
          \in AgentStatus
    BY DEF MergedStatus, AgentStatus
  <2> QED BY <2>1 DEF Merge, AgentType
<1>3. pool' = [a \in DOMAIN pool \cup DOMAIN known |->
                 IF a \notin DOMAIN known THEN pool[a]
                 ELSE IF a \notin DOMAIN pool THEN known[a]
                 ELSE Merge(pool[a], known[a])]
  BY DEF ReadWorkflow
<1> HIDE DEF known
<1> QED BY <1>1, <1>2, <1>3 DEF TypeSound

\* As long as the limit is not reached, a task that was skipped for want of agents
\* stays without any.
LEMMA FullStaysFull ==
  ASSUME TypeSound, stage = "planning", NEW a \in DOMAIN pool,
         load' = [load EXCEPT ![a] = @ + 1], pool' = pool, input' = input,
         NEW x, NobodyCanHave(x)
  PROVE  NobodyCanHave(x)'
<1>1. ASSUME NEW b \in DOMAIN pool, IsFullNow(b)
      PROVE  IsFullNow(b)'
  <2>1. load[b] \in Nat /\ pool[b].capacity \in Nat
    BY DEF TypeSound, AgentType
  <2>2. load'[b] = load[b] \/ load'[b] = load[b] + 1
    BY DEF TypeSound
  <2> QED BY <1>1, <2>1, <2>2 DEF IsFullNow
<1>2. \A b : IsCapable(b, x)' = IsCapable(b, x)
  BY DEF IsCapable, Task
<1> QED BY <1>1, <1>2 DEF NobodyCanHave

LEMMA SkipSound ==
  ASSUME PlanSound, NEW x \in Tasks, NEW reason, stage = "planning",
         waiting' = waiting \ {x}, x \in waiting,
         skipped' = [skipped EXCEPT ![x] = reason],
         LimitReached \/ NobodyCanHave(x),
         UNCHANGED <<input, stage, read, pool, load, assigned>>
  PROVE  PlanSound'
<1> USE DEF PlanSound
<1>1. TypeSound' /\ DecidedWhenPlanning'
  BY DEF TypeSound, DecidedWhenPlanning
<1>2. /\ LimitReached' = LimitReached
      /\ \A y, z : MoreUrgent(y, z)' = MoreUrgent(y, z)
      /\ \A y : NobodyCanHave(y)' = NobodyCanHave(y)
      /\ \A a, y : IsCapable(a, y)' = IsCapable(a, y)
  BY DEF LimitReached, Planned, MoreUrgent, NobodyCanHave, IsFullNow, IsCapable, Task
<1>3. \A y \in Tasks \ {x} : skipped'[y] = skipped[y]
  BY DEF TypeSound
<1>4. UrgentFirst'
  BY <1>2 DEF UrgentFirst
<1>5. SkippedForGood'
  BY <1>2, <1>3 DEF SkippedForGood
<1>6. NoPriorityInversion'
  <2> SUFFICES ASSUME NEW y \in Tasks, NEW z \in Tasks,
                      skipped'[y] # None, assigned[z] # None, MoreUrgent(y, z)
               PROVE  ~IsCapable(assigned[z], y)
    BY <1>2 DEF NoPriorityInversion
  <2>1. CASE y = x
    BY <2>1 DEF UrgentFirst
  <2>2. CASE y # x
    BY <2>2, <1>3 DEF NoPriorityInversion
  <2> QED BY <2>1, <2>2
<1> QED BY <1>1, <1>4, <1>5, <1>6

LEMMA AssignSound ==
  ASSUME PlanSound, NEW x \in Tasks, NEW a \in Agents, Assign(x, a)
  PROVE  PlanSound'
<1> USE DEF PlanSound
<1>1. a \in DOMAIN pool /\ CanRunTask(a, x, load)
  BY SelectedCanRun DEF Assign
<1>2. /\ stage = "planning" /\ ~LimitReached /\ IsFirst(x)
      /\ waiting' = waiting \ {x} /\ load' = [load EXCEPT ![a] = @ + 1]
      /\ assigned' = [assigned EXCEPT ![x] = a] /\ skipped' = skipped
      /\ input' = input /\ pool' = pool /\ stage' = stage /\ read' = read
  BY DEF Assign
<1>3. TypeSound'
  BY <1>1, <1>2 DEF TypeSound
<1>4. DecidedWhenPlanning'
  BY <1>2 DEF DecidedWhenPlanning
<1>5. /\ \A y, z : MoreUrgent(y, z)' = MoreUrgent(y, z)
      /\ \A b, y : IsCapable(b, y)' = IsCapable(b, y)
  BY <1>2 DEF MoreUrgent, IsCapable, Task
<1>6. assigned'[x] = a /\ \A y \in Tasks \ {x} : assigned'[y] = assigned[y]
  BY <1>2 DEF TypeSound
<1>7. UrgentFirst'
  <2> SUFFICES ASSUME NEW y \in waiting', NEW z \in Tasks, assigned'[z] # None
               PROVE  ~MoreUrgent(y, z)
    BY <1>5 DEF UrgentFirst
  <2>1. CASE z = x
    <3>1. Outranks(x, y) /\ y \in Tasks
      BY <1>2 DEF IsFirst, TypeSound
    <3> QED BY <2>1, <3>1, OutranksMeansNotLessUrgent DEF TypeSound
  <2>2. CASE z # x
    BY <2>2, <1>2, <1>6 DEF UrgentFirst
  <2> QED BY <2>1, <2>2
<1>8. \A y \in Tasks : skipped[y] # None => NobodyCanHave(y)
  BY <1>2 DEF SkippedForGood
<1>9. SkippedForGood'
  BY <1>1, <1>2, <1>8, FullStaysFull DEF SkippedForGood
<1>10. NoPriorityInversion'
  <2> SUFFICES ASSUME NEW y \in Tasks, NEW z \in Tasks,
                      skipped[y] # None, assigned'[z] # None, MoreUrgent(y, z)
               PROVE  ~IsCapable(assigned'[z], y)
    BY <1>2, <1>5 DEF NoPriorityInversion
  <2>1. CASE z = x
    <3>1. load[a] \in Nat /\ pool[a].capacity \in Nat /\ load[a] < pool[a].capacity
      BY <1>1, <1>2 DEF TypeSound, AgentType, CanRunTask
    <3>2. ~IsFullNow(a)
      BY <3>1 DEF IsFullNow
    <3>3. ~IsCapable(a, y)
      BY <1>1, <1>8, <3>2 DEF NobodyCanHave
    <3> QED BY <2>1, <3>3, <1>6
  <2>2. CASE z # x
    BY <2>2, <1>6 DEF NoPriorityInversion
  <2> QED BY <2>1, <2>2
<1> QED BY <1>3, <1>4, <1>7, <1>9, <1>10

LEMMA StepSound ==
  ASSUME PlanSound, [Next]_vars
  PROVE  PlanSound'
<1> USE DEF PlanSound
<1>1. CASE Refuse
  BY <1>1 DEF Refuse, TypeSound, DecidedWhenPlanning, UrgentFirst, SkippedForGood,
              NoPriorityInversion
<1>2. CASE ReadWorkflow
  <2>1. TypeSound'
    BY <1>2, ReadWorkflowKeepsPool DEF TypeSound, ReadWorkflow
  <2>2. /\ DecidedWhenPlanning'
        /\ \A y \in Tasks : assigned'[y] = None /\ skipped'[y] = None
    BY <1>2 DEF ReadWorkflow, DecidedWhenPlanning
  <2> QED BY <2>1, <2>2 DEF UrgentFirst, SkippedForGood, NoPriorityInversion
<1>3. CASE StartPlanning
  <2>1. TypeSound'
    <3>1. input.ready \subseteq Tasks
      BY CrossProjectAssumption DEF TypeSound
    <3>2. load' \in [DOMAIN pool -> Nat]
      BY <1>3 DEF StartPlanning, TypeSound, AgentType
    <3> QED BY <1>3, <3>1, <3>2 DEF StartPlanning, TypeSound
  <2>2. \A y \in Tasks : assigned'[y] = None /\ skipped'[y] = None
    BY <1>3 DEF StartPlanning, DecidedWhenPlanning
  <2>3. DecidedWhenPlanning'
    BY <1>3 DEF StartPlanning, DecidedWhenPlanning
  <2> QED BY <2>1, <2>2, <2>3 DEF UrgentFirst, SkippedForGood, NoPriorityInversion
<1>4. CASE Finish
  <2>1. TypeSound' /\ DecidedWhenPlanning'
    BY <1>4 DEF Finish, TypeSound, DecidedWhenPlanning
  <2>2. UNCHANGED <<input, pool, load, waiting, assigned, skipped>>
    BY <1>4 DEF Finish
  <2> QED BY <2>1, <2>2 DEF UrgentFirst, SkippedForGood, NoPriorityInversion, MoreUrgent,
             LimitReached, Planned, NobodyCanHave, IsFullNow, IsCapable, Task
<1>5. ASSUME NEW x \in Tasks, SkipForLimit(x)
      PROVE  PlanSound'
  BY <1>5, SkipSound DEF SkipForLimit, IsFirst
<1>6. ASSUME NEW x \in Tasks, SkipForCapacity(x)
      PROVE  PlanSound'
  <2>1. /\ stage = "planning" /\ load \in [DOMAIN pool -> Nat]
        /\ DOMAIN pool \subseteq Agents /\ pool \in [DOMAIN pool -> AgentType]
    BY <1>6 DEF SkipForCapacity, TypeSound
  <2>2. \A a \in DOMAIN pool : ~CanRunTask(a, x, load)
    BY <1>6, <2>1, SelectAgentNonempty DEF SkipForCapacity
  <2>3. \A a \in DOMAIN pool : load[a] \in Nat /\ pool[a].capacity \in Nat
    BY <2>1 DEF AgentType
  <2>4. NobodyCanHave(x)
    BY <2>2, <2>3 DEF NobodyCanHave, IsFullNow, CanRunTask
  <2> QED BY <1>6, <2>4, SkipSound DEF SkipForCapacity, IsFirst
<1>7. ASSUME NEW x \in Tasks, NEW a \in Agents, Assign(x, a)
      PROVE  PlanSound'
  BY <1>7, AssignSound
<1>8. CASE UNCHANGED vars
  BY <1>8 DEF vars, TypeSound, DecidedWhenPlanning, UrgentFirst, SkippedForGood,
     NoPriorityInversion, MoreUrgent, LimitReached, Planned, NobodyCanHave, IsFullNow,
     IsCapable, Task
<1> QED BY <1>1, <1>2, <1>3, <1>4, <1>5, <1>6, <1>7, <1>8 DEF Next, Over

\* Whatever the workflows and their agents are, no task is skipped while a less urgent
\* one gets an agent that could have had it: the one pass planCrossProjectDispatch
\* makes over the sorted queue is enough.
THEOREM NoTaskIsPassedOver ==
  Spec => []NoPriorityInversion
<1>1. PlanSound /\ [Next]_vars => PlanSound'
  BY StepSound
<1>2. PlanSound => NoPriorityInversion
  BY DEF PlanSound
<1> QED BY <1>1, <1>2, InitSound, PTL DEF Spec

-----------------------------------------------------------------------------
(* The pool is the sum of the workflows read                               *)

\* The workflows read so far that know a, and what each says of it.
Known(a) == {k \in 1..read : a \in DOMAIN input.agents[k]}
CapacityIn(a) == [k \in Workflows(a) |-> input.agents[k][a].capacity]
ActiveIn(a) == [k \in Workflows(a) |-> input.agents[k][a].active]

SummedUp(a) ==
  /\ pool[a].capacity = SumFunctionOnSet(CapacityIn(a), Known(a))
  /\ pool[a].active = SumFunctionOnSet(ActiveIn(a), Known(a))
  /\ pool[a].skills = UNION {input.agents[k][a].skills : k \in Known(a)}
  /\ pool[a].status = "offline" <=> \A k \in Known(a) : input.agents[k][a].status = "offline"

PoolSound ==
  /\ TypeSound
  /\ read <= Len(input.agents)
  /\ stage \in {"planning", "planned"} => read = Len(input.agents)
  /\ DOMAIN pool = {a \in Agents : Known(a) # {}}
  /\ \A a \in DOMAIN pool : SummedUp(a)

LEMMA InputType ==
  ASSUME input \in Inputs
  PROVE  /\ input.agents = [k \in 1..Len(input.agents) |-> input.agents[k]]
         /\ Len(input.agents) \in Nat /\ DOMAIN input.agents = 1..Len(input.agents)
         /\ \A k \in 1..Len(input.agents) :
              /\ DOMAIN input.agents[k] \subseteq Agents
              /\ \A a \in DOMAIN input.agents[k] : input.agents[k][a] \in AgentType
         /\ input.ready \subseteq Tasks
BY CrossProjectAssumption

\* What the workflows say of an agent are numbers, and finitely many.
LEMMA KnownTypes ==
  ASSUME PoolSound, NEW a
  PROVE  /\ Known(a) \subseteq Workflows(a) /\ IsFiniteSet(Known(a))
         /\ \A k \in Workflows(a) : /\ CapacityIn(a)[k] \in Nat /\ ActiveIn(a)[k] \in Nat
                                    /\ input.agents[k][a] \in AgentType
<1>1. input \in Inputs /\ read \in Nat /\ read <= Len(input.agents)
  BY DEF PoolSound, TypeSound
<1>2. Known(a) \subseteq Workflows(a)
  BY <1>1, InputType DEF Known, Workflows
<1>3. IsFiniteSet(1..read)
  BY <1>1, FS_Interval
<1>4. IsFiniteSet(Known(a))
  BY <1>3, FS_Subset DEF Known
<1>5. ASSUME NEW k \in Workflows(a)
      PROVE  input.agents[k][a] \in AgentType
  BY <1>1, InputType DEF Workflows
<1> QED BY <1>2, <1>4, <1>5 DEF CapacityIn, ActiveIn, AgentType

\* When all workflows are read, the pool has the totals.
LEMMA PoolHasTotals ==
  ASSUME PoolSound, read = Len(input.agents), NEW a \in Agents
  PROVE  /\ a \in DOMAIN pool <=> Workflows(a) # {}
         /\ a \in DOMAIN pool => /\ TotalCapacity(a) = pool[a].capacity
                                 /\ TotalActive(a) = pool[a].active
         /\ \A x : Suits(a, x) => a \in DOMAIN pool /\ IsCapable(a, x)
<1>1. Known(a) = Workflows(a)
  BY InputType DEF PoolSound, TypeSound, Known, Workflows
<1>2. /\ TotalCapacity(a) = SumFunctionOnSet(CapacityIn(a), Workflows(a))
      /\ TotalActive(a) = SumFunctionOnSet(ActiveIn(a), Workflows(a))
  BY DEF TotalCapacity, TotalActive, SumFunction, CapacityIn, ActiveIn
<1>3. a \in DOMAIN pool <=> Workflows(a) # {}
  BY <1>1 DEF PoolSound
<1>4. a \in DOMAIN pool => SummedUp(a)
  BY DEF PoolSound
<1>5. ASSUME NEW x, Suits(a, x)
      PROVE  a \in DOMAIN pool /\ IsCapable(a, x)
  BY <1>1, <1>3, <1>4, <1>5 DEF Suits, SummedUp, IsCapable
<1> QED BY <1>1, <1>2, <1>3, <1>4, <1>5 DEF SummedUp

\* A workflow more is an entry more in each sum.
LEMMA ReadOneMore ==
  ASSUME PoolSound, ReadWorkflow, NEW a \in Agents
  PROVE  /\ a \in DOMAIN input.agents[read + 1] =>
              Known(a)' = Known(a) \cup {read + 1} /\ read + 1 \notin Known(a)
         /\ a \notin DOMAIN input.agents[read + 1] => Known(a)' = Known(a)
         /\ CapacityIn(a)' = CapacityIn(a) /\ ActiveIn(a)' = ActiveIn(a)
         /\ read + 1 \in 1..Len(input.agents)
<1>1. /\ read \in Nat /\ read' = read + 1 /\ input' = input /\ input \in Inputs
      /\ read < Len(input.agents) /\ Len(input.agents) \in Nat
  BY InputType DEF PoolSound, TypeSound, ReadWorkflow
<1>2. 1..read' = 1..read \cup {read + 1} /\ read + 1 \notin 1..read
  BY <1>1
<1>3. CapacityIn(a)' = CapacityIn(a) /\ ActiveIn(a)' = ActiveIn(a)
  BY <1>1 DEF CapacityIn, ActiveIn, Workflows
<1> QED BY <1>1, <1>2, <1>3 DEF Known

LEMMA AddToSum ==
  ASSUME NEW f, NEW S, IsFiniteSet(S), NEW k, k \notin S, \A x \in S \cup {k} : f[x] \in Nat
  PROVE  SumFunctionOnSet(f, S \cup {k}) = SumFunctionOnSet(f, S) + f[k]
<1>1. IsFiniteSet(S \cup {k}) /\ (S \cup {k}) \ {k} = S
  BY FS_AddElement
<1>2. SumFunctionOnSet(f, S \cup {k}) = f[k] + SumFunctionOnSet(f, (S \cup {k}) \ {k})
  BY <1>1, SumWithout
<1>3. SumFunctionOnSet(f, S) \in Nat
  BY SumOfNaturals
<1>4. f[k] \in Nat
  OBVIOUS
<1>5. SumFunctionOnSet(f, S \cup {k}) = f[k] + SumFunctionOnSet(f, S)
  BY <1>1, <1>2
<1> QED BY <1>3, <1>4, <1>5, SMT

LEMMA ReadKeepsPoolSound ==
  ASSUME PoolSound, ReadWorkflow, TypeSound'
  PROVE  PoolSound'
<1> DEFINE known == input.agents[read + 1]
<1>1. /\ read \in Nat /\ read' = read + 1 /\ input' = input /\ input \in Inputs
      /\ read < Len(input.agents) /\ Len(input.agents) \in Nat
      /\ stage = "reading" /\ stage' = "reading"
  BY InputType DEF PoolSound, TypeSound, ReadWorkflow
<1>2. /\ DOMAIN known \subseteq Agents /\ \A a \in DOMAIN known : known[a] \in AgentType
      /\ read + 1 \in 1..Len(input.agents)
  BY <1>1, InputType
<1>3. /\ DOMAIN pool' = DOMAIN pool \cup DOMAIN known
      /\ \A a \in DOMAIN pool' : pool'[a] =
           IF a \notin DOMAIN known THEN pool[a]
           ELSE IF a \notin DOMAIN pool THEN known[a]
           ELSE Merge(pool[a], known[a])
  BY DEF ReadWorkflow
<1>4. DOMAIN pool \subseteq Agents /\ DOMAIN pool = {a \in Agents : Known(a) # {}}
  BY DEF PoolSound
<1>5. \A a \in Agents : Known(a)' # {} <=> a \in DOMAIN pool' 
  BY <1>3, <1>4, ReadOneMore
<1>6. DOMAIN pool' = {a \in Agents : Known(a)' # {}}
  BY <1>2, <1>3, <1>4, <1>5
<1>7. ASSUME NEW a \in DOMAIN pool'
      PROVE  SummedUp(a)'
  <2>1. a \in Agents
    BY <1>6
  <2>2. /\ CapacityIn(a)' = CapacityIn(a) /\ ActiveIn(a)' = ActiveIn(a)
        /\ a \in DOMAIN known => Known(a)' = Known(a) \cup {read + 1} /\ read + 1 \notin Known(a)
        /\ a \notin DOMAIN known => Known(a)' = Known(a)
    BY <2>1, ReadOneMore
  <2>3. CASE a \notin DOMAIN known
    <3>1. a \in DOMAIN pool /\ pool'[a] = pool[a] /\ Known(a)' = Known(a)
      BY <1>3, <2>2, <2>3
    <3>2. SummedUp(a)
      BY <3>1 DEF PoolSound
    <3> QED BY <1>1, <2>2, <3>1, <3>2 DEF SummedUp
  <2>4. CASE a \in DOMAIN known
    <3>1. /\ Known(a)' = Known(a) \cup {read + 1} /\ read + 1 \notin Known(a)
          /\ IsFiniteSet(Known(a)) /\ Known(a) \subseteq Workflows(a)
          /\ \A k \in Workflows(a) : CapacityIn(a)[k] \in Nat /\ ActiveIn(a)[k] \in Nat
      BY <2>2, <2>4, KnownTypes
    <3>2. /\ read + 1 \in Workflows(a) /\ CapacityIn(a)[read + 1] = known[a].capacity
          /\ ActiveIn(a)[read + 1] = known[a].active
      BY <1>1, <1>2, <2>4, InputType DEF Workflows, CapacityIn, ActiveIn
    <3>3. /\ SumFunctionOnSet(CapacityIn(a), Known(a) \cup {read + 1})
               = SumFunctionOnSet(CapacityIn(a), Known(a)) + known[a].capacity
          /\ SumFunctionOnSet(ActiveIn(a), Known(a) \cup {read + 1})
               = SumFunctionOnSet(ActiveIn(a), Known(a)) + known[a].active
      BY <3>1, <3>2, AddToSum
    <3>4. known[a] \in AgentType
      BY <1>2, <2>4
    <3>5. CASE a \notin DOMAIN pool
      <4>1. pool'[a] = known[a] /\ Known(a) = {}
        BY <1>3, <1>4, <2>1, <2>4, <3>5
      <4>2. /\ SumFunctionOnSet(CapacityIn(a), Known(a)) = 0
            /\ SumFunctionOnSet(ActiveIn(a), Known(a)) = 0
        BY <4>1, SumEmpty
      <4>3. /\ pool'[a].capacity = SumFunctionOnSet(CapacityIn(a), Known(a)')
            /\ pool'[a].active = SumFunctionOnSet(ActiveIn(a), Known(a)')
        BY <3>1, <3>3, <3>4, <4>1, <4>2 DEF AgentType
      <4>4. Known(a)' = {read + 1}
        BY <3>1, <4>1
      <4>5. /\ pool'[a].skills = UNION {input.agents[k][a].skills : k \in Known(a)'}
            /\ pool'[a].status = "offline" <=>
                 \A k \in Known(a)' : input.agents[k][a].status = "offline"
        BY <4>1, <4>4
      <4> QED BY <1>1, <2>2, <4>3, <4>5 DEF SummedUp
    <3>6. CASE a \in DOMAIN pool
      <4>1. pool'[a] = Merge(pool[a], known[a]) /\ SummedUp(a) /\ pool[a] \in AgentType
        BY <1>3, <2>4, <3>6 DEF PoolSound, TypeSound
      <4>2. /\ pool'[a].capacity = pool[a].capacity + known[a].capacity
            /\ pool'[a].active = pool[a].active + known[a].active
            /\ pool'[a].skills = pool[a].skills \cup known[a].skills
            /\ pool'[a].status = "offline" <=>
                 pool[a].status = "offline" /\ known[a].status = "offline"
        BY <4>1 DEF Merge, MergedStatus
      <4>3. /\ pool'[a].capacity = SumFunctionOnSet(CapacityIn(a), Known(a)')
            /\ pool'[a].active = SumFunctionOnSet(ActiveIn(a), Known(a)')
        BY <3>1, <3>3, <4>1, <4>2 DEF SummedUp
      <4>4. pool'[a].skills = UNION {input.agents[k][a].skills : k \in Known(a)'}
        BY <3>1, <4>1, <4>2 DEF SummedUp
      <4>5. pool'[a].status = "offline" <=>
              \A k \in Known(a)' : input.agents[k][a].status = "offline"
        BY <3>1, <4>1, <4>2 DEF SummedUp
      <4> QED BY <1>1, <2>2, <4>3, <4>4, <4>5 DEF SummedUp
    <3> QED BY <3>5, <3>6
  <2> QED BY <2>3, <2>4
<1> QED BY <1>1, <1>6, <1>7 DEF PoolSound

LEMMA PoolSoundStep ==
  ASSUME PoolSound, TypeSound', [Next]_vars
  PROVE  PoolSound'
<1>1. CASE ReadWorkflow
  BY <1>1, ReadKeepsPoolSound
<1>2. CASE ~ReadWorkflow
  <2>1. UNCHANGED <<input, read, pool>>
    BY <1>2 DEF Next, Refuse, StartPlanning, SkipForLimit, SkipForCapacity, Assign, Finish,
                Over, vars
  <2>2. stage' \in {"planning", "planned"} =>
          stage \in {"planning", "planned"} \/ read = Len(input.agents)
    BY <1>2 DEF Next, Refuse, StartPlanning, SkipForLimit, SkipForCapacity, Assign, Finish,
                Over, vars
  <2>3. \A a : /\ Known(a)' = Known(a) /\ SummedUp(a)' = SummedUp(a)
    BY <2>1 DEF Known, SummedUp, CapacityIn, ActiveIn, Workflows
  <2> QED BY <2>1, <2>2, <2>3 DEF PoolSound
<1> QED BY <1>1, <1>2

-----------------------------------------------------------------------------
(* Who is counted, who is full, and what is decided                        *)

Preferred(x) == DOMAIN pool \cap {Task(x).preferred}
Deciding == stage \in {"planning", "planned"}

\* The load of an agent is what the workflows have it do and what is planned for it.
Counted ==
  Deciding => \A a \in DOMAIN pool :
    /\ load[a] = pool[a].active + Cardinality(PlannedFor(a))
    /\ PlannedFor(a) # {} => load[a] <= pool[a].capacity

\* Every task of the queue is waiting, planned or skipped, and only one of them.
Decided ==
  Deciding =>
    /\ \A x \in Tasks : assigned[x] # None => assigned[x] \in DOMAIN pool
    /\ \A x \in waiting : assigned[x] = None /\ skipped[x] = None
    /\ \A x \in input.ready \ waiting : assigned[x] = None <=> skipped[x] # None
    /\ stage = "planned" => waiting = {}

\* Whoever was passed over has no room, and gets none again.
PassedOverForGood ==
  Deciding => \A x \in Tasks :
    /\ skipped[x] = "agent_capacity" => NobodyCanHave(x)
    /\ assigned[x] # None =>
         \A a \in Preferred(x) \ {assigned[x]} : IsCapable(a, x) => IsFullNow(a)

QueueSound == PoolSound /\ PlanSound /\ Counted /\ Decided /\ PassedOverForGood

LEMMA PlannedForFinite ==
  ASSUME NEW a
  PROVE  IsFiniteSet(PlannedFor(a)) /\ Cardinality(PlannedFor(a)) \in Nat
BY CrossProjectAssumption, FS_Subset, FS_CardinalityType DEF PlannedFor

LEMMA StartCounted ==
  ASSUME QueueSound, StartPlanning, PlanSound', PoolSound'
  PROVE  QueueSound'
<1>1. /\ stage = "reading" /\ waiting' = input.ready /\ stage' = "planning"
      /\ load' = [a \in DOMAIN pool |-> pool[a].active]
      /\ UNCHANGED <<input, read, pool, assigned, skipped>>
  BY DEF StartPlanning
<1>2. \A x \in Tasks : assigned[x] = None /\ skipped[x] = None
  BY <1>1 DEF QueueSound, PlanSound, DecidedWhenPlanning
<1>3. input.ready \subseteq Tasks /\ DOMAIN pool \subseteq Agents
  BY InputType DEF QueueSound, PlanSound, TypeSound
<1>4. Counted'
  <2> SUFFICES ASSUME NEW a \in DOMAIN pool
               PROVE  load'[a] = pool[a].active + Cardinality(PlannedFor(a)') /\ PlannedFor(a)' = {}
    BY <1>1 DEF Counted
  <2>1. PlannedFor(a)' = {}
    BY <1>1, <1>2, <1>3, CrossProjectAssumption DEF PlannedFor
  <2>2. pool[a].active \in Nat
    BY DEF QueueSound, PlanSound, TypeSound, AgentType
  <2> QED BY <1>1, <2>1, <2>2, FS_EmptySet
<1>5. Decided'
  BY <1>1, <1>2, <1>3 DEF Decided
<1>6. PassedOverForGood'
  <2>1. "agent_capacity" # None
    BY CrossProjectAssumption
  <2> QED BY <1>1, <1>2, <2>1 DEF PassedOverForGood
<1> QED BY <1>4, <1>5, <1>6 DEF QueueSound

\* A task is skipped for want of agents only when nobody can have it.
LEMMA SkipKeepsCounted ==
  ASSUME QueueSound, PlanSound', PoolSound', NEW x \in Tasks, NEW reason,
         stage = "planning", waiting' = waiting \ {x}, x \in waiting,
         skipped' = [skipped EXCEPT ![x] = reason], reason # None,
         reason = "agent_capacity" => NobodyCanHave(x),
         UNCHANGED <<input, stage, read, pool, load, assigned>>
  PROVE  QueueSound'
<1>1. DOMAIN skipped = Tasks
  BY DEF QueueSound, PlanSound, TypeSound
<1>2. skipped'[x] = reason /\ \A y \in Tasks \ {x} : skipped'[y] = skipped[y]
  BY <1>1
<1>3. Counted'
  BY DEF QueueSound, Counted, Deciding, PlannedFor
<1>4. Decided'
  BY <1>2 DEF QueueSound, PlanSound, TypeSound, Decided, Deciding
<1>5. /\ \A y : NobodyCanHave(y)' = NobodyCanHave(y) /\ Preferred(y)' = Preferred(y)
      /\ \A a, y : IsCapable(a, y)' = IsCapable(a, y)
      /\ \A a : IsFullNow(a)' = IsFullNow(a)
  BY DEF NobodyCanHave, Preferred, IsFullNow, IsCapable, Task
<1>6. PassedOverForGood'
  BY <1>2, <1>5 DEF QueueSound, PassedOverForGood, Deciding
<1> QED BY <1>3, <1>4, <1>6 DEF QueueSound

LEMMA AssignCounts ==
  ASSUME QueueSound, NEW x \in Tasks, NEW a \in Agents, Assign(x, a)
  PROVE  Counted'
<1>1. /\ stage = "planning" /\ x \in waiting /\ stage' = stage /\ pool' = pool
      /\ load' = [load EXCEPT ![a] = @ + 1] /\ assigned' = [assigned EXCEPT ![x] = a]
      /\ a \in DOMAIN pool /\ load[a] < pool[a].capacity
  BY SelectedCanRun DEF Assign, IsFirst, CanRunTask
<1>2. /\ load \in [DOMAIN pool -> Nat] /\ assigned \in [Tasks -> Agents \cup {None}]
      /\ assigned[x] = None /\ a # None
      /\ \A b \in DOMAIN pool : pool[b].capacity \in Nat /\ pool[b].active \in Nat
  BY <1>1, CrossProjectAssumption
     DEF QueueSound, PlanSound, TypeSound, AgentType, Decided, Deciding
<1>3. \A b \in DOMAIN pool : /\ load[b] = pool[b].active + Cardinality(PlannedFor(b))
                             /\ PlannedFor(b) # {} => load[b] <= pool[b].capacity
  BY <1>1 DEF QueueSound, Counted, Deciding
<1>4. assigned'[x] = a /\ \A y \in Tasks \ {x} : assigned'[y] = assigned[y]
  BY <1>1, <1>2
<1>5. PlannedFor(a)' = PlannedFor(a) \cup {x} /\ x \notin PlannedFor(a)
  BY <1>2, <1>4 DEF PlannedFor
<1>6. Cardinality(PlannedFor(a)') = Cardinality(PlannedFor(a)) + 1
  BY <1>5, PlannedForFinite, FS_AddElement
<1>7. \A b \in DOMAIN pool \ {a} : PlannedFor(b)' = PlannedFor(b)
  <2> SUFFICES ASSUME NEW b \in DOMAIN pool \ {a}
               PROVE  PlannedFor(b)' = PlannedFor(b)
    OBVIOUS
  <2>1. b # None
    BY CrossProjectAssumption DEF QueueSound, PlanSound, TypeSound
  <2>2. \A y \in Tasks : assigned'[y] = b <=> assigned[y] = b
    BY <1>2, <1>4, <2>1
  <2> QED BY <2>2 DEF PlannedFor
<1>8. ASSUME NEW b \in DOMAIN pool
      PROVE  /\ load'[b] = pool[b].active + Cardinality(PlannedFor(b)')
             /\ PlannedFor(b)' # {} => load'[b] <= pool[b].capacity
  <2>1. CASE b = a
    <3>1. load'[a] = load[a] + 1
      BY <1>1, <1>2
    <3>2. load[a] = pool[a].active + Cardinality(PlannedFor(a))
      BY <1>1, <1>3
    <3>3. /\ load[a] \in Nat /\ pool[a].active \in Nat /\ pool[a].capacity \in Nat
          /\ Cardinality(PlannedFor(a)) \in Nat
      BY <1>1, <1>2, PlannedForFinite
    <3>4. load'[a] = pool[a].active + Cardinality(PlannedFor(a)')
      BY <1>6, <3>1, <3>2, <3>3
    <3>5. load'[a] <= pool[a].capacity
      BY <1>1, <3>1, <3>3
    <3> QED BY <2>1, <3>4, <3>5
  <2>2. CASE b # a
    BY <1>1, <1>2, <1>3, <1>7, <2>2
  <2> QED BY <2>1, <2>2
<1> QED BY <1>1, <1>8 DEF Counted

\* The preferred agent is passed over only when it cannot have the task.
LEMMA PreferredFirst ==
  ASSUME NEW x, NEW loads, NEW a \in SelectAgent(x, loads), NEW b \in Preferred(x), b # a
  PROVE  ~CanRunTask(b, x, loads)
BY DEF SelectAgent, Preferred

LEMMA AssignDecides ==
  ASSUME QueueSound, NEW x \in Tasks, NEW a \in Agents, Assign(x, a)
  PROVE  Decided' /\ PassedOverForGood'
<1>1. /\ stage = "planning" /\ x \in waiting /\ waiting' = waiting \ {x}
      /\ load' = [load EXCEPT ![a] = @ + 1] /\ assigned' = [assigned EXCEPT ![x] = a]
      /\ UNCHANGED <<input, stage, read, pool, skipped>>
      /\ a \in SelectAgent(x, load) /\ a \in DOMAIN pool
  BY SelectedCanRun DEF Assign, IsFirst
<1>2. /\ load \in [DOMAIN pool -> Nat] /\ assigned \in [Tasks -> Agents \cup {None}]
      /\ \A b \in DOMAIN pool : pool[b].capacity \in Nat /\ DOMAIN pool \subseteq Agents
      /\ waiting \subseteq Tasks /\ a # None
  BY <1>1, CrossProjectAssumption DEF QueueSound, PlanSound, TypeSound, AgentType
<1>3. /\ \A y \in Tasks : assigned[y] # None => assigned[y] \in DOMAIN pool
      /\ \A y \in waiting : assigned[y] = None /\ skipped[y] = None
      /\ \A y \in input.ready \ waiting : assigned[y] = None <=> skipped[y] # None
      /\ \A y \in Tasks :
           /\ skipped[y] = "agent_capacity" => NobodyCanHave(y)
           /\ assigned[y] # None =>
                \A b \in Preferred(y) \ {assigned[y]} : IsCapable(b, y) => IsFullNow(b)
  BY <1>1 DEF QueueSound, Decided, PassedOverForGood, Deciding
<1>4. assigned'[x] = a /\ \A y \in Tasks \ {x} : assigned'[y] = assigned[y]
  BY <1>1, <1>2
<1>5. Decided'
  <2>1. \A y \in Tasks : assigned'[y] # None => assigned'[y] \in DOMAIN pool
    BY <1>1, <1>3, <1>4
  <2>2. \A y \in waiting' : assigned'[y] = None /\ skipped'[y] = None
    BY <1>1, <1>2, <1>3, <1>4
  <2>3. \A y \in input.ready \ waiting' : assigned'[y] = None <=> skipped'[y] # None
    <3>1. input.ready \subseteq Tasks
      BY InputType DEF QueueSound, PlanSound, TypeSound
    <3> SUFFICES ASSUME NEW y \in input.ready \ waiting'
                 PROVE  assigned'[y] = None <=> skipped'[y] # None
      OBVIOUS
    <3>2. CASE y = x
      BY <3>2, <1>1, <1>2, <1>3, <1>4
    <3>3. CASE y # x
      BY <3>1, <3>3, <1>1, <1>3, <1>4
    <3> QED BY <3>2, <3>3
  <2> QED BY <1>1, <2>1, <2>2, <2>3 DEF Decided
<1>6. PassedOverForGood'
  <2>1. /\ \A b, y : IsCapable(b, y)' = IsCapable(b, y)
        /\ \A y : Preferred(y)' = Preferred(y)
    BY <1>1 DEF IsCapable, Preferred, Task
  <2>2. \A b \in DOMAIN pool : IsFullNow(b) => IsFullNow(b)'
    <3>1. \A b \in DOMAIN pool : load'[b] \in Nat /\ load[b] <= load'[b]
      BY <1>1, <1>2
    <3> QED BY <1>1, <1>2, <3>1 DEF IsFullNow
  <2>3. \A y : NobodyCanHave(y) => NobodyCanHave(y)'
    BY <1>1, <2>1, <2>2 DEF NobodyCanHave
  <2>4. \A b \in Preferred(x) \ {a} : IsCapable(b, x) => IsFullNow(b)
    <3>1. \A b \in Preferred(x) \ {a} : ~CanRunTask(b, x, load) /\ b \in DOMAIN pool
      BY <1>1, PreferredFirst DEF Preferred
    <3> QED BY <3>1, <1>2 DEF CanRunTask, IsFullNow
  <2>5. \A y : Preferred(y) \subseteq DOMAIN pool
    BY DEF Preferred
  <2>6. ASSUME NEW y \in Tasks, assigned'[y] # None,
               NEW b \in Preferred(y) \ {assigned'[y]}, IsCapable(b, y)
        PROVE  IsFullNow(b)'
    <3>1. CASE y = x
      BY <2>2, <2>4, <2>5, <2>6, <1>4, <3>1
    <3>2. CASE y # x
      BY <2>2, <2>5, <2>6, <1>3, <1>4, <3>2
    <3> QED BY <3>1, <3>2
  <2> QED BY <1>1, <1>3, <2>1, <2>3, <2>6 DEF PassedOverForGood
<1> QED BY <1>5, <1>6

LEMMA QueueInit ==
  Init => QueueSound
<1> SUFFICES ASSUME Init
             PROVE  QueueSound
  OBVIOUS
<1>1. /\ input \in Inputs /\ stage = "reading" /\ read = 0 /\ DOMAIN pool = {}
  BY DEF Init
<1>2. PlanSound
  BY InitSound
<1>3. Len(input.agents) \in Nat /\ \A a : Known(a) = {}
  BY <1>1, InputType DEF Known
<1>4. PoolSound
  BY <1>1, <1>2, <1>3 DEF PoolSound, PlanSound
<1> QED BY <1>1, <1>2, <1>4 DEF QueueSound, Counted, Decided, PassedOverForGood, Deciding

LEMMA QueueStep ==
  ASSUME QueueSound, [Next]_vars
  PROVE  QueueSound'
<1>1. PlanSound' /\ PoolSound'
  BY StepSound, PoolSoundStep DEF QueueSound, PlanSound
<1>2. CASE Refuse \/ ReadWorkflow
  <2>1. ~Deciding'
    BY <1>2 DEF Refuse, ReadWorkflow, Deciding
  <2> QED BY <1>1, <2>1 DEF QueueSound, Counted, Decided, PassedOverForGood
<1>3. CASE StartPlanning
  BY <1>1, <1>3, StartCounted
<1>4. ASSUME NEW x \in Tasks, SkipForLimit(x)
      PROVE  QueueSound'
  <2>1. /\ None # "dispatch_limit"
    BY CrossProjectAssumption
  <2> QED BY <1>1, <1>4, <2>1, SkipKeepsCounted DEF SkipForLimit, IsFirst
<1>5. ASSUME NEW x \in Tasks, SkipForCapacity(x)
      PROVE  QueueSound'
  <2>1. /\ stage = "planning" /\ load \in [DOMAIN pool -> Nat]
        /\ DOMAIN pool \subseteq Agents /\ pool \in [DOMAIN pool -> AgentType]
    BY <1>5 DEF SkipForCapacity, QueueSound, PlanSound, TypeSound
  <2>2. \A a \in DOMAIN pool : ~CanRunTask(a, x, load)
    BY <1>5, <2>1, SelectAgentNonempty DEF SkipForCapacity
  <2>3. NobodyCanHave(x)
    BY <2>1, <2>2 DEF NobodyCanHave, IsFullNow, CanRunTask, AgentType
  <2>4. "agent_capacity" # None
    BY CrossProjectAssumption
  <2> QED BY <1>1, <1>5, <2>3, <2>4, SkipKeepsCounted DEF SkipForCapacity, IsFirst
<1>6. ASSUME NEW x \in Tasks, NEW a \in Agents, Assign(x, a)
      PROVE  QueueSound'
  BY <1>1, <1>6, AssignCounts, AssignDecides DEF QueueSound
<1>7. CASE Finish \/ UNCHANGED vars
  <2>1. /\ UNCHANGED <<input, pool, load, waiting, assigned, skipped>>
        /\ Deciding' => Deciding
        /\ stage' = "planned" => waiting = {} \/ stage = "planned"
    BY <1>7 DEF Finish, vars, Deciding
  <2>2. /\ \A y : NobodyCanHave(y)' = NobodyCanHave(y) /\ Preferred(y)' = Preferred(y)
        /\ \A a, y : IsCapable(a, y)' = IsCapable(a, y)
        /\ \A a : IsFullNow(a)' = IsFullNow(a) /\ PlannedFor(a)' = PlannedFor(a)
    BY <2>1 DEF NobodyCanHave, Preferred, IsFullNow, IsCapable, Task, PlannedFor
  <2>3. Counted' /\ PassedOverForGood'
    BY <2>1, <2>2 DEF QueueSound, Counted, PassedOverForGood
  <2>4. Decided'
    BY <2>1, <2>2 DEF QueueSound, Decided
  <2> QED BY <1>1, <2>3, <2>4 DEF QueueSound
<1> QED BY <1>2, <1>3, <1>4, <1>5, <1>6, <1>7 DEF Next, Over

\* Over all the workflows that know it, no agent is planned for more than it has slots
\* left: getCapacityRemaining counts in the pool what buildGlobalAgentPool summed up.
THEOREM NobodyIsOverbooked ==
  Spec => []NobodyOverbooked
<1>1. QueueSound => NobodyOverbooked
  <2> SUFFICES ASSUME QueueSound, NEW a \in Agents, PlannedFor(a) # {}
               PROVE  TotalActive(a) + Cardinality(PlannedFor(a)) <= TotalCapacity(a)
    BY DEF NobodyOverbooked
  <2>1. PICK x \in Tasks : assigned[x] = a
    BY DEF PlannedFor
  <2>2. a # None
    BY CrossProjectAssumption
  <2>3. Deciding
    BY <2>1, <2>2 DEF QueueSound, PlanSound, DecidedWhenPlanning, TypeSound, Deciding
  <2>4. a \in DOMAIN pool /\ read = Len(input.agents)
    BY <2>1, <2>2, <2>3 DEF QueueSound, Decided, PoolSound, Deciding
  <2>5. TotalCapacity(a) = pool[a].capacity /\ TotalActive(a) = pool[a].active
    BY <2>4, PoolHasTotals DEF QueueSound
  <2> QED BY <2>3, <2>4, <2>5 DEF QueueSound, Counted
<1> QED BY <1>1, QueueInit, QueueStep, PTL DEF Spec

\* One pass over the queue is enough: a task without an agent, and a preferred agent
\* without the task, are so because there is no room in any of the workflows, also when
\* the plan is finished.
THEOREM NothingIsLeftInVain ==
  Spec => []NothingLeftInVain
<1>1. QueueSound => NothingLeftInVain
  <2> SUFFICES ASSUME QueueSound, stage = "planned", NEW x \in input.ready
               PROVE  /\ (assigned[x] = None) = (skipped[x] # None)
                      /\ skipped[x] = "agent_capacity" =>
                           \A a \in Agents : Suits(a, x) => IsFull(a)
                      /\ assigned[x] # None =>
                           \A a \in Agents \ {assigned[x]} :
                             a = Task(x).preferred /\ Suits(a, x) => IsFull(a)
    BY DEF NothingLeftInVain
  <2>1. Deciding /\ x \in Tasks /\ x \in input.ready \ waiting /\ read = Len(input.agents)
    BY InputType DEF QueueSound, PlanSound, TypeSound, PoolSound, Decided, Deciding
  <2>2. assigned[x] = None <=> skipped[x] # None
    BY <2>1 DEF QueueSound, Decided
  <2>3. ASSUME NEW a \in Agents, Suits(a, x)
        PROVE  a \in DOMAIN pool /\ IsCapable(a, x) /\ (IsFullNow(a) => IsFull(a))
    <3>1. /\ a \in DOMAIN pool /\ IsCapable(a, x)
          /\ TotalCapacity(a) = pool[a].capacity /\ TotalActive(a) = pool[a].active
      BY <2>1, <2>3, PoolHasTotals DEF QueueSound
    <3>2. load[a] = pool[a].active + Cardinality(PlannedFor(a))
      BY <2>1, <3>1 DEF QueueSound, Counted
    <3> QED BY <3>1, <3>2 DEF IsFullNow, IsFull
  <2>4. skipped[x] = "agent_capacity" => NobodyCanHave(x)
    BY <2>1 DEF QueueSound, PassedOverForGood
  <2>5. assigned[x] # None =>
          \A a \in Preferred(x) \ {assigned[x]} : IsCapable(a, x) => IsFullNow(a)
    BY <2>1 DEF QueueSound, PassedOverForGood
  <2>6. ASSUME NEW a \in Agents, a # assigned[x], assigned[x] # None,
               a = Task(x).preferred, Suits(a, x)
        PROVE  IsFull(a)
    <3>1. a \in Preferred(x) /\ IsCapable(a, x)
      BY <2>3, <2>6 DEF Preferred
    <3> QED BY <2>3, <2>5, <2>6, <3>1
  <2>7. ASSUME NEW a \in Agents, skipped[x] = "agent_capacity", Suits(a, x)
        PROVE  IsFull(a)
    BY <2>3, <2>4, <2>7 DEF NobodyCanHave
  <2> QED BY <2>2, <2>6, <2>7
<1> QED BY <1>1, QueueInit, QueueStep, PTL DEF Spec
-----------------------------------------------------------------------------
(* The queue is put in one order                                           *)

BestLoad(x) == Loads[CHOOSE a \in SelectAgent(x, Loads) : TRUE]
Before(x, y) == LighterThan(x, y) \/ (~LighterThan(y, x) /\ ComesBefore(x, y))

LEMMA OneIsSelected ==
  ASSUME TypeSound, NEW x, NEW a \in SelectAgent(x, Loads), NEW b \in SelectAgent(x, Loads)
  PROVE  a = b
<1> DEFINE able == {c \in DOMAIN pool : CanRunTask(c, x, Loads)}
<1> DEFINE preferred == able \cap {Task(x).preferred}
<1>1. CASE preferred # {}
  BY <1>1 DEF SelectAgent
<1>2. CASE preferred = {}
  <2>1. /\ a \in able /\ b \in able
        /\ Loads[a] < Loads[b] \/ (Loads[a] = Loads[b] /\ Rank[a] <= Rank[b])
        /\ Loads[b] < Loads[a] \/ (Loads[b] = Loads[a] /\ Rank[b] <= Rank[a])
    BY <1>2 DEF SelectAgent
  <2>2. /\ a \in DOMAIN pool /\ b \in DOMAIN pool /\ a \in Agents /\ b \in Agents
        /\ Loads[a] \in Nat /\ Loads[b] \in Nat
    BY <2>1 DEF TypeSound, Loads, AgentType
  <2>3. Rank[a] \in Nat /\ Rank[b] \in Nat
    BY <2>2, CrossProjectAssumption
  <2>4. Rank[a] = Rank[b]
    BY <2>1, <2>2, <2>3
  <2> QED BY <2>2, <2>4, CrossProjectAssumption
<1> QED BY <1>1, <1>2

LEMMA LighterByLoad ==
  ASSUME TypeSound
  PROVE  /\ \A x : ~Unable(x) => BestLoad(x) \in Nat
         /\ \A x, y : LighterThan(x, y) <=>
                        ~Unable(x) /\ (Unable(y) \/ BestLoad(x) < BestLoad(y))
<1>1. ASSUME NEW x, ~Unable(x)
      PROVE  /\ BestLoad(x) \in Nat
             /\ \E a : SelectAgent(x, Loads) = {a} /\ BestLoad(x) = Loads[a]
  <2> DEFINE a == CHOOSE a \in SelectAgent(x, Loads) : TRUE
  <2>1. a \in SelectAgent(x, Loads)
    BY <1>1 DEF Unable
  <2>2. SelectAgent(x, Loads) = {a}
    BY <2>1, OneIsSelected
  <2>3. Loads[a] \in Nat
    BY <2>1, SelectedCanRun DEF TypeSound, Loads, AgentType
  <2> QED BY <2>2, <2>3 DEF BestLoad
<1>2. ASSUME NEW x, NEW y
      PROVE  LighterThan(x, y) <=> ~Unable(x) /\ (Unable(y) \/ BestLoad(x) < BestLoad(y))
  <2>1. CASE Unable(x)
    BY <2>1 DEF LighterThan, Unable
  <2>2. CASE ~Unable(x) /\ Unable(y)
    BY <2>2 DEF LighterThan, Unable
  <2>3. CASE ~Unable(x) /\ ~Unable(y)
    <3>1. PICK a : SelectAgent(x, Loads) = {a} /\ BestLoad(x) = Loads[a]
      BY <1>1, <2>3
    <3>2. PICK b : SelectAgent(y, Loads) = {b} /\ BestLoad(y) = Loads[b]
      BY <1>1, <2>3
    <3> QED BY <2>3, <3>1, <3>2 DEF LighterThan
  <2> QED BY <2>1, <2>2, <2>3
<1> QED BY <1>1, <1>2

\* Before looks at the load, where "nobody" is more than every load, then at the place in
\* the queue among those nobody can run and at the id among the others.
LEMMA BeforeIsStrict ==
  ASSUME TypeSound, NEW x \in Tasks, NEW y \in Tasks, NEW z \in Tasks
  PROVE  /\ x # y => (Before(x, y) <=> ~Before(y, x))
         /\ Before(x, y) /\ Before(y, z) => Before(x, z)
<1> DEFINE Lighter(v, w) == ~Unable(v) /\ (Unable(w) \/ BestLoad(v) < BestLoad(w))
<1>1. /\ Rank[x] \in Nat /\ Rank[y] \in Nat /\ Rank[z] \in Nat
      /\ QueueRank[x] \in Nat /\ QueueRank[y] \in Nat /\ QueueRank[z] \in Nat
      /\ x # y => Rank[x] # Rank[y] /\ QueueRank[x] # QueueRank[y]
  BY CrossProjectAssumption
<1>2. /\ ~Unable(x) => BestLoad(x) \in Nat
      /\ ~Unable(y) => BestLoad(y) \in Nat
      /\ ~Unable(z) => BestLoad(z) \in Nat
  BY LighterByLoad
<1>3. \A v, w : Before(v, w) <=> Lighter(v, w) \/ (~Lighter(w, v) /\ ComesBefore(v, w))
  BY LighterByLoad DEF Before
<1>4. x # y => (Before(x, y) <=> ~Before(y, x))
  BY <1>1, <1>2, <1>3 DEF ComesBefore
<1>5. Before(x, y) /\ Before(y, z) => Before(x, z)
  BY <1>1, <1>2, <1>3 DEF ComesBefore
<1> QED BY <1>4, <1>5

\* The comparisons of sortDispatchCandidates are a strict order of the queue: urgency,
\* project priority and risk are numbers, and the load is one or infinite.
THEOREM QueueHasOneOrder ==
  Spec => []OrderIsStrict
<1>1. PlanSound => OrderIsStrict
  <2> SUFFICES ASSUME PlanSound, NEW x \in input.ready, NEW y \in input.ready,
                      NEW z \in input.ready
               PROVE  /\ x # y => (Outranks(x, y) <=> ~Outranks(y, x))
                      /\ Outranks(x, y) /\ Outranks(y, z) => Outranks(x, z)
    BY DEF OrderIsStrict
  <2>1. /\ TypeSound /\ x \in Tasks /\ y \in Tasks /\ z \in Tasks
        /\ input.task \in [Tasks -> TaskType]
    BY CrossProjectAssumption DEF PlanSound, TypeSound
  <2>2. \A t \in {x, y, z} :
          Task(t).user \in Nat /\ Task(t).project \in Nat /\ Task(t).risk \in Nat
    BY <2>1 DEF TaskType, Task
  <2>3. \A v, w : Outranks(v, w) <=>
          \/ Task(v).user > Task(w).user
          \/ Task(v).user = Task(w).user /\ Task(v).project > Task(w).project
          \/ /\ Task(v).user = Task(w).user /\ Task(v).project = Task(w).project
             /\ \/ Task(v).risk < Task(w).risk
                \/ Task(v).risk = Task(w).risk /\ Before(v, w)
    BY DEF Outranks, Before
  <2>4. x # y => (Before(x, y) <=> ~Before(y, x))
    BY <2>1, BeforeIsStrict
  <2>5. Before(x, y) /\ Before(y, z) => Before(x, z)
    BY <2>1, BeforeIsStrict
  <2>6. x # y => (Outranks(x, y) <=> ~Outranks(y, x))
    BY <2>2, <2>3, <2>4
  <2>7. Outranks(x, y) /\ Outranks(y, z) => Outranks(x, z)
    BY <2>2, <2>3, <2>5
  <2> QED BY <2>6, <2>7
<1> QED BY <1>1, InitSound, StepSound, PTL DEF Spec
===============================================================================
