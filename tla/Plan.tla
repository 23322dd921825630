-------------------------------- MODULE Plan --------------------------------
(***************************************************************************)
(* What a validated plan and its normalised execution policy fix for the   *)
(* whole life of a workflow: the tasks, their dependencies and hints       *)
(* (models/plan.ts, models/task.ts, plan_loader.ts) and the two pure       *)
(* judgements the scheduler makes about them, the predicted file conflict  *)
(* (conflict_detector.ts) and the risk score (risk_scorer.ts).             *)
(***************************************************************************)
EXTENDS Integers, FiniteSets

CONSTANTS
  Tasks,            \* the task ids of the plan
  Files,            \* the paths tasks expect to change or report as changed
  Agents,           \* agent ids, which are also the node ids of the registry
  None,             \* JavaScript's null
  Position,         \* Position[t]: where t stands among the plan's tasks
  DependsOn,        \* DependsOn[t]: the tasks t waits for
  NonParallel,      \* the tasks marked can_parallel = false
  Risk,             \* Risk[t]: the declared risk level
  ExpectedFiles,    \* ExpectedFiles[t]: {} when the plan names none
  PreferredAgent,   \* PreferredAgent[t]: an agent or None
  NeedsCapability,  \* the tasks whose required_capabilities is not empty
  DirectoryScope,   \* DirectoryScope[f]: f cut at directory_conflict_depth
  GlobMatches,      \* the pairs <<p, f>> where p, read as a glob, matches f
  Policy            \* the normalised execution policy, a record

RiskLevels == {"low", "medium", "high", "critical"}

\* The policy fields the scheduler and the worker pool read, with their names
\* in models/plan.ts; nested policies are flattened.  risk_aware is true when either
\* selection_order is "risk_aware" or prefer_low_risk_first is set.  Numbers are natural:
\* plans are written so, and validateDag looks no further than that there is an object.
PolicyType ==
  [max_parallel_tasks : Nat, max_agents : Nat, high_risk_parallel_limit : Nat,
   risk_aware : BOOLEAN,
   conflict_mode : {"exact", "directory", "glob"},
   unknown_files_policy : {"allow", "serialize", "require_review"},
   explicit_risk : Nat, expected_files_count : Nat, missing_expected_files : Nat,
   retry_weight : Nat, preferred_agent_missing : Nat,
   max_retries : Nat, retry_on : SUBSET STRING,
   max_tasks_per_agent : Nat, respect_preferred_agent : BOOLEAN,
   fallback_agent : Agents]

ASSUME PlanAssumption ==
  /\ IsFiniteSet(Tasks) /\ IsFiniteSet(Agents)
  /\ None \notin Agents
  /\ Position \in [Tasks -> Nat]
  /\ \A t, u \in Tasks : Position[t] = Position[u] => t = u
  /\ DependsOn \in [Tasks -> SUBSET Tasks]
  /\ NonParallel \subseteq Tasks /\ NeedsCapability \subseteq Tasks
  /\ Risk \in [Tasks -> RiskLevels]
  /\ ExpectedFiles \in [Tasks -> SUBSET Files]
  /\ \A t \in Tasks : IsFiniteSet(ExpectedFiles[t])
  /\ PreferredAgent \in [Tasks -> Agents \cup {None}]
  /\ Policy \in PolicyType

-----------------------------------------------------------------------------
(* Predicted file conflicts                                                *)

\* Two paths clash under the policy's mode: the same path, the same directory
\* prefix, or one a glob for the other, tried both ways.
PathsOverlap(f, g) ==
  \/ f = g
  \/ Policy.conflict_mode = "directory" /\ DirectoryScope[f] = DirectoryScope[g]
  \/ Policy.conflict_mode = "glob" /\ {<<f, g>>, <<g, f>>} \cap GlobMatches # {}

\* A task with no expected files conflicts with every task or with none.
Conflict(t, u) ==
  IF ExpectedFiles[t] = {} \/ ExpectedFiles[u] = {}
    THEN Policy.unknown_files_policy = "serialize"
    ELSE \E f \in ExpectedFiles[t], g \in ExpectedFiles[u] : PathsOverlap(f, g)

-----------------------------------------------------------------------------
(* Risk                                                                    *)

IsHighRisk(t) == Risk[t] \in {"high", "critical"}

ExplicitRiskBase ==
  [low |-> 1, medium |-> 3, high |-> 7, critical |-> 10]

Score(t, retries) ==
  ExplicitRiskBase[Risk[t]] * Policy.explicit_risk
  + (IF ExpectedFiles[t] = {}
       THEN Policy.missing_expected_files
       ELSE Cardinality(ExpectedFiles[t]) * Policy.expected_files_count)
  + retries * Policy.retry_weight
  + (IF PreferredAgent[t] = None THEN Policy.preferred_agent_missing ELSE 0)
=============================================================================
