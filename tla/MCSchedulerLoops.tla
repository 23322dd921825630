--------------------------- MODULE MCSchedulerLoops ---------------------------
(***************************************************************************)
(* Inputs for the scheduler's loops.  Resolution is tried on a chain       *)
(* b -> a -> c whose tasks the plan lists in the order b, d, c, a, so that *)
(* a pass meets b before the dependency it may block, and on a diamond;    *)
(* selection is tried on four free tasks under policies that differ in one *)
(* or two fields, so that every test of getSkipDecision is the one that    *)
(* decides for some input.                                                 *)
(***************************************************************************)
EXTENDS SchedulerLoops, TLC

CONSTANTS a, b, c, d, alice, bob, src, lib, doc

PlanTasks == {a, b, c, d}
PlanFiles == {src, lib, doc}
PlanAgents == {alice, bob}

PlanPosition == (b :> 1) @@ (d :> 2) @@ (c :> 3) @@ (a :> 4)
Chain == (a :> {c}) @@ (b :> {a}) @@ (c :> {}) @@ (d :> {})
Diamond == (a :> {}) @@ (b :> {a}) @@ (c :> {a}) @@ (d :> {b, c})
Free == [t \in PlanTasks |-> {}]
PlanNonParallel == {c}
PlanRisk == (a :> "high") @@ (b :> "critical") @@ (c :> "medium") @@ (d :> "low")
PlanExpectedFiles == (a :> {src}) @@ (b :> {lib}) @@ (c :> {doc, lib}) @@ (d :> {})
PlanPreferredAgent == (a :> alice) @@ (b :> bob) @@ (c :> None) @@ (d :> None)
\* src and lib lie in one directory.
PlanDirectoryScope == (src :> src) @@ (lib :> src) @@ (doc :> doc)
PlanGlobMatches == {<<doc, src>>}

Base ==
  [max_parallel_tasks |-> 3, max_agents |-> 3, high_risk_parallel_limit |-> 2,
   risk_aware |-> FALSE, conflict_mode |-> "exact", unknown_files_policy |-> "allow",
   explicit_risk |-> 1, expected_files_count |-> 1, missing_expected_files |-> 2,
   retry_weight |-> 5, preferred_agent_missing |-> 1,
   max_retries |-> 1, retry_on |-> {"transient"},
   max_tasks_per_agent |-> 1, respect_preferred_agent |-> TRUE,
   fallback_agent |-> alice]

FreePolicies ==
  {Base,
   [Base EXCEPT !.risk_aware = TRUE, !.high_risk_parallel_limit = 1],
   [Base EXCEPT !.max_parallel_tasks = 2, !.conflict_mode = "glob"],
   [Base EXCEPT !.max_agents = 2, !.conflict_mode = "directory"],
   [Base EXCEPT !.max_agents = 1, !.unknown_files_policy = "serialize"]}

AllPlans ==
  {[depends_on |-> g, policy |-> Base] : g \in {Chain, Diamond}}
  \cup {[depends_on |-> Free, policy |-> p] : p \in FreePolicies}

\* assigned, running and reviewing are alike to the scheduler.
SomeStatuses == {"pending", "ready", "running", "done", "failed", "blocked"}
=============================================================================
