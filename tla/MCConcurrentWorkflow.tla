------------------------- MODULE MCConcurrentWorkflow -------------------------
(***************************************************************************)
(* Three tasks and two calls at a time.  core and edit may run together;   *)
(* check waits for core.  check needs a capability that only bob declares, *)
(* and core prefers alice, so that messages go to different inboxes.       *)
(***************************************************************************)
EXTENDS ConcurrentWorkflow, TLC

CONSTANTS core, edit, check, alice, bob, src, call1, call2

PlanTasks == {core, edit, check}
PlanAgents == {alice, bob}
TwoCalls == {call1, call2}

PlanPosition == (core :> 1) @@ (edit :> 2) @@ (check :> 3)
PlanDependsOn == (core :> {}) @@ (edit :> {}) @@ (check :> {core})
PlanRisk == [t \in PlanTasks |-> "low"]
PlanExpectedFiles == [t \in PlanTasks |-> {}]
PlanPreferredAgent == (core :> alice) @@ (edit :> None) @@ (check :> None)
PlanDirectoryScope == src :> src

PlanPolicy ==
  [max_parallel_tasks |-> 2, max_agents |-> 2, high_risk_parallel_limit |-> 1,
   risk_aware |-> FALSE, conflict_mode |-> "exact", unknown_files_policy |-> "allow",
   explicit_risk |-> 10, expected_files_count |-> 1, missing_expected_files |-> 5,
   retry_weight |-> 3, preferred_agent_missing |-> 2,
   max_retries |-> 1, retry_on |-> {"transient"},
   max_tasks_per_agent |-> 1, respect_preferred_agent |-> TRUE,
   fallback_agent |-> bob]

Ranks == (alice :> 1) @@ (bob :> 2)
Skills == (alice :> {}) @@ (bob :> {check})
AnyNodes == {{alice}, PlanAgents}
WorkerReports == {[failure |-> None, files |-> <<>>], [failure |-> "transient", files |-> <<>>]}
NoSession == {{}}
\* Calls differ only in when they run, and nothing checked here is a liveness property.
CallSymmetry == Permutations(TwoCalls)
===============================================================================
