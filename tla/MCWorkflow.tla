------------------------------ MODULE MCWorkflow ------------------------------
(***************************************************************************)
(* A four-task plan for TLC, in plan order:                                *)
(*   core   high risk, expects src, prefers alice                          *)
(*   edit   low risk, expects src                                          *)
(*   check  waits for core, may not run in parallel, expected files unknown *)
(*   ship   high risk, expects doc                                         *)
(* core, edit and ship are ready at once.  The first wave is core alone:   *)
(* edit is left out for the file it shares with core, ship for the limit   *)
(* of one high-risk task.  The second wave is edit and ship, with check    *)
(* left out because it must run alone, and the third is check.  With       *)
(* RoomyPolicy the first wave is core and ship.                            *)
(***************************************************************************)
EXTENDS Memory, TLC

CONSTANTS core, edit, check, ship, alice, bob, src, doc

PlanTasks == {core, edit, check, ship}
PlanFiles == {src, doc}
PlanAgents == {alice, bob}

PlanPosition == (core :> 1) @@ (edit :> 2) @@ (check :> 3) @@ (ship :> 4)
PlanDependsOn == (core :> {}) @@ (edit :> {}) @@ (check :> {core}) @@ (ship :> {})
PlanNonParallel == {check}
PlanRisk == (core :> "high") @@ (edit :> "low") @@ (check :> "low") @@ (ship :> "high")
PlanExpectedFiles == (core :> {src}) @@ (edit :> {src}) @@ (check :> {}) @@ (ship :> {doc})
PlanPreferredAgent == (core :> alice) @@ (edit :> None) @@ (check :> None) @@ (ship :> None)
PlanDirectoryScope == (src :> src) @@ (doc :> doc)

PlanPolicy ==
  [max_parallel_tasks |-> 2, max_agents |-> 2, high_risk_parallel_limit |-> 1,
   risk_aware |-> FALSE, conflict_mode |-> "exact", unknown_files_policy |-> "allow",
   explicit_risk |-> 10, expected_files_count |-> 1, missing_expected_files |-> 5,
   retry_weight |-> 3, preferred_agent_missing |-> 2,
   max_retries |-> 1, retry_on |-> {"transient"},
   max_tasks_per_agent |-> 1, respect_preferred_agent |-> TRUE,
   fallback_agent |-> bob]

Ranks == (alice :> 1) @@ (bob :> 2)
\* Only bob's node declares a capability any task requires.
Skills == (alice :> {}) @@ (bob :> {check, ship})
AllRegistries == {{alice}, {alice, bob}}
WorkerReports ==
  {[failure |-> None, files |-> <<>>], [failure |-> None, files |-> <<src>>],
   [failure |-> "transient", files |-> <<>>], [failure |-> "unknown", files |-> <<>>]}
AnySession == {{}, {core}, PlanTasks}
FullRegistry == {PlanAgents}

\* Three tasks at a time and two slots per agent.
RoomyPolicy ==
  [PlanPolicy EXCEPT !.max_parallel_tasks = 3, !.max_tasks_per_agent = 2,
                     !.high_risk_parallel_limit = 2]
=============================================================================
