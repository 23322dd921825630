---------------------------- MODULE MCCrossProject ----------------------------
(***************************************************************************)
(* Two workflows and two agents, of which the first is known to both       *)
(* workflows, and three tasks in every combination of two user priorities, *)
(* two risks, one capability and a preference.  The project priority       *)
(* varies with the plan's third task only.  In the last of the pools one   *)
(* agent has more to do than the other and neither has the capability.     *)
(***************************************************************************)
EXTENDS CrossProject, TLC

CONSTANTS x1, x2, x3, alice, bob, skill

ThreeTasks == {x1, x2, x3}
TwoAgents == {alice, bob}
\* Two tasks change places when their ids are compared part by part.
QueueRanks == (x1 :> 2) @@ (x2 :> 1) @@ (x3 :> 3)
Ranks == (x1 :> 1) @@ (x2 :> 2) @@ (x3 :> 3) @@ (alice :> 1) @@ (bob :> 2)

Entry(status, capacity, active, skills) ==
  [status |-> status, capacity |-> capacity, active |-> active, skills |-> skills]

\* Who each of the two workflows knows.
Pools ==
  {<<alice :> Entry("idle", 1, 0, {}), alice :> Entry("idle", 1, 1, {}) @@ bob :> Entry("idle", 1, 0, {skill})>>,
   <<alice :> Entry("busy", 1, 1, {skill}), alice :> Entry("offline", 1, 0, {})>>,
   <<alice :> Entry("offline", 1, 0, {}) @@ bob :> Entry("idle", 2, 0, {}), bob :> Entry("busy", 1, 1, {skill})>>,
   <<alice :> Entry("idle", 1, 0, {skill}), bob :> Entry("idle", 1, 0, {skill})>>,
   <<alice :> Entry("idle", 2, 1, {}), bob :> Entry("idle", 1, 0, {})>>}

SomeTask(project) ==
  [user : {2, 4}, project : project, risk : {10, 30}, needs : {{}, {skill}},
   preferred : {None, alice}]

AllInputs ==
  [task : {(x1 :> f) @@ (x2 :> g) @@ (x3 :> h) :
             f \in SomeTask({2}), g \in SomeTask({2}), h \in {t \in SomeTask({2, 4}) : t.user = 2}},
   ready : {ThreeTasks, {x1, x3}}, agents : Pools, matches : {TRUE}, max_dispatches : {2, 3}]
  \cup
  [task : {[x \in ThreeTasks |-> CHOOSE t \in SomeTask({2}) : TRUE]},
   ready : {ThreeTasks}, agents : Pools, matches : {FALSE}, max_dispatches : {3}]
===============================================================================
