-------------------------------- MODULE Memory --------------------------------
(***************************************************************************)
(* What annie-tgs memory extract makes of a workflow's state               *)
(* (extractors.ts): a candidate for every task a passed review has         *)
(* confirmed, and one for the whole plan once all of it is done.  The      *)
(* store keeps the first record of a source key and drops every later one  *)
(* (Stores), so that what is extracted once has to be true for good.  The  *)
(* preference candidates, which tell of the policy and count the tasks     *)
(* skipped so far, are left out.                                           *)
(***************************************************************************)
EXTENDS Workflow

\* reviewWave stores the review with the wave's status, and nothing else sets either.
PassedReview(wave) == wave.status = "done"
FailedReview(wave) == wave.status = "failed"

\* The tasks a passed review has confirmed, each with its wave.
Confirmed(s) ==
  {p \in (DOMAIN s.waves) \X Tasks :
     /\ PassedReview(s.waves[p[1]])
     /\ p[2] \in TasksIn(s.waves[p[1]].tasks)
     /\ s.status[p[2]] = "done"}

\* extractExecutionMemoryCandidates; wave and task make up the source key.  The texts
\* of the report that the record also takes over are left out, as they are in Execution.
ExecutionCandidates(s) ==
  {[wave |-> p[1], task |-> p[2], assigned_to |-> s.assigned_to[p[2]],
    changed_files |-> s.changed_files[p[2]]] : p \in Confirmed(s)}

\* Mutant: the tasks no wave was scheduled for yet are overlooked.
SuccessfulSoFar(s) ==
  /\ \E i \in DOMAIN s.waves : PassedReview(s.waves[i])
  /\ \A i \in DOMAIN s.waves : ~FailedReview(s.waves[i])

\* isSuccessfulWorkflowShape
IsSuccessfulWorkflowShape(s) ==
  /\ AllDone(s)
  /\ \E i \in DOMAIN s.waves : PassedReview(s.waves[i])
  /\ \A i \in DOMAIN s.waves : ~FailedReview(s.waves[i])

\* extractTemplateMemoryCandidates; what it has besides comes from the plan.
TemplateCandidates(s) ==
  IF IsSuccessfulWorkflowShape(s) THEN {[wave_count |-> Len(s.waves)]} ELSE {}

\* What has been extracted once is extracted again, word for word, from every later
\* state of the workflow: retries, recoveries and repeated reviews take nothing back.
\* A record that was stored early under a source key is therefore the one that would
\* be stored now.
MemoryStaysTrue ==
  [][/\ ExecutionCandidates(wf) \subseteq ExecutionCandidates(wf')
     /\ TemplateCandidates(wf) \subseteq TemplateCandidates(wf')]_vars
===============================================================================
