---------------------------- MODULE WorkflowRecord ----------------------------
(***************************************************************************)
(* What the two files of a workflow promise: state.json is a register that *)
(* always holds one whole state, to which handlers add their change one    *)
(* after the other, and audit.jsonl is a log of calls already decided.  A  *)
(* state is abstracted to the set of handler calls whose change it holds.  *)
(***************************************************************************)
EXTENDS Naturals, Sequences

CONSTANT Ops  \* the handler calls

VARIABLES
  doc,      \* the calls whose change is in state.json
  refused,  \* the calls that were answered without a change
  log       \* the calls of the lines of audit.jsonl

Init == doc = {} /\ refused = {} /\ log = <<>>

Pending == Ops \ (doc \cup refused)

\* A call takes effect at once, and takes no other call's effect away.
Commit == \E op \in Pending : doc' = doc \cup {op} /\ UNCHANGED <<refused, log>>

\* Or it is refused, and never has an effect.
Refuse == \E op \in Pending : refused' = refused \cup {op} /\ UNCHANGED <<doc, log>>

\* Only what has been decided is reported.
Report == \E op \in doc \cup refused : log' = Append(log, op) /\ UNCHANGED <<doc, refused>>

Spec == Init /\ [][Commit \/ Refuse \/ Report]_<<doc, refused, log>>
=============================================================================
