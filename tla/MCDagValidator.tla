---------------------------- MODULE MCDagValidator ----------------------------
(***************************************************************************)
(* All plans of three tasks whose dependency lists have at most two        *)
(* entries, which may repeat a task, name the task itself or name an       *)
(* unknown one; all plans of four tasks in which each depends on any of    *)
(* the others; some in which a task lists its two dependencies three       *)
(* times in all; and some with a repeated id or no task.                   *)
(***************************************************************************)
EXTENDS DagValidator, SequencesExt

CONSTANTS a, b, c, d, unknown

AllIds == {a, b, c, d, unknown}
Task(t, deps) == [id |-> t, depends_on |-> deps]

ShortLists == BoundedSeq({a, b, c, unknown}, 2)
ThreeTasks ==
  {<<Task(a, f[1]), Task(b, f[2]), Task(c, f[3])>> : f \in [1..3 -> ShortLists]}

Names == <<a, b, c, d>>
FourTasks ==
  {[i \in 1..4 |-> Task(Names[i], SetToSeq(f[i]))] :
     f \in {g \in [1..4 -> SUBSET {a, b, c, d}] : \A i \in 1..4 : Names[i] \notin g[i]}}

Misshapen == {<<>>, <<Task(a, <<>>), Task(b, <<a>>), Task(a, <<b>>)>>}

Repeating ==
  {<<Task(a, <<>>), Task(b, f), Task(c, g)>> :
     f \in BoundedSeq({a, c}, 1), g \in BoundedSeq({a, b}, 3)}

AllPlans == ThreeTasks \cup FourTasks \cup Misshapen \cup Repeating
===============================================================================
