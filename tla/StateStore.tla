------------------------------ MODULE StateStore ------------------------------
(***************************************************************************)
(* The file protocol under every handler: load state.json, compute, write  *)
(* state.json.tmp, rename it, then append audit events one by one          *)
(* (state_store.ts); a handler that changes nothing only appends events.   *)
(* Every await is a point where the process may crash and, where handlers  *)
(* overlap, another one may run: the HTTP server awaits no handler before  *)
(* it starts the next, and CLI commands are processes of their own.  No    *)
(* lock is taken anywhere.                                                 *)
(* Whether handlers overlap is chosen once per behaviour, so that what     *)
(* holds only of an operator who issues one command at a time can be said. *)
(*                                                                         *)
(* A state is abstracted to the set of calls whose change it holds, and    *)
(* the file system to inodes and the two names that point to them.         *)
(***************************************************************************)
EXTENDS Naturals, FiniteSets, Sequences

CONSTANTS
  Ops,      \* the handler calls; each is made at most once
  Events    \* Events[op]: how many audit events the call appends

ASSUME StoreAssumption ==
  /\ IsFiniteSet(Ops)
  /\ Events \in [Ops -> Nat]

VARIABLES
  overlap,  \* whether a call may start while another is under way
  pc,       \* pc[op]: where the call stands
  snapshot, \* snapshot[op]: the state it has loaded
  fd,       \* fd[op]: the inode it has open for writing
  content,  \* content[i]: what inode i holds
  state,    \* the inode named state.json
  temp,     \* the inode named state.json.tmp, or 0
  declined, \* the calls that found nothing to save
  audit     \* the calls of the lines of audit.jsonl
vars == <<overlap, pc, snapshot, fd, content, state, temp, declined, audit>>

\* An inode holds one whole state, nothing at all (it was just truncated), or what
\* is left when a shorter state is written over a longer one.
Whole(done) == [kind |-> "whole", done |-> done]
Empty == [kind |-> "empty", done |-> {}]
Torn == [kind |-> "torn", done |-> {}]

\* Each call creates at most one inode; inode 0 is the state.json of runInit.
Inodes == 0..Cardinality(Ops)

\* start, then the await each step waits for; the last three end the call.
Places == {"start", "loaded", "opened", "written", "appending", "returned", "threw", "crashed"}
Ended == {"returned", "threw", "crashed"}
Active == {op \in Ops : pc[op] \notin Ended \cup {"start"}}

TypeOK ==
  /\ overlap \in BOOLEAN
  /\ pc \in [Ops -> Places]
  /\ snapshot \in [Ops -> SUBSET Ops]
  /\ fd \in [Ops -> Inodes]
  /\ content \in [Inodes -> {Empty, Torn} \cup {Whole(done) : done \in SUBSET Ops}]
  /\ state \in Inodes /\ temp \in Inodes
  /\ declined \subseteq Ops /\ audit \in Seq(Ops)

Init ==
  /\ overlap \in BOOLEAN
  /\ pc = [op \in Ops |-> "start"]
  /\ snapshot = [op \in Ops |-> {}]
  /\ fd = [op \in Ops |-> 0]
  /\ content = [i \in Inodes |-> IF i = 0 THEN Whole({}) ELSE Empty]
  /\ state = 0 /\ temp = 0
  /\ declined = {} /\ audit = <<>>

-----------------------------------------------------------------------------

Goto(op, place) == pc' = [pc EXCEPT ![op] = place]

\* Mutant: a state read before the call is used.
LoadCached(op) ==
  /\ pc[op] = "start"
  /\ overlap \/ Active = {}
  /\ Goto(op, "loaded")
  /\ UNCHANGED <<overlap, snapshot, fd, content, state, temp, declined, audit>>

\* loadState, when the file parses.
Load(op) ==
  /\ pc[op] = "start"
  /\ overlap \/ Active = {}
  /\ content[state].kind = "whole"
  /\ snapshot' = [snapshot EXCEPT ![op] = content[state].done]
  /\ Goto(op, "loaded")
  /\ UNCHANGED <<overlap, fd, content, state, temp, declined, audit>>

\* loadState, when it does not: STATE_LOAD_FAILED.
LoadFails(op) ==
  /\ pc[op] = "start"
  /\ overlap \/ Active = {}
  /\ content[state].kind # "whole"
  /\ Goto(op, "threw")
  /\ UNCHANGED <<overlap, snapshot, fd, content, state, temp, declined, audit>>

\* The handler finds nothing to change (an open wave, nothing to dispatch): it saves
\* nothing and goes on to append the events that say so.
Decline(op) ==
  /\ pc[op] = "loaded"
  /\ declined' = declined \cup {op}
  /\ Goto(op, "appending")
  /\ UNCHANGED <<overlap, snapshot, fd, content, state, temp, audit>>

\* Inodes no name and no open file points to; 0 is not used again.
FreeInodes == Inodes \ ({0, state, temp} \cup {fd[op] : op \in Ops})

\* Mutant: state.json itself is opened.
OpenInPlace(op) ==
  /\ pc[op] = "loaded"
  /\ fd' = [fd EXCEPT ![op] = state]
  /\ content' = [content EXCEPT ![state] = Empty]
  /\ Goto(op, "opened")
  /\ UNCHANGED <<overlap, snapshot, state, temp, declined, audit>>

\* writeFile opens state.json.tmp with flag "w": what is there is truncated.
OpenTemp(op) ==
  /\ pc[op] = "loaded"
  /\ \E i \in Inodes :
       /\ IF temp # 0 THEN i = temp ELSE i \in FreeInodes
       /\ fd' = [fd EXCEPT ![op] = i]
       /\ content' = [content EXCEPT ![i] = Empty]
       /\ temp' = i
  /\ Goto(op, "opened")
  /\ UNCHANGED <<overlap, snapshot, state, declined, audit>>

\* writeFile writes from the start of its inode, whatever name that has by now.
WriteTemp(op) ==
  /\ pc[op] = "opened"
  /\ \E left \in {Whole(snapshot[op] \cup {op}), Torn} :
       /\ content[fd[op]].kind = "empty" => left # Torn
       /\ content' = [content EXCEPT ![fd[op]] = left]
  /\ Goto(op, "written")
  /\ UNCHANGED <<overlap, snapshot, fd, state, temp, declined, audit>>

RenameTemp(op) ==
  /\ pc[op] = "written"
  /\ temp # 0
  /\ state' = temp /\ temp' = 0
  /\ Goto(op, "appending")
  /\ UNCHANGED <<overlap, snapshot, fd, content, declined, audit>>

\* rename fails with ENOENT: another call has renamed the file away.
RenameFails(op) ==
  /\ pc[op] = "written"
  /\ temp = 0
  /\ Goto(op, "threw")
  /\ UNCHANGED <<overlap, snapshot, fd, content, state, temp, declined, audit>>

Reported(op) == Cardinality({k \in DOMAIN audit : audit[k] = op})

\* Mutant: a line is written before the state is.
AppendAhead(op) ==
  /\ pc[op] \in {"written", "appending"}
  /\ Reported(op) < Events[op]
  /\ audit' = Append(audit, op)
  /\ UNCHANGED <<overlap, pc, snapshot, fd, content, state, temp, declined>>

\* appendAuditEvent, in the loop at the end of the handler, whether or not it saved.
AppendAudit(op) ==
  /\ pc[op] = "appending"
  /\ Reported(op) < Events[op]
  /\ audit' = Append(audit, op)
  /\ UNCHANGED <<overlap, pc, snapshot, fd, content, state, temp, declined>>

\* Mutant: the appends are not awaited.
ReturnEarly(op) ==
  /\ pc[op] = "appending"
  /\ Goto(op, "returned")
  /\ UNCHANGED <<overlap, snapshot, fd, content, state, temp, declined, audit>>

Return(op) ==
  /\ pc[op] = "appending"
  /\ Reported(op) = Events[op]
  /\ Goto(op, "returned")
  /\ UNCHANGED <<overlap, snapshot, fd, content, state, temp, declined, audit>>

\* The process ends: its call is cut off and its files are closed as they are.
Crash(op) ==
  /\ op \in Active
  /\ Goto(op, "crashed")
  /\ UNCHANGED <<overlap, snapshot, fd, content, state, temp, declined, audit>>

Next ==
  \E op \in Ops :
    \/ Load(op) \/ LoadFails(op) \/ Decline(op)
    \/ OpenTemp(op) \/ WriteTemp(op) \/ RenameTemp(op) \/ RenameFails(op)
    \/ AppendAudit(op) \/ Return(op)
    \/ Crash(op)

Spec == Init /\ [][Next]_vars

-----------------------------------------------------------------------------
(* What the two files say                                                  *)

Readable == content[state].kind = "whole"
Saved == content[state].done

\* state.json is replaced atomically: whoever reads it, at any moment, finds a whole
\* state.  This is what the progress notes claim of the store (task-003).
StateAlwaysReadable == Readable

\* ...and it is so when calls do not overlap, wherever a call is cut off and
\* whatever state.json.tmp the crash leaves to the next one (saveState).
ReadableWithoutOverlap == ~overlap => Readable

\* Without overlap, a call that returned to its caller has all its events in
\* audit.jsonl and, unless it had declined, its change in state.json, and no later
\* call takes the change away.  A call that declined has changed nothing.
ReturnedIsDurable ==
  ~overlap =>
    /\ declined \cap Saved = {}
    /\ \A op \in Ops : pc[op] = "returned" =>
         op \in Saved \cup declined /\ Reported(op) = Events[op]

\* Without overlap, a change that is in state.json but not wholly in audit.jsonl is
\* the work of a call that is still appending, or of one a crash cut off there.
AuditGapsAreCrashes ==
  ~overlap => \A op \in Saved : Reported(op) < Events[op] => pc[op] \in {"appending", "crashed"}

\* Without overlap the files are what WorkflowRecord promises, with the rename as
\* the moment at which a call takes effect; of overlapping calls it is said nothing.
Record ==
  INSTANCE WorkflowRecord WITH doc <- IF overlap THEN {} ELSE Saved,
                               refused <- IF overlap THEN {} ELSE declined,
                               log <- IF overlap THEN <<>> ELSE audit
ImplementsWorkflowRecord == Record!Spec
=============================================================================
