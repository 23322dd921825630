-------------------------------- MODULE Stores --------------------------------
(***************************************************************************)
(* What is kept beside the workflows: the project registry, the node       *)
(* registry and the plan proposals, each one JSON file that a call reads,  *)
(* changes and writes back whole through <file>.tmp and a rename, and the  *)
(* memory records, a file that lines are appended to.  As in StateStore a  *)
(* call may be cut off at every await and, when overlap is chosen, run     *)
(* beside others; here what the files hold is modelled and not only whose  *)
(* change they hold.  A missing file is the empty snapshot it is read as.  *)
(***************************************************************************)
EXTENDS Naturals, FiniteSets, Sequences, Functions

CONSTANTS
  Calls,      \* the calls; each is made at most once
  Requests,   \* what a call may be about
  None,       \* no file, no request
  Truncated,  \* the content of a file just opened for writing
  Torn        \* what is left when a text is written over a longer one

\* The empty snapshots, and the content the three registries start with.
EmptyFiles ==
  [projects |-> [projects |-> {}, workflows |-> {}],
   nodes |-> [types |-> [n \in {} |-> None], teams |-> [n \in {} |-> None]],
   proposals |-> {}]
Files == DOMAIN EmptyFiles
NodeTypes == {"individual", "team"}

\* What each file may hold when nothing is torn, given what is asked for.
Named(field) == {r[field] : r \in {q \in Requests : field \in DOMAIN q}}
PartialMaps(maps) ==
  UNION {[S -> UNION {Range(m) : m \in maps}] : S \in SUBSET UNION {DOMAIN m : m \in maps}}
Snapshots ==
  [projects |->
     [projects : SUBSET [project_id : Named("project"), priority : Named("priority")],
      workflows : SUBSET [workflow_id : Named("workflow"), project_id : Named("project")]],
   nodes |-> [types : PartialMaps(Named("types")), teams : PartialMaps(Named("teams"))],
   proposals |-> SUBSET [proposal_id : Named("id"), received_by : Calls]]

IsFunction(m) == m = [x \in DOMAIN m |-> m[x]]

ASSUME StoresAssumption ==
  /\ IsFiniteSet(Calls)
  /\ \A f \in Files : \A s \in Snapshots[f] : s # Truncated /\ s # Torn
  /\ \A r \in Requests :
       \/ r.kind \in {"project", "update"} /\ DOMAIN r = {"kind", "project", "priority"}
       \/ r.kind = "workflow" /\ DOMAIN r = {"kind", "workflow", "project"}
       \/ /\ r.kind = "nodes" /\ DOMAIN r = {"kind", "types", "teams"}
          /\ IsFunction(r.types) /\ IsFunction(r.teams) /\ DOMAIN r.types # {}
       \/ r.kind = "proposal" /\ DOMAIN r = {"kind", "id"}
       \/ /\ r.kind = "memory" /\ DOMAIN r = {"kind", "keys"}
          /\ Len(r.keys) \in Nat /\ DOMAIN r.keys = 1..Len(r.keys)

VARIABLES
  overlap,   \* whether a call may start while another is under way
  pc,        \* pc[c]: where the call stands
  request,   \* request[c]: what it is about
  text,      \* text[c]: what it is going to write
  open,      \* open[c]: the name of the file it has open by now: temp, file or None
  disk,      \* disk[f]: the content of the file
  temp,      \* temp[f]: the content of <f>.tmp, or None
  records,   \* the source keys of the lines of records.jsonl
  next       \* next[c]: which of its candidates a memory write is at
vars == <<overlap, pc, request, text, open, disk, temp, records, next>>

Ended == {"returned", "threw", "crashed"}
Active == {c \in Calls : pc[c] \notin Ended \cup {"start"}}

Init ==
  /\ overlap \in BOOLEAN
  /\ pc = [c \in Calls |-> "start"]
  /\ request = [c \in Calls |-> None]
  /\ text = [c \in Calls |-> None]
  /\ open = [c \in Calls |-> None]
  /\ disk = EmptyFiles
  /\ temp = [f \in Files |-> None]
  /\ records = <<>>
  /\ next = [c \in Calls |-> 1]

-----------------------------------------------------------------------------
(* What each request makes of the snapshot s it loads                      *)

FileOf(r) ==
  CASE r.kind \in {"project", "update", "workflow"} -> "projects"
    [] r.kind = "nodes" -> "nodes"
    [] r.kind = "proposal" -> "proposals"

HasProject(s, p) == \E q \in s.projects : q.project_id = p
HasWorkflow(s, w) == \E v \in s.workflows : v.workflow_id = w

\* Mutant: the workflow id is looked for among those of the same project only.
AcceptsWorkflowAnew(s, r) ==
  /\ HasProject(s, r.project)
  /\ [workflow_id |-> r.workflow, project_id |-> r.project] \notin s.workflows

AcceptsProject(s, r) == ~HasProject(s, r.project)
AcceptsUpdate(s, r) == HasProject(s, r.project)
AcceptsWorkflow(s, r) == HasProject(s, r.project) /\ ~HasWorkflow(s, r.workflow)

\* Mutants: only the nodes, or the teams, of the proposal are kept.
TypesOfProposal(s, r) == r.types
TeamsOfProposal(s, r) == r.teams

\* normalizeNodeRegistrationProposal: what is proposed replaces what is known under
\* the same id, and everything else stays.
Types(s, r) ==
  [n \in DOMAIN s.types \cup DOMAIN r.types |->
     IF n \in DOMAIN r.types THEN r.types[n] ELSE s.types[n]]
Teams(s, r) ==
  [n \in DOMAIN s.teams \cup DOMAIN r.teams |->
     IF n \in DOMAIN r.teams THEN r.teams[n] ELSE s.teams[n]]

\* validateTeamCompositionInput looks at the teams of the proposal alone: a team
\* that is registered again as an individual keeps the composition it had.
AcceptsNodes(s, r) ==
  \A n \in DOMAIN r.teams :
    LET team == r.teams[n]
    IN /\ n \in DOMAIN Types(s, r) /\ Types(s, r)[n] = "team"
       /\ team.lead \in team.members
       /\ team.members \subseteq DOMAIN Types(s, r)

Accepts(s, r) ==
  CASE r.kind = "project" -> AcceptsProject(s, r)
    [] r.kind = "update" -> AcceptsUpdate(s, r)
    [] r.kind = "workflow" -> AcceptsWorkflow(s, r)
    [] r.kind = "nodes" -> AcceptsNodes(s, r)
    [] r.kind = "proposal" -> TRUE

\* The snapshot that call c saves.
Result(s, r, c) ==
  CASE r.kind = "project" ->
         [s EXCEPT !.projects = @ \cup {[project_id |-> r.project, priority |-> r.priority]}]
    [] r.kind = "update" ->
         [s EXCEPT !.projects =
            {IF p.project_id = r.project THEN [p EXCEPT !.priority = r.priority] ELSE p : p \in @}]
    [] r.kind = "workflow" ->
         [s EXCEPT !.workflows = @ \cup {[workflow_id |-> r.workflow, project_id |-> r.project]}]
    [] r.kind = "nodes" -> [types |-> Types(s, r), teams |-> Teams(s, r)]
    [] r.kind = "proposal" -> s \cup {[proposal_id |-> r.id, received_by |-> c]}

-----------------------------------------------------------------------------
(* registerProject, updateProject, registerWorkflow, registerProposal and  *)
(* saveProposal                                                            *)

Goto(c, place) == pc' = [pc EXCEPT ![c] = place]
MayStart(c) == pc[c] = "start" /\ (overlap \/ Active = {})
Readable(f) == disk[f] \notin {Truncated, Torn}
MayProceed(r) == Readable(FileOf(r)) /\ Accepts(disk[FileOf(r)], r)

\* Mutant: what a call that was cut off has left in <f>.tmp is taken for newer.
LoadLeftOver(c, r) ==
  LET f == FileOf(r)
      s == IF temp[f] \in {None, Truncated, Torn} THEN disk[f] ELSE temp[f]
  IN /\ MayStart(c)
     /\ r.kind # "memory" /\ Readable(f) /\ Accepts(s, r)
     /\ request' = [request EXCEPT ![c] = r]
     /\ text' = [text EXCEPT ![c] = Result(s, r, c)]
     /\ Goto(c, "loaded")
     /\ UNCHANGED <<overlap, open, disk, temp, records, next>>

\* loadSnapshot returns; what is to be saved is computed from it at once.
Load(c, r) ==
  /\ MayStart(c)
  /\ r.kind # "memory" /\ MayProceed(r)
  /\ request' = [request EXCEPT ![c] = r]
  /\ text' = [text EXCEPT ![c] = Result(disk[FileOf(r)], r, c)]
  /\ Goto(c, "loaded")
  /\ UNCHANGED <<overlap, open, disk, temp, records, next>>

\* The file does not parse, or the request contradicts what it holds.
Refuse(c, r) ==
  /\ MayStart(c)
  /\ r.kind # "memory" /\ ~MayProceed(r)
  /\ request' = [request EXCEPT ![c] = r]
  /\ Goto(c, "threw")
  /\ UNCHANGED <<overlap, text, open, disk, temp, records, next>>

\* writeFile opens <f>.tmp, and truncates what another call has in it.
OpenTemp(c) ==
  /\ pc[c] = "loaded"
  /\ open' = [open EXCEPT ![c] = "temp"]
  /\ temp' = [temp EXCEPT ![FileOf(request[c])] = Truncated]
  /\ Goto(c, "opened")
  /\ UNCHANGED <<overlap, request, text, disk, records, next>>

\* What writing t into a file that holds old may leave there.
Written(old, t) == IF old = Truncated THEN {t} ELSE {t, Torn}

\* The text goes to the file that was opened, which another call may have renamed.
WriteTemp(c) ==
  LET f == FileOf(request[c])
  IN /\ pc[c] = "opened"
     /\ IF open[c] = "temp"
          THEN \E t \in Written(temp[f], text[c]) : temp' = [temp EXCEPT ![f] = t]
          ELSE UNCHANGED temp
     /\ IF open[c] = "file"
          THEN \E t \in Written(disk[f], text[c]) : disk' = [disk EXCEPT ![f] = t]
          ELSE UNCHANGED disk
     /\ Goto(c, "written")
     /\ UNCHANGED <<overlap, request, text, open, records, next>>

\* The calls that have <f>.tmp open have f itself open from here on, and those that
\* had f open write to a file without a name.
Rename(c) ==
  LET f == FileOf(request[c])
      SameFile(d) == d \in Active /\ request[d].kind # "memory" /\ FileOf(request[d]) = f
  IN /\ pc[c] = "written" /\ temp[f] # None
     /\ disk' = [disk EXCEPT ![f] = temp[f]]
     /\ temp' = [temp EXCEPT ![f] = None]
     /\ open' = [d \in Calls |->
                   IF ~SameFile(d) THEN open[d]
                   ELSE IF open[d] = "temp" /\ d # c THEN "file" ELSE None]
     /\ Goto(c, "returned")
     /\ UNCHANGED <<overlap, request, text, records, next>>

\* Another call has renamed the file away: ENOENT.
RenameFails(c) ==
  /\ pc[c] = "written" /\ temp[FileOf(request[c])] = None
  /\ Goto(c, "threw")
  /\ UNCHANGED <<overlap, request, text, open, disk, temp, records, next>>

-----------------------------------------------------------------------------
(* annie-tgs memory write: one append per candidate                        *)

StartMemory(c, r) ==
  /\ MayStart(c)
  /\ r.kind = "memory"
  /\ request' = [request EXCEPT ![c] = r]
  /\ Goto(c, "appending")
  /\ UNCHANGED <<overlap, text, open, disk, temp, records, next>>

Candidate(c) == request[c].keys[next[c]]
HasNext(c) == pc[c] = "appending" /\ next[c] \in DOMAIN request[c].keys

\* Mutant: only the last record is looked at.
KnownLast(key) == records # <<>> /\ records[Len(records)] = key

Known(key) == key \in Range(records)

\* The record exists: append returns it.
FindExisting(c) ==
  /\ HasNext(c) /\ Known(Candidate(c))
  /\ next' = [next EXCEPT ![c] = @ + 1]
  /\ UNCHANGED <<overlap, pc, request, text, open, disk, temp, records>>

FindNone(c) ==
  /\ HasNext(c) /\ ~Known(Candidate(c))
  /\ Goto(c, "absent")
  /\ UNCHANGED <<overlap, request, text, open, disk, temp, records, next>>

AppendRecord(c) ==
  /\ pc[c] = "absent"
  /\ records' = Append(records, Candidate(c))
  /\ next' = [next EXCEPT ![c] = @ + 1]
  /\ Goto(c, "appending")
  /\ UNCHANGED <<overlap, request, text, open, disk, temp>>

ReturnRecords(c) ==
  /\ pc[c] = "appending" /\ ~HasNext(c)
  /\ Goto(c, "returned")
  /\ UNCHANGED <<overlap, request, text, open, disk, temp, records, next>>

Crash(c) ==
  /\ c \in Active
  /\ open' = [open EXCEPT ![c] = None]
  /\ Goto(c, "crashed")
  /\ UNCHANGED <<overlap, request, text, disk, temp, records, next>>

Next ==
  \E c \in Calls :
    \/ \E r \in Requests : Load(c, r) \/ Refuse(c, r) \/ StartMemory(c, r)
    \/ OpenTemp(c) \/ WriteTemp(c) \/ Rename(c) \/ RenameFails(c)
    \/ FindExisting(c) \/ FindNone(c) \/ AppendRecord(c) \/ ReturnRecords(c)
    \/ Crash(c)

Spec == Init /\ [][Next]_vars

-----------------------------------------------------------------------------
(* What the files are worth                                                *)

ProjectsConsistent(s) ==
  /\ \A p, q \in s.projects : p.project_id = q.project_id => p = q
  /\ \A v, w \in s.workflows : v.workflow_id = w.workflow_id => v = w
  /\ \A w \in s.workflows : HasProject(s, w.project_id)
NodesConsistent(s) ==
  \A n \in DOMAIN s.teams :
    /\ n \in DOMAIN s.types
    /\ s.teams[n].lead \in s.teams[n].members
    /\ s.teams[n].members \subseteq DOMAIN s.types

\* Overlapping calls may lose each other's registrations and may tear a file, but a
\* registry that can be read is never half of one and half of another: ids are
\* unique, workflows belong to registered projects, teams consist of registered
\* nodes and are led by one of them (registerWorkflow,
\* validateTeamCompositionInput).
RegistriesConsistent ==
  /\ Readable("projects") => ProjectsConsistent(disk["projects"])
  /\ Readable("nodes") => NodesConsistent(disk["nodes"])

\* Is what r registered still there?
Kept(r, c) ==
  CASE r.kind \in {"project", "update"} -> HasProject(disk["projects"], r.project)
    [] r.kind = "workflow" ->
         [workflow_id |-> r.workflow, project_id |-> r.project] \in disk["projects"].workflows
    [] r.kind = "nodes" ->
         /\ DOMAIN r.types \subseteq DOMAIN disk["nodes"].types
         /\ DOMAIN r.teams \subseteq DOMAIN disk["nodes"].teams
    [] r.kind = "proposal" -> [proposal_id |-> r.id, received_by |-> c] \in disk["proposals"]
    [] r.kind = "memory" -> Range(r.keys) \subseteq Range(records)

\* Without overlap, every file can be read after every crash, and what a call has
\* acknowledged is there for good: later registrations add to it and later memory
\* writes find it.  Which priority a project has, and what a node or a team is, may be
\* changed by later calls, and is for ChangesAreAcknowledged.
AcknowledgedIsKept ==
  ~overlap =>
    /\ \A f \in Files : Readable(f)
    /\ \A c \in Calls : pc[c] = "returned" => Kept(request[c], c)

\* In this step c tells its caller that what it asks for is registered.
Acknowledges(c) ==
  /\ pc[c] # "returned" /\ pc'[c] = "returned"
  /\ request[c].kind # "memory"

\* Without overlap a registry changes when a call acknowledges its request and at no
\* other time, and then by this request alone: a priority, a node's type or a team that
\* was acknowledged stands until the next request about it is acknowledged, and neither
\* a call that was cut off nor one that was refused changes it (saveSnapshot).
ChangesAreAcknowledged ==
  [][~overlap =>
       /\ \A c \in Calls :
            Acknowledges(c) =>
              disk' = [disk EXCEPT ![FileOf(request[c])] = Result(@, request[c], c)]
       /\ disk' # disk => \E c \in Calls : Acknowledges(c)]_vars

\* A memory write that is cut off and run again, or run once more after the
\* workflow went on, stores nothing twice, unless two of them overlap.
OneRecordPerKey ==
  ~overlap => \A i, j \in DOMAIN records : records[i] = records[j] => i = j
===============================================================================
