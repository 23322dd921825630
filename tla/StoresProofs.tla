----------------------------- MODULE StoresProofs -----------------------------
(***************************************************************************)
(* For any calls and requests: the registries are never half of one        *)
(* snapshot and half of another, because every text that reaches a file    *)
(* was computed from one consistent snapshot (RegistriesAreConsistent);    *)
(* memory writes that do not overlap store a key once, because nobody      *)
(* appends between a look and the append it leads to (KeysAreUnique); and  *)
(* calls that do not overlap lose nothing they have acknowledged, because  *)
(* each adds to what the disk holds and files change by the rename only    *)
(* (WhatIsAcknowledgedIsKept), which acknowledges what it brings           *)
(* (WhatChangesIsAcknowledged).                                            *)
(***************************************************************************)
EXTENDS Stores, TLAPS

Registers(r) == r.kind \in {"project", "update", "workflow", "nodes", "proposal"}

\* The shape of a snapshot is that of the empty one.
ProjectsSound(s) ==
  /\ DOMAIN s = {"projects", "workflows"}
  /\ s = [projects |-> s.projects, workflows |-> s.workflows]
  /\ \A p \in s.projects : p = [project_id |-> p.project_id, priority |-> p.priority]
  /\ ProjectsConsistent(s)

\* What file f may hold: anything that cannot be read, or a sound snapshot.
Sound(f, s) ==
  s \notin {Truncated, Torn} =>
    /\ f = "projects" => ProjectsSound(s)
    /\ f = "nodes" => NodesConsistent(s)

Writing == {"loaded", "opened", "written"}

FilesSound ==
  /\ DOMAIN disk = Files /\ DOMAIN temp = Files
  /\ DOMAIN pc = Calls /\ DOMAIN text = Calls /\ DOMAIN request = Calls
  /\ \A f \in Files : Sound(f, disk[f]) /\ (temp[f] # None => Sound(f, temp[f]))
  /\ \A c \in Calls : pc[c] \in Writing =>
       /\ request[c] \in Requests /\ Registers(request[c])
       /\ Sound(FileOf(request[c]), text[c])

-----------------------------------------------------------------------------
(* What a request makes of a consistent snapshot                           *)

LEMMA ProjectsAfter ==
  ASSUME NEW s, ProjectsSound(s), NEW c, NEW r \in Requests,
         r.kind = "project", AcceptsProject(s, r)
  PROVE  ProjectsSound(Result(s, r, c))
<1> DEFINE new == [project_id |-> r.project, priority |-> r.priority]
<1> DEFINE n == [s EXCEPT !.projects = @ \cup {new}]
<1>1. Result(s, r, c) = n
  BY DEF Result
<1>2. /\ n = [projects |-> s.projects \cup {new}, workflows |-> s.workflows]
      /\ DOMAIN n = {"projects", "workflows"}
      /\ n.projects = s.projects \cup {new} /\ n.workflows = s.workflows
  BY DEF ProjectsSound
<1>3. /\ \A p \in s.projects : p.project_id # r.project
      /\ new.project_id = r.project
      /\ new = [project_id |-> new.project_id, priority |-> new.priority]
  BY DEF AcceptsProject, HasProject
<1> HIDE DEF new, n
<1>4. ProjectsConsistent(n)
  BY <1>2, <1>3 DEF ProjectsSound, ProjectsConsistent, HasProject
<1> QED BY <1>1, <1>2, <1>3, <1>4 DEF ProjectsSound

LEMMA UpdateAfter ==
  ASSUME NEW s, ProjectsSound(s), NEW c, NEW r \in Requests, r.kind = "update"
  PROVE  ProjectsSound(Result(s, r, c))
<1> DEFINE Set(p) == IF p.project_id = r.project THEN [p EXCEPT !.priority = r.priority] ELSE p
<1> DEFINE n == [s EXCEPT !.projects = {Set(p) : p \in @}]
<1>1. Result(s, r, c) = n
  BY DEF Result
<1>2. /\ n = [projects |-> {Set(p) : p \in s.projects}, workflows |-> s.workflows]
      /\ DOMAIN n = {"projects", "workflows"}
      /\ n.projects = {Set(p) : p \in s.projects} /\ n.workflows = s.workflows
  BY DEF ProjectsSound
<1>3. ASSUME NEW p \in s.projects
      PROVE  /\ Set(p).project_id = p.project_id
             /\ Set(p) = [project_id |-> Set(p).project_id, priority |-> Set(p).priority]
  <2>1. p = [project_id |-> p.project_id, priority |-> p.priority]
    BY DEF ProjectsSound
  <2> QED BY <2>1
<1> HIDE DEF Set, n
<1>4. ProjectsConsistent(n)
  <2>1. \A p, q \in n.projects : p.project_id = q.project_id => p = q
    BY <1>2, <1>3 DEF ProjectsSound, ProjectsConsistent
  <2>2. \A w \in n.workflows : HasProject(n, w.project_id)
    BY <1>2, <1>3 DEF ProjectsSound, ProjectsConsistent, HasProject
  <2> QED BY <1>2, <2>1, <2>2 DEF ProjectsSound, ProjectsConsistent
<1> QED BY <1>1, <1>2, <1>3, <1>4 DEF ProjectsSound

LEMMA WorkflowAfter ==
  ASSUME NEW s, ProjectsSound(s), NEW c, NEW r \in Requests,
         r.kind = "workflow", AcceptsWorkflow(s, r)
  PROVE  ProjectsSound(Result(s, r, c))
<1> DEFINE new == [workflow_id |-> r.workflow, project_id |-> r.project]
<1> DEFINE n == [s EXCEPT !.workflows = @ \cup {new}]
<1>1. Result(s, r, c) = n
  BY DEF Result
<1>2. /\ \A v \in s.workflows : v.workflow_id # r.workflow
      /\ new.workflow_id = r.workflow /\ new.project_id = r.project
      /\ HasProject(s, r.project)
  BY DEF AcceptsWorkflow, HasWorkflow
<1> HIDE DEF new
<1>3. /\ n = [projects |-> s.projects, workflows |-> s.workflows \cup {new}]
      /\ DOMAIN n = {"projects", "workflows"}
      /\ n.projects = s.projects /\ n.workflows = s.workflows \cup {new}
  BY DEF ProjectsSound
<1> HIDE DEF n
<1>4. ProjectsConsistent(n)
  BY <1>2, <1>3 DEF ProjectsSound, ProjectsConsistent, HasProject
<1> QED BY <1>1, <1>3, <1>4 DEF ProjectsSound

\* A team that was known keeps the members it had, who are known still.
LEMMA NodesAfter ==
  ASSUME NEW s, NodesConsistent(s), NEW c, NEW r \in Requests,
         r.kind = "nodes", AcceptsNodes(s, r)
  PROVE  NodesConsistent(Result(s, r, c))
<1> DEFINE types == Types(s, r)
<1> DEFINE teams == Teams(s, r)
<1>1. Result(s, r, c) = [types |-> types, teams |-> teams]
  BY DEF Result
<1>2. DOMAIN types = DOMAIN s.types \cup DOMAIN r.types
  BY DEF Types
<1>3. /\ DOMAIN teams = DOMAIN s.teams \cup DOMAIN r.teams
      /\ \A t \in DOMAIN teams :
           teams[t] = IF t \in DOMAIN r.teams THEN r.teams[t] ELSE s.teams[t]
  BY DEF Teams
<1>4. \A t \in DOMAIN r.teams :
        /\ t \in DOMAIN types /\ r.teams[t].lead \in r.teams[t].members
        /\ r.teams[t].members \subseteq DOMAIN types
  BY DEF AcceptsNodes
<1> HIDE DEF types, teams
<1> QED BY <1>1, <1>2, <1>3, <1>4 DEF NodesConsistent

LEMMA ResultSound ==
  ASSUME NEW s, NEW c, NEW r \in Requests, Registers(r),
         Sound(FileOf(r), s), s \notin {Truncated, Torn}, Accepts(s, r)
  PROVE  Sound(FileOf(r), Result(s, r, c))
<1>1. CASE r.kind = "project"
  BY <1>1, ProjectsAfter DEF Sound, FileOf, Accepts
<1>2. CASE r.kind = "update"
  BY <1>2, UpdateAfter DEF Sound, FileOf, Accepts
<1>3. CASE r.kind = "workflow"
  BY <1>3, WorkflowAfter DEF Sound, FileOf, Accepts
<1>4. CASE r.kind = "nodes"
  BY <1>4, NodesAfter DEF Sound, FileOf, Accepts
<1>5. CASE r.kind = "proposal"
  BY <1>5 DEF Sound, FileOf
<1> QED BY <1>1, <1>2, <1>3, <1>4, <1>5 DEF Registers

-----------------------------------------------------------------------------
(* Every step keeps the files sound                                        *)

LEMMA FilesSoundAtFirst ==
  Init => FilesSound
<1> SUFFICES ASSUME Init PROVE FilesSound
  OBVIOUS
<1>1. /\ EmptyFiles["projects"] = [projects |-> {}, workflows |-> {}]
      /\ DOMAIN EmptyFiles["nodes"].teams = {}
  BY DEF EmptyFiles
<1>2. Sound("projects", EmptyFiles["projects"])
  BY <1>1 DEF Sound, ProjectsSound, ProjectsConsistent
<1>3. Sound("nodes", EmptyFiles["nodes"])
  BY <1>1 DEF Sound, NodesConsistent
<1>4. \A f \in Files : Sound(f, EmptyFiles[f])
  BY <1>2, <1>3 DEF Sound
<1> QED BY <1>4 DEF Init, FilesSound, Files, Writing

LEMMA FileOfRequest ==
  ASSUME NEW r, Registers(r)
  PROVE  FileOf(r) \in Files
<1>1. Files = {"projects", "nodes", "proposals"}
  BY DEF Files, EmptyFiles
<1> QED BY <1>1 DEF Registers, FileOf

LEMMA LoadKeepsSound ==
  ASSUME FilesSound, NEW c \in Calls, NEW r \in Requests, Load(c, r)
  PROVE  FilesSound'
<1>1. Registers(r) /\ Readable(FileOf(r)) /\ Accepts(disk[FileOf(r)], r)
  BY StoresAssumption DEF Load, MayProceed, Registers
<1>2. FileOf(r) \in Files
  BY <1>1, FileOfRequest
<1>3. Sound(FileOf(r), Result(disk[FileOf(r)], r, c))
  BY <1>1, <1>2, ResultSound DEF FilesSound, Readable
<1>4. /\ request' = [request EXCEPT ![c] = r]
      /\ text' = [text EXCEPT ![c] = Result(disk[FileOf(r)], r, c)]
      /\ pc' = [pc EXCEPT ![c] = "loaded"] /\ disk' = disk /\ temp' = temp
  BY DEF Load, Goto
<1> QED BY <1>1, <1>3, <1>4 DEF FilesSound

LEMMA WriteKeepsSound ==
  ASSUME FilesSound, NEW c \in Calls, WriteTemp(c)
  PROVE  FilesSound'
<1> DEFINE f == FileOf(request[c])
<1>1. pc[c] \in Writing
  BY DEF WriteTemp, Writing
<1>2. f \in Files /\ Sound(f, text[c])
  BY <1>1, FileOfRequest DEF FilesSound
<1>3. \A old : \A t \in Written(old, text[c]) : Sound(f, t)
  BY <1>2 DEF Written, Sound
<1>4. /\ pc' = [pc EXCEPT ![c] = "written"] /\ request' = request /\ text' = text
      /\ temp' = temp \/ \E t \in Written(temp[f], text[c]) : temp' = [temp EXCEPT ![f] = t]
      /\ disk' = disk \/ \E t \in Written(disk[f], text[c]) : disk' = [disk EXCEPT ![f] = t]
  BY DEF WriteTemp, Goto
<1> HIDE DEF f
<1>5. DOMAIN temp' = Files /\ \A g \in Files : temp'[g] # None => Sound(g, temp'[g])
  BY <1>2, <1>3, <1>4 DEF FilesSound
<1>6. DOMAIN disk' = Files /\ \A g \in Files : Sound(g, disk'[g])
  BY <1>2, <1>3, <1>4 DEF FilesSound
<1>7. \A d \in Calls : pc'[d] \in Writing => pc[d] \in Writing
  BY <1>1, <1>4 DEF FilesSound
<1> QED BY <1>4, <1>5, <1>6, <1>7 DEF FilesSound

LEMMA StepKeepsSound ==
  ASSUME FilesSound, [Next]_vars
  PROVE  FilesSound'
<1> USE DEF Goto
<1>1. ASSUME NEW c \in Calls, NEW r \in Requests, Load(c, r)
      PROVE  FilesSound'
  BY <1>1, LoadKeepsSound
<1>2. ASSUME NEW c \in Calls, NEW r \in Requests, Refuse(c, r) \/ StartMemory(c, r)
      PROVE  FilesSound'
  BY <1>2 DEF Refuse, StartMemory, FilesSound, Writing
<1>3. ASSUME NEW c \in Calls, OpenTemp(c)
      PROVE  FilesSound'
  <2>1. FileOf(request[c]) \in Files /\ pc[c] \in Writing
    BY <1>3, FileOfRequest DEF OpenTemp, FilesSound, Writing
  <2>2. \A g : Sound(g, Truncated)
    BY DEF Sound
  <2>3. /\ pc' = [pc EXCEPT ![c] = "opened"] /\ request' = request /\ text' = text
        /\ disk' = disk /\ temp' = [temp EXCEPT ![FileOf(request[c])] = Truncated]
    BY <1>3 DEF OpenTemp
  <2> QED BY <2>1, <2>2, <2>3 DEF FilesSound
<1>4. ASSUME NEW c \in Calls, WriteTemp(c)
      PROVE  FilesSound'
  BY <1>4, WriteKeepsSound
<1>5. ASSUME NEW c \in Calls, Rename(c)
      PROVE  FilesSound'
  <2> DEFINE f == FileOf(request[c])
  <2>1. pc[c] \in Writing /\ temp[f] # None
    BY <1>5 DEF Rename, Writing
  <2>2. f \in Files
    BY <2>1, FileOfRequest DEF FilesSound
  <2>3. /\ disk' = [disk EXCEPT ![f] = temp[f]] /\ temp' = [temp EXCEPT ![f] = None]
        /\ pc' = [pc EXCEPT ![c] = "returned"] /\ request' = request /\ text' = text
    BY <1>5 DEF Rename
  <2> HIDE DEF f
  <2> QED BY <2>1, <2>2, <2>3 DEF FilesSound, Writing
<1>6. ASSUME NEW c \in Calls, RenameFails(c) \/ ReturnRecords(c) \/ Crash(c)
                              \/ FindExisting(c) \/ FindNone(c) \/ AppendRecord(c)
      PROVE  FilesSound'
  BY <1>6 DEF RenameFails, ReturnRecords, Crash, FindExisting, FindNone, AppendRecord,
              FilesSound, Writing
<1>7. CASE UNCHANGED vars
  BY <1>7 DEF vars, FilesSound
<1> QED BY <1>1, <1>2, <1>3, <1>4, <1>5, <1>6, <1>7 DEF Next

\* The registries are consistent whenever they can be read, however many calls
\* overlap, are cut off, or write over one another.
THEOREM RegistriesAreConsistent ==
  Spec => []RegistriesConsistent
<1>1. FilesSound /\ [Next]_vars => FilesSound'
  BY StepKeepsSound
<1>2. FilesSound => RegistriesConsistent
  <2>1. "projects" \in Files /\ "nodes" \in Files
    BY DEF Files, EmptyFiles
  <2> QED BY <2>1 DEF FilesSound, Sound, ProjectsSound, RegistriesConsistent, Readable
<1> QED BY <1>1, <1>2, FilesSoundAtFirst, PTL DEF Spec

-----------------------------------------------------------------------------
(* Memory records                                                          *)

MemoryRequests == {r \in Requests : r.kind = "memory"}
Keys == UNION {Range(r.keys) : r \in MemoryRequests}

MemorySound ==
  /\ DOMAIN pc = Calls /\ DOMAIN request = Calls
  /\ records \in Seq(Keys)
  /\ \A c \in Calls :
       /\ pc[c] \in {"appending", "absent"} => request[c] \in MemoryRequests
       /\ pc[c] = "absent" => next[c] \in DOMAIN request[c].keys
  /\ ~overlap =>
       /\ \A c, d \in Active : c = d
       /\ \A c \in Calls : pc[c] = "absent" => ~Known(Candidate(c))
       /\ \A i, j \in DOMAIN records : records[i] = records[j] => i = j

LEMMA MemorySoundAtFirst ==
  Init => MemorySound
BY DEF Init, MemorySound, Active, Ended

\* No call goes back to its start, so that the active ones only become fewer, except
\* for one that starts.
LEMMA ActiveShrinks ==
  ASSUME DOMAIN pc = Calls, NEW c \in Calls, c \in Active, NEW place,
         pc' = [pc EXCEPT ![c] = place], place # "start"
  PROVE  Active' \subseteq Active
BY DEF Active, Ended

LEMMA StartedAlone ==
  ASSUME MemorySound, NEW c \in Calls, MayStart(c), ~overlap, NEW place,
         pc' = [pc EXCEPT ![c] = place]
  PROVE  \A d, e \in Active' : d = e
<1>1. Active = {}
  BY DEF MayStart
<1>2. \A d \in Calls \ {c} : pc'[d] = pc[d] /\ d \notin Active
  BY <1>1 DEF MemorySound
<1>3. \A d \in Calls \ {c} : d \notin Active'
  BY <1>2 DEF Active
<1> QED BY <1>3 DEF Active

\* A call that starts, or one that registers something, has nothing to do with records.
LEMMA StartKeepsMemory ==
  ASSUME MemorySound, NEW c \in Calls, NEW r \in Requests, MayStart(c), NEW place,
         pc' = [pc EXCEPT ![c] = place], request' = [request EXCEPT ![c] = r],
         (place = "appending" /\ r.kind = "memory") \/ place \in {"loaded", "threw"},
         UNCHANGED <<overlap, records, next>>
  PROVE  MemorySound'
<1>1. \A d \in Calls \ {c} : pc'[d] = pc[d] /\ request'[d] = request[d]
  BY DEF MemorySound
<1>2. pc'[c] = place /\ request'[c] = r /\ place # "absent"
  BY DEF MemorySound
<1>3. ~overlap => \A d, e \in Active' : d = e
  BY StartedAlone
<1>4. \A d \in Calls : pc'[d] = "absent" =>
        d # c /\ pc[d] = "absent" /\ Candidate(d)' = Candidate(d)
  BY <1>1, <1>2 DEF Candidate
<1>5. \A k : Known(k)' = Known(k)
  BY DEF Known
<1>6. place = "appending" => r \in MemoryRequests
  BY DEF MemoryRequests
<1>7. \A d \in Calls :
        /\ pc'[d] \in {"appending", "absent"} => request'[d] \in MemoryRequests
        /\ pc'[d] = "absent" => next'[d] \in DOMAIN request'[d].keys
  BY <1>1, <1>2, <1>6 DEF MemorySound
<1>8. ~overlap => \A d \in Calls : pc'[d] = "absent" => ~Known(Candidate(d))'
  BY <1>4, <1>5 DEF MemorySound
<1> QED BY <1>3, <1>7, <1>8 DEF MemorySound

LEMMA MoveKeepsMemory ==
  ASSUME MemorySound, NEW c \in Calls, c \in Active, NEW place,
         pc' = [pc EXCEPT ![c] = place], place \notin {"start", "appending", "absent"},
         UNCHANGED <<overlap, request, records, next>>
  PROVE  MemorySound'
<1>1. Active' \subseteq Active
  BY ActiveShrinks DEF MemorySound
<1>2. \A d \in Calls : pc'[d] \in {"appending", "absent"} => pc'[d] = pc[d]
  BY DEF MemorySound
<1>3. \A k : Known(k)' = Known(k)
  BY DEF Known
<1>4. \A d : Candidate(d)' = Candidate(d)
  BY DEF Candidate
<1> QED BY <1>1, <1>2, <1>3, <1>4 DEF MemorySound

LEMMA AppendKeepsMemory ==
  ASSUME MemorySound, NEW c \in Calls, AppendRecord(c)
  PROVE  MemorySound'
<1> DEFINE key == Candidate(c)
<1>1. /\ pc[c] = "absent" /\ pc' = [pc EXCEPT ![c] = "appending"]
      /\ records' = Append(records, key) /\ next' = [next EXCEPT ![c] = @ + 1]
      /\ request' = request /\ overlap' = overlap
  BY DEF AppendRecord, Goto
<1>2. request[c] \in MemoryRequests /\ next[c] \in DOMAIN request[c].keys /\ c \in Active
  BY <1>1 DEF MemorySound, Active, Ended
<1>3. key \in Keys /\ records \in Seq(Keys)
  BY <1>2 DEF Candidate, Keys, Range, MemorySound
<1>4. Active' \subseteq Active
  BY <1>1, <1>2, ActiveShrinks DEF MemorySound
<1>5. \A d \in Calls \ {c} : pc'[d] = pc[d]
  BY <1>1 DEF MemorySound
<1>6. pc'[c] = "appending"
  BY <1>1 DEF MemorySound
<1> HIDE DEF key
<1>7. \A d \in Calls : pc'[d] = "absent" => next'[d] \in DOMAIN request'[d].keys
  BY <1>1, <1>5, <1>6 DEF MemorySound
<1>8. ASSUME ~overlap
      PROVE  \A i, j \in DOMAIN records' : records'[i] = records'[j] => i = j
  <2>1. \A i \in DOMAIN records : records[i] # key
    BY <1>1, <1>8 DEF MemorySound, Known, Range, key
  <2>2. \A i, j \in DOMAIN records : records[i] = records[j] => i = j
    BY <1>8 DEF MemorySound
  <2> QED BY <2>1, <2>2, <1>1, <1>3
<1>9. ASSUME ~overlap
      PROVE  \A d \in Calls : pc'[d] # "absent"
  BY <1>1, <1>2, <1>5, <1>6, <1>9 DEF MemorySound, Active, Ended
<1>10. records' \in Seq(Keys)
  BY <1>1, <1>3
<1>11. \A d \in Calls : pc'[d] \in {"appending", "absent"} => request'[d] \in MemoryRequests
  BY <1>1, <1>2, <1>5 DEF MemorySound
<1>12. DOMAIN pc' = Calls /\ DOMAIN request' = Calls
  BY <1>1 DEF MemorySound
<1>13. overlap' = overlap /\ (~overlap => \A d, e \in Active' : d = e)
  BY <1>1, <1>4 DEF MemorySound
<1> QED BY <1>7, <1>8, <1>9, <1>10, <1>11, <1>12, <1>13 DEF MemorySound

LEMMA LookKeepsMemory ==
  ASSUME MemorySound, NEW c \in Calls, FindExisting(c) \/ FindNone(c)
  PROVE  MemorySound'
<1>1. CASE FindExisting(c)
  <2>1. /\ pc[c] = "appending" /\ next' = [next EXCEPT ![c] = @ + 1]
        /\ UNCHANGED <<overlap, pc, request, records>>
    BY <1>1 DEF FindExisting, HasNext
  <2>2. \A d \in Calls : pc[d] = "absent" => next'[d] = next[d]
    BY <2>1
  <2>3. \A d \in Calls : pc[d] = "absent" => Candidate(d)' = Candidate(d)
    BY <2>1, <2>2 DEF Candidate
  <2>4. Active' = Active /\ \A k : Known(k)' = Known(k)
    BY <2>1 DEF Active, Known
  <2> QED BY <2>1, <2>2, <2>3, <2>4 DEF MemorySound
<1>2. CASE FindNone(c)
  <2>1. /\ pc[c] = "appending" /\ pc' = [pc EXCEPT ![c] = "absent"]
        /\ next[c] \in DOMAIN request[c].keys /\ ~Known(Candidate(c))
        /\ UNCHANGED <<overlap, request, records, next>>
    BY <1>2 DEF FindNone, HasNext, Goto
  <2>2. Active' \subseteq Active
    BY <2>1, ActiveShrinks DEF MemorySound, Active, Ended
  <2>3. /\ \A k : Known(k)' = Known(k)
        /\ \A d : Candidate(d)' = Candidate(d)
    BY <2>1 DEF Known, Candidate
  <2>4. \A d \in Calls \ {c} : pc'[d] = pc[d]
    BY <2>1 DEF MemorySound
  <2> QED BY <2>1, <2>2, <2>3, <2>4 DEF MemorySound
<1> QED BY <1>1, <1>2

LEMMA StepKeepsMemory ==
  ASSUME MemorySound, [Next]_vars
  PROVE  MemorySound'
<1> USE DEF Goto
<1>1. ASSUME NEW c \in Calls, NEW r \in Requests,
             Load(c, r) \/ Refuse(c, r) \/ StartMemory(c, r)
      PROVE  MemorySound'
  BY <1>1, StartKeepsMemory DEF Load, Refuse, StartMemory
<1>2. ASSUME NEW c \in Calls, OpenTemp(c) \/ WriteTemp(c) \/ Rename(c) \/ RenameFails(c)
                              \/ ReturnRecords(c) \/ Crash(c)
      PROVE  MemorySound'
  <2>1. c \in Active
    BY <1>2 DEF OpenTemp, WriteTemp, Rename, RenameFails, ReturnRecords, Crash, Active, Ended
  <2>2. \E place \in {"opened", "written", "returned", "threw", "crashed"} :
          pc' = [pc EXCEPT ![c] = place]
    BY <1>2 DEF OpenTemp, WriteTemp, Rename, RenameFails, ReturnRecords, Crash
  <2>3. UNCHANGED <<overlap, request, records, next>>
    BY <1>2 DEF OpenTemp, WriteTemp, Rename, RenameFails, ReturnRecords, Crash
  <2> QED BY <2>1, <2>2, <2>3, MoveKeepsMemory
<1>3. ASSUME NEW c \in Calls, FindExisting(c) \/ FindNone(c)
      PROVE  MemorySound'
  BY <1>3, LookKeepsMemory
<1>4. ASSUME NEW c \in Calls, AppendRecord(c)
      PROVE  MemorySound'
  BY <1>4, AppendKeepsMemory
<1>5. CASE UNCHANGED vars
  BY <1>5 DEF vars, MemorySound, Active, Known, Candidate
<1> QED BY <1>1, <1>2, <1>3, <1>4, <1>5 DEF Next

\* Memory writes that do not overlap never store a key twice, wherever they are cut
\* off and however often they are run again.
THEOREM KeysAreUnique ==
  Spec => []OneRecordPerKey
<1>1. MemorySound /\ [Next]_vars => MemorySound'
  BY StepKeepsMemory
<1>2. MemorySound => OneRecordPerKey
  BY DEF MemorySound, OneRecordPerKey
<1> QED BY <1>1, <1>2, MemorySoundAtFirst, PTL DEF Spec

-----------------------------------------------------------------------------
(* What is registered stays registered                                     *)

\* t has everything that s has, as far as a call could miss it.
Grown(f, s, t) ==
  /\ f = "projects" => /\ \A p : HasProject(s, p) => HasProject(t, p)
                       /\ s.workflows \subseteq t.workflows
  /\ f = "nodes" => /\ DOMAIN s.types \subseteq DOMAIN t.types
                    /\ DOMAIN s.teams \subseteq DOMAIN t.teams
  /\ f = "proposals" => s \subseteq t

\* What r asks for, in a snapshot of its file.
Holds(s, r, c) ==
  /\ r.kind \in {"project", "update"} => HasProject(s, r.project)
  /\ r.kind = "workflow" => [workflow_id |-> r.workflow, project_id |-> r.project] \in s.workflows
  /\ r.kind = "nodes" => /\ DOMAIN r.types \subseteq DOMAIN s.types
                         /\ DOMAIN r.teams \subseteq DOMAIN s.teams
  /\ r.kind = "proposal" => [proposal_id |-> r.id, received_by |-> c] \in s

LEMMA KeptIsHeld ==
  ASSUME NEW r, NEW c
  PROVE  /\ Registers(r) => (Kept(r, c) <=> Holds(disk[FileOf(r)], r, c))
         /\ r.kind = "memory" => (Kept(r, c) <=> Range(r.keys) \subseteq Range(records))
<1>1. CASE r.kind \in {"project", "update"}
  BY <1>1 DEF Registers, Kept, Holds, FileOf
<1>2. CASE r.kind = "workflow"
  BY <1>2 DEF Registers, Kept, Holds, FileOf
<1>3. CASE r.kind = "nodes"
  BY <1>3 DEF Registers, Kept, Holds, FileOf
<1>4. CASE r.kind = "proposal"
  BY <1>4 DEF Registers, Kept, Holds, FileOf
<1>5. CASE r.kind = "memory"
  BY <1>5 DEF Registers, Kept
<1> QED BY <1>1, <1>2, <1>3, <1>4, <1>5 DEF Registers

LEMMA FieldIsNamed ==
  ASSUME NEW r \in Requests, NEW field, field \in DOMAIN r
  PROVE  r[field] \in Named(field)
BY DEF Named

LEMMA MapsUnited ==
  ASSUME NEW maps, NEW m \in PartialMaps(maps), NEW n \in maps, IsFunction(n), NEW u,
         u = [x \in DOMAIN m \cup DOMAIN n |-> IF x \in DOMAIN n THEN n[x] ELSE m[x]]
  PROVE  u \in PartialMaps(maps)
<1> DEFINE names == UNION {DOMAIN k : k \in maps}
<1> DEFINE vals == UNION {Range(k) : k \in maps}
<1>1. DOMAIN n \subseteq names /\ \A x \in DOMAIN n : n[x] \in vals
  BY DEF Range
<1>2. PICK S \in SUBSET names : m \in [S -> vals]
  BY DEF PartialMaps
<1> HIDE DEF names, vals
<1>3. u \in [DOMAIN m \cup DOMAIN n -> vals] /\ DOMAIN m \cup DOMAIN n \in SUBSET names
  BY <1>1, <1>2
<1> QED BY <1>3 DEF PartialMaps, names, vals

LEMMA EmptyIsSnapshot ==
  \A f \in Files : EmptyFiles[f] \in Snapshots[f]
<1>1. Files = {"projects", "nodes", "proposals"}
  BY DEF Files, EmptyFiles
<1>2. EmptyFiles["projects"] \in Snapshots["projects"]
  BY DEF EmptyFiles, Snapshots
<1>3. EmptyFiles["proposals"] \in Snapshots["proposals"]
  BY DEF EmptyFiles, Snapshots
<1>4. \A maps : [n \in {} |-> None] \in PartialMaps(maps)
  <2> SUFFICES ASSUME NEW maps
               PROVE  [n \in {} |-> None] \in PartialMaps(maps)
    OBVIOUS
  <2> DEFINE names == UNION {DOMAIN k : k \in maps}
  <2> DEFINE vals == UNION {Range(k) : k \in maps}
  <2> HIDE DEF names, vals
  <2>1. {} \in SUBSET names /\ [n \in {} |-> None] \in [{} -> vals]
    OBVIOUS
  <2> QED BY <2>1 DEF PartialMaps, names, vals
<1>5. EmptyFiles["nodes"] \in Snapshots["nodes"]
  BY <1>4 DEF EmptyFiles, Snapshots
<1> QED BY <1>1, <1>2, <1>3, <1>5

\* An accepted request makes a snapshot with what it asks for of one that has not.
LEMMA ResultHolds ==
  ASSUME NEW r \in Requests, Registers(r), NEW s \in Snapshots[FileOf(r)], Accepts(s, r),
         NEW c \in Calls
  PROVE  /\ Result(s, r, c) \in Snapshots[FileOf(r)]
         /\ Grown(FileOf(r), s, Result(s, r, c))
         /\ Holds(Result(s, r, c), r, c)
<1> DEFINE t == Result(s, r, c)
<1> DEFINE ProjectSet == [project_id : Named("project"), priority : Named("priority")]
<1> DEFINE WorkflowSet == [workflow_id : Named("workflow"), project_id : Named("project")]
<1>1. CASE r.kind = "project"
  <2>1. r.project \in Named("project") /\ r.priority \in Named("priority")
    BY <1>1, StoresAssumption, FieldIsNamed
  <2>2. s \in [projects : SUBSET ProjectSet, workflows : SUBSET WorkflowSet] /\ FileOf(r) = "projects"
    BY <1>1 DEF Snapshots, FileOf
  <2> DEFINE new == [project_id |-> r.project, priority |-> r.priority]
  <2>3. new \in ProjectSet /\ new.project_id = r.project
    BY <2>1
  <2>4. t = [s EXCEPT !.projects = @ \cup {new}]
    BY <1>1 DEF Result
  <2> HIDE DEF t, new, ProjectSet, WorkflowSet
  <2>5. /\ t \in [projects : SUBSET ProjectSet, workflows : SUBSET WorkflowSet]
        /\ t.projects = s.projects \cup {new} /\ t.workflows = s.workflows
    BY <2>2, <2>3, <2>4
  <2>6. Grown("projects", s, t) /\ Holds(t, r, c)
    BY <1>1, <2>3, <2>5 DEF Grown, Holds, HasProject
  <2> QED BY <2>2, <2>5, <2>6 DEF Snapshots, ProjectSet, WorkflowSet, t
<1>2. CASE r.kind = "update"
  <2>1. r.priority \in Named("priority") /\ HasProject(s, r.project)
    BY <1>2, StoresAssumption, FieldIsNamed DEF Accepts, AcceptsUpdate
  <2>2. s \in [projects : SUBSET ProjectSet, workflows : SUBSET WorkflowSet] /\ FileOf(r) = "projects"
    BY <1>2 DEF Snapshots, FileOf
  <2> DEFINE Set(p) == IF p.project_id = r.project THEN [p EXCEPT !.priority = r.priority] ELSE p
  <2>3. \A p \in s.projects : Set(p) \in ProjectSet /\ Set(p).project_id = p.project_id
    BY <2>1, <2>2
  <2>4. t = [s EXCEPT !.projects = {Set(p) : p \in @}]
    BY <1>2 DEF Result
  <2> HIDE DEF t, Set, ProjectSet, WorkflowSet
  <2>5. /\ t \in [projects : SUBSET ProjectSet, workflows : SUBSET WorkflowSet]
        /\ t.projects = {Set(p) : p \in s.projects} /\ t.workflows = s.workflows
    BY <2>2, <2>3, <2>4
  <2>6. \A p : HasProject(s, p) => HasProject(t, p)
    BY <2>3, <2>5 DEF HasProject
  <2>7. Grown("projects", s, t) /\ Holds(t, r, c)
    BY <1>2, <2>1, <2>5, <2>6 DEF Grown, Holds
  <2> QED BY <2>2, <2>5, <2>7 DEF Snapshots, ProjectSet, WorkflowSet, t
<1>3. CASE r.kind = "workflow"
  <2>1. r.workflow \in Named("workflow") /\ r.project \in Named("project")
    BY <1>3, StoresAssumption, FieldIsNamed
  <2>2. s \in [projects : SUBSET ProjectSet, workflows : SUBSET WorkflowSet] /\ FileOf(r) = "projects"
    BY <1>3 DEF Snapshots, FileOf
  <2> DEFINE new == [workflow_id |-> r.workflow, project_id |-> r.project]
  <2>3. new \in WorkflowSet
    BY <2>1
  <2>4. t = [s EXCEPT !.workflows = @ \cup {new}]
    BY <1>3 DEF Result
  <2>5. Holds(t, r, c) <=> new \in t.workflows
    BY <1>3 DEF Holds
  <2> HIDE DEF t, new, ProjectSet, WorkflowSet
  <2>6. /\ t \in [projects : SUBSET ProjectSet, workflows : SUBSET WorkflowSet]
        /\ t.projects = s.projects /\ t.workflows = s.workflows \cup {new}
    BY <2>2, <2>3, <2>4
  <2>7. Grown("projects", s, t) /\ Holds(t, r, c)
    BY <2>5, <2>6 DEF Grown, HasProject
  <2> QED BY <2>2, <2>6, <2>7 DEF Snapshots, ProjectSet, WorkflowSet, t
<1>4. CASE r.kind = "nodes"
  <2>1. /\ r.types \in Named("types") /\ r.teams \in Named("teams")
        /\ IsFunction(r.types) /\ IsFunction(r.teams)
    BY <1>4, StoresAssumption, FieldIsNamed
  <2>2. /\ s \in [types : PartialMaps(Named("types")), teams : PartialMaps(Named("teams"))]
        /\ FileOf(r) = "nodes"
    BY <1>4 DEF Snapshots, FileOf
  <2>3. t = [types |-> Types(s, r), teams |-> Teams(s, r)]
    BY <1>4 DEF Result
  <2>4. Types(s, r) \in PartialMaps(Named("types")) /\ Teams(s, r) \in PartialMaps(Named("teams"))
    BY <2>1, <2>2, MapsUnited DEF Types, Teams
  <2>5. /\ DOMAIN Types(s, r) = DOMAIN s.types \cup DOMAIN r.types
        /\ DOMAIN Teams(s, r) = DOMAIN s.teams \cup DOMAIN r.teams
    BY DEF Types, Teams
  <2> HIDE DEF t
  <2>6. t.types = Types(s, r) /\ t.teams = Teams(s, r)
    BY <2>3
  <2>7. Grown("nodes", s, t) /\ Holds(t, r, c)
    BY <1>4, <2>5, <2>6 DEF Grown, Holds
  <2>8. t \in Snapshots["nodes"]
    BY <2>3, <2>4 DEF Snapshots
  <2> QED BY <2>2, <2>7, <2>8 DEF t
<1>5. CASE r.kind = "proposal"
  <2>1. r.id \in Named("id")
    BY <1>5, StoresAssumption, FieldIsNamed
  <2>2. s \in SUBSET [proposal_id : Named("id"), received_by : Calls] /\ FileOf(r) = "proposals"
    BY <1>5 DEF Snapshots, FileOf
  <2>3. t = s \cup {[proposal_id |-> r.id, received_by |-> c]}
    BY <1>5 DEF Result
  <2>4. Grown("proposals", s, t) /\ Holds(t, r, c)
    BY <1>5, <2>3 DEF Grown, Holds
  <2>5. t \in Snapshots["proposals"]
    BY <2>1, <2>2, <2>3 DEF Snapshots
  <2> QED BY <2>2, <2>4, <2>5
<1> QED BY <1>1, <1>2, <1>3, <1>4, <1>5 DEF Registers

-----------------------------------------------------------------------------
(* One call at a time: what it writes is what the disk is about to hold    *)

Target(c) == FileOf(request[c])
Stored(c) == \A i \in DOMAIN request[c].keys : i < next[c] => request[c].keys[i] \in Range(records)

CallSound(c) ==
  /\ pc[c] = "start" => next[c] = 1
  /\ pc[c] \in Writing => /\ Accepts(disk[Target(c)], request[c])
                          /\ text[c] = Result(disk[Target(c)], request[c], c)
  /\ pc[c] = "opened" => open[c] = "temp" /\ temp[Target(c)] = Truncated
  /\ pc[c] = "written" => temp[Target(c)] = text[c]
  /\ pc[c] \in {"appending", "absent"} => Stored(c)
  /\ pc[c] = "returned" => request[c] \in Requests /\ Kept(request[c], c)

DiskSound == \A f \in Files : disk[f] \in Snapshots[f]

AcksSound ==
  /\ FilesSound /\ MemorySound
  /\ DOMAIN open = Calls /\ next \in [Calls -> Nat \ {0}]
  /\ ~overlap => DiskSound /\ \A c \in Calls : CallSound(c)

LEMMA KeptStays ==
  ASSUME NEW r \in Requests, NEW c, Kept(r, c),
         \A f \in Files : Grown(f, disk[f], disk'[f]), Range(records) \subseteq Range(records')
  PROVE  Kept(r, c)'
<1>1. Registers(r) \/ r.kind = "memory"
  BY StoresAssumption DEF Registers
<1>2. CASE Registers(r)
  <2>1. FileOf(r) \in Files /\ Holds(disk[FileOf(r)], r, c)
    BY <1>2, FileOfRequest, KeptIsHeld
  <2>2. Grown(FileOf(r), disk[FileOf(r)], disk'[FileOf(r)])
    BY <2>1
  <2>3. Holds(disk'[FileOf(r)], r, c)
    BY <1>2, <2>1, <2>2 DEF Holds, Grown, FileOf, Registers
  <2>4. Kept(r, c)' <=> Holds(disk'[FileOf(r)], r, c)
    BY <1>2 DEF Kept, Holds, FileOf, Registers
  <2> QED BY <2>3, <2>4
<1>3. CASE r.kind = "memory"
  BY <1>3 DEF Kept
<1> QED BY <1>1, <1>2, <1>3

LEMMA GrownToItself ==
  \A f, s : Grown(f, s, s)
BY DEF Grown

\* While c is at work, every other call is over or has not begun.
LEMMA OthersAtRest ==
  ASSUME AcksSound, ~overlap, NEW c \in Calls, c \in Active \/ Active = {},
         NEW d \in Calls \ {c}
  PROVE  pc[d] \in Ended \cup {"start"}
BY DEF AcksSound, MemorySound, Active

LEMMA OthersStaySound ==
  ASSUME AcksSound, ~overlap, NEW c \in Calls, c \in Active \/ Active = {},
         \A d \in Calls \ {c} : /\ pc'[d] = pc[d] /\ request'[d] = request[d]
                                /\ next'[d] = next[d],
         \A f \in Files : Grown(f, disk[f], disk'[f]), Range(records) \subseteq Range(records'),
         CallSound(c)'
  PROVE  \A d \in Calls : CallSound(d)'
<1> SUFFICES ASSUME NEW d \in Calls \ {c}
             PROVE  CallSound(d)'
  OBVIOUS
<1>1. pc[d] \in Ended \cup {"start"} /\ CallSound(d)
  BY OthersAtRest DEF AcksSound
<1>2. pc'[d] = pc[d] /\ request'[d] = request[d] /\ next'[d] = next[d]
  OBVIOUS
<1>3. pc[d] = "returned" => request[d] \in Requests /\ Kept(request[d], d)
  BY <1>1 DEF CallSound
<1>4. ASSUME pc[d] = "returned"
      PROVE  Kept(request[d], d)'
  <2>1. PICK r \in Requests : r = request[d] /\ Kept(r, d)
    BY <1>3, <1>4
  <2>2. Kept(r, d)'
    BY <2>1, KeptStays
  <2>3. r = request'[d]
    BY <1>2, <2>1
  <2> QED BY <2>2, <2>3 DEF Kept
<1>5. pc'[d] \notin Writing \cup {"appending", "absent"}
  BY <1>1, <1>2 DEF Ended, Writing
<1>6. pc'[d] \notin {"opened", "written"}
  BY <1>5 DEF Writing
<1>7. pc'[d] = "start" => next'[d] = 1
  BY <1>1, <1>2 DEF CallSound
<1> QED BY <1>2, <1>3, <1>4, <1>5, <1>6, <1>7 DEF CallSound

LEMMA AcksSoundAtFirst ==
  Init => AcksSound
<1> SUFFICES ASSUME Init
             PROVE  AcksSound
  OBVIOUS
<1>1. DiskSound
  BY EmptyIsSnapshot DEF Init, DiskSound
<1>2. \A c \in Calls : CallSound(c)
  BY DEF Init, CallSound, Writing
<1> QED BY <1>1, <1>2, FilesSoundAtFirst, MemorySoundAtFirst DEF AcksSound, Init

LEMMA LoadKeepsAcks ==
  ASSUME AcksSound, ~overlap, NEW c \in Calls, NEW r \in Requests, Load(c, r)
  PROVE  DiskSound' /\ \A d \in Calls : CallSound(d)'
<1>1. /\ Active = {} /\ Accepts(disk[FileOf(r)], r)
      /\ request' = [request EXCEPT ![c] = r]
      /\ text' = [text EXCEPT ![c] = Result(disk[FileOf(r)], r, c)]
      /\ pc' = [pc EXCEPT ![c] = "loaded"]
      /\ UNCHANGED <<open, disk, temp, records, next>>
  BY DEF Load, MayStart, MayProceed, Goto
<1>2. /\ pc'[c] = "loaded" /\ request'[c] = r /\ text'[c] = Result(disk[FileOf(r)], r, c)
      /\ \A d \in Calls \ {c} : pc'[d] = pc[d] /\ request'[d] = request[d]
  BY <1>1 DEF AcksSound, FilesSound
<1>3. CallSound(c)'
  BY <1>1, <1>2 DEF CallSound, Target
<1> QED BY <1>1, <1>2, <1>3, OthersStaySound, GrownToItself DEF DiskSound, AcksSound

LEMMA WriteKeepsAcks ==
  ASSUME AcksSound, ~overlap, NEW c \in Calls, OpenTemp(c) \/ WriteTemp(c)
  PROVE  DiskSound' /\ \A d \in Calls : CallSound(d)'
<1>1. /\ c \in Active /\ pc[c] \in Writing /\ CallSound(c) /\ Target(c) \in Files
      /\ UNCHANGED <<request, text, records, next>>
  BY FileOfRequest
     DEF OpenTemp, WriteTemp, Active, Ended, Writing, AcksSound, FilesSound, Target
<1>2. /\ DOMAIN temp = Files /\ DOMAIN pc = Calls /\ DOMAIN open = Calls
  BY DEF AcksSound, FilesSound
<1>3. CASE OpenTemp(c)
  <2>1. /\ pc' = [pc EXCEPT ![c] = "opened"] /\ open' = [open EXCEPT ![c] = "temp"]
        /\ temp' = [temp EXCEPT ![Target(c)] = Truncated] /\ disk' = disk
    BY <1>3 DEF OpenTemp, Goto, Target
  <2>2. /\ pc'[c] = "opened" /\ open'[c] = "temp" /\ temp'[Target(c)] = Truncated
    BY <1>1, <1>2, <2>1
  <2>3. CallSound(c)'
    BY <1>1, <2>1, <2>2 DEF CallSound, Target
  <2> QED BY <1>1, <1>2, <2>1, <2>3, OthersStaySound, GrownToItself DEF DiskSound, AcksSound
<1>4. CASE WriteTemp(c)
  <2>1. pc[c] = "opened" /\ open[c] = "temp" /\ temp[Target(c)] = Truncated
    BY <1>1, <1>4 DEF WriteTemp, CallSound
  <2>2. /\ pc' = [pc EXCEPT ![c] = "written"] /\ disk' = disk
        /\ temp' = [temp EXCEPT ![Target(c)] = text[c]]
    BY <1>4, <2>1 DEF WriteTemp, Goto, Target, Written
  <2>3. pc'[c] = "written" /\ temp'[Target(c)] = text[c]
    BY <1>1, <1>2, <2>2
  <2>4. CallSound(c)'
    BY <1>1, <2>2, <2>3 DEF CallSound, Target, Writing
  <2> QED BY <1>1, <1>2, <2>2, <2>4, OthersStaySound, GrownToItself DEF DiskSound, AcksSound
<1> QED BY <1>3, <1>4

LEMMA RenameKeepsAcks ==
  ASSUME AcksSound, ~overlap, NEW c \in Calls, Rename(c)
  PROVE  DiskSound' /\ \A d \in Calls : CallSound(d)'
<1>1. /\ c \in Active /\ pc[c] = "written" /\ CallSound(c)
      /\ pc' = [pc EXCEPT ![c] = "returned"]
      /\ disk' = [disk EXCEPT ![Target(c)] = temp[Target(c)]]
      /\ UNCHANGED <<request, text, records, next>>
  BY DEF Rename, Active, Ended, AcksSound, Goto, Target
<1>2. /\ request[c] \in Requests /\ Registers(request[c]) /\ Target(c) \in Files
      /\ DOMAIN disk = Files /\ DOMAIN pc = Calls
  BY <1>1, FileOfRequest DEF AcksSound, FilesSound, Writing, Target
<1>3. /\ temp[Target(c)] = Result(disk[Target(c)], request[c], c)
      /\ Accepts(disk[Target(c)], request[c]) /\ disk[Target(c)] \in Snapshots[Target(c)]
  BY <1>1, <1>2 DEF CallSound, Writing, AcksSound, DiskSound
<1> DEFINE t == temp[Target(c)]
<1>4. /\ t \in Snapshots[Target(c)] /\ Grown(Target(c), disk[Target(c)], t)
      /\ Holds(t, request[c], c)
  BY <1>2, <1>3, ResultHolds DEF Target
<1> HIDE DEF t
<1>5. /\ disk' = [disk EXCEPT ![Target(c)] = t]
      /\ disk'[Target(c)] = t /\ \A f \in Files \ {Target(c)} : disk'[f] = disk[f]
  BY <1>1, <1>2 DEF t
<1>6. DiskSound'
  BY <1>4, <1>5 DEF AcksSound, DiskSound
<1>7. \A f \in Files : Grown(f, disk[f], disk'[f])
  BY <1>4, <1>5, GrownToItself
<1>8. Kept(request[c], c)'
  <2>1. PICK r \in Requests : r = request[c] /\ r = request'[c] /\ Registers(r)
    BY <1>1, <1>2
  <2>2. Holds(disk'[FileOf(r)], r, c)
    BY <1>4, <1>5, <2>1 DEF Target
  <2>3. Kept(r, c)' <=> Holds(disk'[FileOf(r)], r, c)
    BY <2>1 DEF Kept, Holds, FileOf, Registers
  <2>4. Kept(r, c)'
    BY <2>2, <2>3
  <2> QED BY <2>1, <2>4 DEF Kept
<1>9. CallSound(c)'
  <2>1. pc'[c] = "returned" /\ request'[c] \in Requests
    BY <1>1, <1>2
  <2> QED BY <1>8, <2>1 DEF CallSound, Writing
<1> QED BY <1>1, <1>2, <1>6, <1>7, <1>9, OthersStaySound DEF AcksSound

LEMMA MemoryKeepsAcks ==
  ASSUME AcksSound, ~overlap, NEW c \in Calls,
         FindExisting(c) \/ FindNone(c) \/ AppendRecord(c) \/ ReturnRecords(c)
  PROVE  DiskSound' /\ \A d \in Calls : CallSound(d)'
<1>1. /\ c \in Active /\ pc[c] \in {"appending", "absent"} /\ Stored(c)
      /\ request[c] \in MemoryRequests /\ next[c] \in Nat \ {0}
      /\ DOMAIN pc = Calls /\ DOMAIN next = Calls
      /\ UNCHANGED <<request, text, open, disk, temp>>
  BY DEF FindExisting, FindNone, AppendRecord, ReturnRecords, HasNext, Active, Ended,
         AcksSound, MemorySound, CallSound
<1>2. /\ request[c] \in Requests /\ request[c].kind = "memory"
      /\ Len(request[c].keys) \in Nat /\ DOMAIN request[c].keys = 1..Len(request[c].keys)
  BY <1>1, StoresAssumption DEF MemoryRequests
<1>3. records \in Seq(Keys)
  BY DEF AcksSound, MemorySound
<1>4. Range(records) \subseteq Range(records')
  <2>1. CASE AppendRecord(c)
    <3>1. PICK key : records' = Append(records, key)
      BY <2>1 DEF AppendRecord
    <3>2. DOMAIN records \subseteq DOMAIN records'
      BY <1>3, <3>1
    <3>3. \A i \in DOMAIN records : records'[i] = records[i]
      BY <1>3, <3>1
    <3> QED BY <3>2, <3>3 DEF Range
  <2>2. CASE ~AppendRecord(c)
    BY <2>2 DEF FindExisting, FindNone, ReturnRecords
  <2> QED BY <2>1, <2>2
<1>5. \A d \in Calls \ {c} : pc'[d] = pc[d] /\ next'[d] = next[d]
  BY <1>1 DEF FindExisting, FindNone, AppendRecord, ReturnRecords, Goto
<1>6. CASE FindExisting(c)
  <2>1. /\ Candidate(c) \in Range(records) /\ pc'[c] = "appending" /\ records' = records
        /\ next'[c] = next[c] + 1
    BY <1>1, <1>6 DEF FindExisting, HasNext, Known
  <2>2. Stored(c)'
    BY <1>1, <1>2, <2>1 DEF Stored, Candidate
  <2>3. CallSound(c)'
    BY <2>1, <2>2 DEF CallSound, Writing
  <2> QED BY <1>1, <1>4, <1>5, <2>3, OthersStaySound, GrownToItself DEF DiskSound, AcksSound
<1>7. CASE FindNone(c)
  <2>1. pc'[c] = "absent" /\ records' = records /\ next' = next
    BY <1>1, <1>7 DEF FindNone, Goto
  <2>2. Stored(c)'
    BY <1>1, <2>1 DEF Stored
  <2>3. CallSound(c)'
    BY <2>1, <2>2 DEF CallSound, Writing
  <2> QED BY <1>1, <1>4, <1>5, <2>3, OthersStaySound, GrownToItself DEF DiskSound, AcksSound
<1>8. CASE AppendRecord(c)
  <2>1. /\ records' = Append(records, Candidate(c)) /\ pc'[c] = "appending"
        /\ next'[c] = next[c] + 1
    BY <1>1, <1>8 DEF AppendRecord, Goto
  <2>2. Candidate(c) \in Range(records')
    <3>1. Len(records) + 1 \in DOMAIN records' /\ records'[Len(records) + 1] = Candidate(c)
      BY <1>3, <2>1
    <3> QED BY <3>1 DEF Range
  <2>3. Stored(c)'
    BY <1>1, <1>2, <1>4, <2>1, <2>2 DEF Stored, Candidate
  <2>4. CallSound(c)'
    BY <2>1, <2>3 DEF CallSound, Writing
  <2> QED BY <1>1, <1>4, <1>5, <2>4, OthersStaySound, GrownToItself DEF DiskSound, AcksSound
<1>9. CASE ReturnRecords(c)
  <2>1. /\ pc[c] = "appending" /\ next[c] \notin DOMAIN request[c].keys
        /\ pc'[c] = "returned" /\ records' = records
    BY <1>1, <1>9 DEF ReturnRecords, HasNext, Goto
  <2>2. \A i \in DOMAIN request[c].keys : i < next[c]
    BY <1>1, <1>2, <2>1
  <2>3. Range(request[c].keys) \subseteq Range(records)
    BY <1>1, <2>2 DEF Stored, Range
  <2>4. PICK r \in Requests : r = request[c] /\ r = request'[c] /\ r.kind = "memory"
    BY <1>1, <1>2
  <2>5. Kept(r, c)'
    BY <2>1, <2>3, <2>4 DEF Kept
  <2>6. Kept(request[c], c)'
    BY <2>4, <2>5 DEF Kept
  <2>7. CallSound(c)'
    BY <1>1, <1>2, <2>1, <2>6 DEF CallSound, Writing
  <2> QED BY <1>1, <1>4, <1>5, <2>7, OthersStaySound, GrownToItself DEF DiskSound, AcksSound
<1> QED BY <1>6, <1>7, <1>8, <1>9

\* A call that gives up leaves the files as they are.
LEMMA EndKeepsAcks ==
  ASSUME AcksSound, ~overlap, NEW c \in Calls,
         \/ \E r \in Requests : Refuse(c, r) \/ StartMemory(c, r)
         \/ RenameFails(c) \/ Crash(c)
  PROVE  DiskSound' /\ \A d \in Calls : CallSound(d)'
<1>1. /\ UNCHANGED <<text, disk, temp, records, next>>
      /\ c \in Active \/ Active = {}
      /\ \A d \in Calls \ {c} : pc'[d] = pc[d] /\ request'[d] = request[d]
  BY DEF Refuse, StartMemory, RenameFails, Crash, MayStart, Goto, Active, Ended, AcksSound,
         MemorySound
<1>2. \/ pc'[c] \in {"threw", "crashed"}
      \/ pc[c] = "start" /\ pc'[c] = "appending"
  BY DEF Refuse, StartMemory, RenameFails, Crash, MayStart, Goto, AcksSound, MemorySound
<1>3. CallSound(c)'
  <2>1. CASE pc'[c] \in {"threw", "crashed"}
    BY <2>1 DEF CallSound, Writing
  <2>2. CASE pc[c] = "start" /\ pc'[c] = "appending"
    <3>1. next[c] = 1
      BY <2>2 DEF AcksSound, CallSound
    <3>2. PICK r \in Requests : StartMemory(c, r)
      BY <2>2 DEF Refuse, RenameFails, Crash, Goto, AcksSound, MemorySound
    <3>3. request'[c] = r /\ r.kind = "memory"
      BY <3>2 DEF StartMemory, AcksSound, MemorySound
    <3>4. DOMAIN r.keys = 1..Len(r.keys) /\ Len(r.keys) \in Nat
      BY <3>3, StoresAssumption
    <3>5. Stored(c)'
      BY <1>1, <3>1, <3>3, <3>4 DEF Stored
    <3> QED BY <2>2, <3>5 DEF CallSound, Writing
  <2> QED BY <1>2, <2>1, <2>2
<1> QED BY <1>1, <1>3, OthersStaySound, GrownToItself DEF DiskSound, AcksSound

LEMMA StepKeepsAcks ==
  ASSUME AcksSound, [Next]_vars
  PROVE  AcksSound'
<1>1. FilesSound' /\ MemorySound'
  BY StepKeepsSound, StepKeepsMemory DEF AcksSound
<1>2. DOMAIN open' = Calls /\ next' \in [Calls -> Nat \ {0}] /\ overlap' = overlap
  <2>1. next' = next \/ \E c \in Calls : next' = [next EXCEPT ![c] = @ + 1]
    BY DEF Next, vars, Load, Refuse, StartMemory, OpenTemp, WriteTemp, Rename, RenameFails,
           FindExisting, FindNone, AppendRecord, ReturnRecords, Crash
  <2>2. DOMAIN open' = Calls /\ overlap' = overlap
    BY DEF AcksSound, Next, vars, Load, Refuse, StartMemory, OpenTemp, WriteTemp, Rename,
           RenameFails, FindExisting, FindNone, AppendRecord, ReturnRecords, Crash
  <2> QED BY <2>1, <2>2 DEF AcksSound
<1>3. ASSUME ~overlap
      PROVE  DiskSound' /\ \A d \in Calls : CallSound(d)'
  <2>1. CASE UNCHANGED vars
    <3>1. DiskSound'
      BY <1>3, <2>1 DEF vars, AcksSound, DiskSound
    <3>2. \A c \in Calls : CallSound(c)
      BY <1>3 DEF AcksSound
    <3> QED BY <2>1, <3>1, <3>2 DEF vars, CallSound, Target, Stored, Kept
  <2>2. ASSUME NEW c \in Calls, NEW r \in Requests, Load(c, r)
        PROVE  DiskSound' /\ \A d \in Calls : CallSound(d)'
    BY <1>3, <2>2, LoadKeepsAcks
  <2>3. ASSUME NEW c \in Calls, OpenTemp(c) \/ WriteTemp(c)
        PROVE  DiskSound' /\ \A d \in Calls : CallSound(d)'
    BY <1>3, <2>3, WriteKeepsAcks
  <2>4. ASSUME NEW c \in Calls, Rename(c)
        PROVE  DiskSound' /\ \A d \in Calls : CallSound(d)'
    BY <1>3, <2>4, RenameKeepsAcks
  <2>5. ASSUME NEW c \in Calls,
               FindExisting(c) \/ FindNone(c) \/ AppendRecord(c) \/ ReturnRecords(c)
        PROVE  DiskSound' /\ \A d \in Calls : CallSound(d)'
    BY <1>3, <2>5, MemoryKeepsAcks
  <2>6. ASSUME NEW c \in Calls,
               \/ \E r \in Requests : Refuse(c, r) \/ StartMemory(c, r)
               \/ RenameFails(c) \/ Crash(c)
        PROVE  DiskSound' /\ \A d \in Calls : CallSound(d)'
    BY <1>3, <2>6, EndKeepsAcks
  <2> QED BY <2>1, <2>2, <2>3, <2>4, <2>5, <2>6 DEF Next
<1> QED BY <1>1, <1>2, <1>3 DEF AcksSound

\* As long as calls do not overlap, whatever a call has acknowledged is in the files for
\* good, wherever the calls after it are cut off, and every file can be read: the text
\* that is renamed into place is the snapshot on the disk with one request more.
THEOREM WhatIsAcknowledgedIsKept ==
  Spec => []AcknowledgedIsKept
<1>1. AcksSound => AcknowledgedIsKept
  BY StoresAssumption
     DEF AcksSound, DiskSound, CallSound, AcknowledgedIsKept, Readable
<1>2. AcksSound /\ [Next]_vars => AcksSound'
  BY StepKeepsAcks
<1> QED BY <1>1, <1>2, AcksSoundAtFirst, PTL DEF Spec

LEMMA RenameAcknowledges ==
  ASSUME AcksSound, ~overlap, NEW c \in Calls, Rename(c)
  PROVE  /\ disk' = [disk EXCEPT ![FileOf(request[c])] = Result(@, request[c], c)]
         /\ Acknowledges(c) /\ \A d \in Calls \ {c} : ~Acknowledges(d)
<1>1. /\ pc[c] = "written" /\ pc' = [pc EXCEPT ![c] = "returned"] /\ DOMAIN pc = Calls
      /\ disk' = [disk EXCEPT ![Target(c)] = temp[Target(c)]]
  BY DEF Rename, Goto, Target, AcksSound, FilesSound
<1>2. /\ CallSound(c) /\ Registers(request[c]) /\ request[c] \in Requests
  BY <1>1 DEF AcksSound, FilesSound, Writing
<1>3. temp[Target(c)] = Result(disk[Target(c)], request[c], c)
  BY <1>1, <1>2 DEF CallSound, Writing
<1>4. Acknowledges(c) /\ \A d \in Calls \ {c} : ~Acknowledges(d)
  BY <1>1, <1>2 DEF Acknowledges, Registers
<1> QED BY <1>1, <1>3, <1>4 DEF Target

LEMMA OthersAcknowledgeNothing ==
  ASSUME AcksSound, ~overlap, NEW c \in Calls,
         \/ \E r \in Requests : Load(c, r) \/ Refuse(c, r) \/ StartMemory(c, r)
         \/ OpenTemp(c) \/ WriteTemp(c) \/ RenameFails(c) \/ FindExisting(c)
         \/ FindNone(c) \/ AppendRecord(c) \/ ReturnRecords(c) \/ Crash(c)
  PROVE  disk' = disk /\ \A d \in Calls : ~Acknowledges(d)
<1>1. disk' = disk
  <2>1. CASE WriteTemp(c)
    <3>1. pc[c] = "opened" /\ open[c] = "temp"
      BY <2>1 DEF WriteTemp, AcksSound, CallSound
    <3> QED BY <2>1, <3>1 DEF WriteTemp
  <2>2. CASE ~WriteTemp(c)
    BY <2>2 DEF Load, Refuse, StartMemory, OpenTemp, RenameFails, FindExisting, FindNone,
                AppendRecord, ReturnRecords, Crash
  <2> QED BY <2>1, <2>2
<1>2. CASE ReturnRecords(c)
  <2>1. request[c].kind = "memory"
    BY <1>2 DEF ReturnRecords, AcksSound, MemorySound, MemoryRequests
  <2>2. DOMAIN pc = Calls /\ pc' = [pc EXCEPT ![c] = "returned"]
    BY <1>2 DEF ReturnRecords, Goto, AcksSound, FilesSound
  <2> QED BY <1>1, <2>1, <2>2 DEF Acknowledges
<1>3. CASE ~ReturnRecords(c)
  <2>1. pc' = pc \/ \E place : place # "returned" /\ pc' = [pc EXCEPT ![c] = place]
    BY <1>3 DEF Load, Refuse, StartMemory, OpenTemp, WriteTemp, RenameFails, FindExisting,
                FindNone, AppendRecord, Crash, Goto
  <2>2. DOMAIN pc = Calls
    BY DEF AcksSound, FilesSound
  <2> QED BY <1>1, <2>1, <2>2 DEF Acknowledges
<1> QED BY <1>2, <1>3

\* As long as calls do not overlap, a registry changes by the request that is being
\* acknowledged and by nothing else: what a call that was cut off has left in the
\* temp file is truncated before it could get there.
THEOREM WhatChangesIsAcknowledged ==
  Spec => ChangesAreAcknowledged
<1> DEFINE Acknowledged ==
      ~overlap =>
        /\ \A c \in Calls :
             Acknowledges(c) =>
               disk' = [disk EXCEPT ![FileOf(request[c])] = Result(@, request[c], c)]
        /\ disk' # disk => \E c \in Calls : Acknowledges(c)
<1>1. AcksSound /\ [Next]_vars => AcksSound'
  BY StepKeepsAcks
<1>2. AcksSound /\ [Next]_vars => [Acknowledged]_vars
  <2> SUFFICES ASSUME AcksSound, Next, ~overlap
               PROVE  Acknowledged
    OBVIOUS
  <2>1. PICK c \in Calls :
          \/ \E r \in Requests : Load(c, r) \/ Refuse(c, r) \/ StartMemory(c, r)
          \/ OpenTemp(c) \/ WriteTemp(c) \/ Rename(c) \/ RenameFails(c) \/ FindExisting(c)
          \/ FindNone(c) \/ AppendRecord(c) \/ ReturnRecords(c) \/ Crash(c)
    BY DEF Next
  <2>2. CASE Rename(c)
    <3>1. /\ disk' = [disk EXCEPT ![FileOf(request[c])] = Result(@, request[c], c)]
          /\ Acknowledges(c) /\ \A d \in Calls \ {c} : ~Acknowledges(d)
      BY <2>2, RenameAcknowledges
    <3> QED BY <3>1
  <2>3. CASE ~Rename(c)
    <3>1. disk' = disk /\ \A d \in Calls : ~Acknowledges(d)
      BY <2>1, <2>3, OthersAcknowledgeNothing
    <3> QED BY <3>1
  <2> QED BY <2>2, <2>3
<1> QED BY <1>1, <1>2, AcksSoundAtFirst, PTL DEF Spec, ChangesAreAcknowledged
===============================================================================
