--------------------------- MODULE StateStoreProofs ---------------------------
(***************************************************************************)
(* For any calls and any number of events: if calls do not overlap, the    *)
(* state file is whole, what a call that returned has done is in it, a     *)
(* call that declined to change anything has left nothing behind, and      *)
(* the two files are the register and the log of WorkflowRecord.  The      *)
(* reason is that the one call under way has loaded what is saved, that    *)
(* the temporary file is never the state file, and that a crash leaves     *)
(* nothing there that the next call does not truncate before it writes.    *)
(***************************************************************************)
EXTENDS StateStore, FiniteSetTheorems, TLAPS

Contents == {Empty, Torn} \cup {Whole(done) : done \in SUBSET Ops}

\* What one call alone finds and leaves.
LoneSound ==
  /\ \A a, b \in Active : a = b
  /\ Readable /\ (temp # 0 => temp # state)
  /\ \A op \in Ops :
       /\ pc[op] \in {"loaded", "opened", "written"} => snapshot[op] = Saved
       /\ pc[op] = "opened" => fd[op] = temp /\ temp # 0 /\ content[temp] = Empty
       /\ pc[op] = "written" => temp # 0 /\ content[temp] = Whole(snapshot[op] \cup {op})
       /\ op \in Saved \cup declined => pc[op] \in {"appending", "returned", "crashed"}
       /\ op \in Saved => op \notin declined
       /\ pc[op] = "appending" => op \in Saved \cup declined
       /\ pc[op] = "returned" => op \in Saved \cup declined /\ Reported(op) = Events[op]

StoreSound == TypeOK /\ (~overlap => LoneSound)

LEMMA InodesStart ==
  0 \in Inodes
BY StoreAssumption, FS_CardinalityType DEF Inodes

LEMMA ContentKinds ==
  /\ Empty.kind = "empty" /\ Torn.kind = "torn" /\ Empty # Torn
  /\ Empty \in Contents /\ Torn \in Contents
  /\ \A d : Whole(d).kind = "whole" /\ Whole(d).done = d
  /\ \A d \in SUBSET Ops : Whole(d) \in Contents
  /\ \A c \in Contents : c.kind = "whole" => c.done \in SUBSET Ops
<1>1. /\ Empty.kind = "empty" /\ Torn.kind = "torn"
      /\ \A d : Whole(d).kind = "whole" /\ Whole(d).done = d
  BY DEF Empty, Torn, Whole
<1>2. Empty # Torn
  BY <1>1
<1>3. /\ Empty \in Contents /\ Torn \in Contents
      /\ \A d \in SUBSET Ops : Whole(d) \in Contents
  BY DEF Contents
<1>4. \A c \in Contents : c.kind = "whole" => c.done \in SUBSET Ops
  BY <1>1 DEF Contents
<1> QED BY <1>1, <1>2, <1>3, <1>4

LEMMA Types ==
  TypeOK <=>
    /\ overlap \in BOOLEAN /\ pc \in [Ops -> Places] /\ snapshot \in [Ops -> SUBSET Ops]
    /\ fd \in [Ops -> Inodes] /\ content \in [Inodes -> Contents]
    /\ state \in Inodes /\ temp \in Inodes /\ declined \subseteq Ops /\ audit \in Seq(Ops)
BY DEF TypeOK, Contents

LEMMA StoreSoundAtFirst ==
  Init => StoreSound
<1> SUFFICES ASSUME Init PROVE StoreSound
  OBVIOUS
<1>1. TypeOK
  BY InodesStart, ContentKinds, Types DEF Init, Places
<1>2. content[state] = Whole({})
  BY InodesStart DEF Init
<1>3. LoneSound
  BY <1>2, ContentKinds DEF Init, LoneSound, Active, Ended, Readable, Saved
<1> QED BY <1>1, <1>3 DEF StoreSound

-----------------------------------------------------------------------------
(* Types                                                                   *)

LEMMA StepTypes ==
  ASSUME TypeOK, [Next]_vars
  PROVE  TypeOK'
<1> USE Types DEF Goto
<1> HIDE DEF TypeOK
<1>1. /\ Inodes' = Inodes /\ Places' = Places /\ Contents' = Contents
      /\ {"loaded", "opened", "written", "appending", "returned", "threw", "crashed"} \subseteq Places
  BY DEF Inodes, Places, Contents
<1>2. TypeOK' <=>
        /\ overlap' \in BOOLEAN /\ pc' \in [Ops -> Places] /\ snapshot' \in [Ops -> SUBSET Ops]
        /\ fd' \in [Ops -> Inodes] /\ content' \in [Inodes -> Contents]
        /\ state' \in Inodes /\ temp' \in Inodes /\ declined' \subseteq Ops /\ audit' \in Seq(Ops)
  BY DEF TypeOK, Contents
<1>3. ASSUME NEW op \in Ops, Load(op) \/ LoadFails(op) \/ Decline(op)
      PROVE  TypeOK'
  <2>1. content[state].kind = "whole" => content[state].done \in SUBSET Ops
    BY ContentKinds
  <2> QED BY <1>1, <1>2, <1>3, <2>1 DEF Load, LoadFails, Decline
<1>4. ASSUME NEW op \in Ops, OpenTemp(op)
      PROVE  TypeOK'
  <2>1. PICK i \in Inodes : /\ fd' = [fd EXCEPT ![op] = i]
                            /\ content' = [content EXCEPT ![i] = Empty] /\ temp' = i
    BY <1>4 DEF OpenTemp
  <2>2. Empty \in Contents
    BY ContentKinds
  <2>3. pc' = [pc EXCEPT ![op] = "opened"] /\ UNCHANGED <<overlap, snapshot, state, declined, audit>>
    BY <1>4 DEF OpenTemp
  <2> QED BY <1>1, <1>2, <2>1, <2>2, <2>3
<1>5. ASSUME NEW op \in Ops, WriteTemp(op)
      PROVE  TypeOK'
  <2>1. PICK left \in {Whole(snapshot[op] \cup {op}), Torn} :
          content' = [content EXCEPT ![fd[op]] = left]
    BY <1>5 DEF WriteTemp
  <2>2. left \in Contents
    <3>1. snapshot[op] \cup {op} \in SUBSET Ops
      OBVIOUS
    <3> QED BY <3>1, ContentKinds
  <2>3. pc' = [pc EXCEPT ![op] = "written"] /\ UNCHANGED <<overlap, snapshot, fd, state, temp, declined, audit>>
    BY <1>5 DEF WriteTemp
  <2> QED BY <1>1, <1>2, <2>1, <2>2, <2>3
<1>6. ASSUME NEW op \in Ops, RenameTemp(op) \/ RenameFails(op) \/ Return(op) \/ Crash(op)
      PROVE  TypeOK'
  BY <1>1, <1>2, <1>6, InodesStart DEF RenameTemp, RenameFails, Return, Crash
<1>7. ASSUME NEW op \in Ops, AppendAudit(op)
      PROVE  TypeOK'
  BY <1>1, <1>2, <1>7 DEF AppendAudit
<1>8. CASE UNCHANGED vars
  BY <1>1, <1>2, <1>8 DEF vars
<1> QED BY <1>3, <1>4, <1>5, <1>6, <1>7, <1>8 DEF Next

-----------------------------------------------------------------------------
(* One call at a time                                                      *)

LEMMA LonerMoves ==
  ASSUME TypeOK, LoneSound, NEW op \in Ops, NEW place,
         pc' = [pc EXCEPT ![op] = place], place # "start",
         op \in Active \/ Active = {}
  PROVE  /\ \A a, b \in Active' : a = b
         /\ pc'[op] = place
         /\ \A u \in Ops \ {op} : pc'[u] = pc[u] /\ pc[u] \in Ended \cup {"start"}
<1>1. pc \in [Ops -> Places]
  BY Types
<1>2. pc'[op] = place /\ \A u \in Ops \ {op} : pc'[u] = pc[u]
  BY <1>1
<1>3. \A u \in Ops \ {op} : u \notin Active
  BY DEF LoneSound
<1>4. \A u \in Ops \ {op} : pc[u] \in Ended \cup {"start"} /\ u \notin Active'
  BY <1>2, <1>3 DEF Active
<1> QED BY <1>2, <1>4 DEF Active

LEMMA LoadLone ==
  ASSUME TypeOK, LoneSound, ~overlap, NEW op \in Ops, Load(op)
  PROVE  LoneSound'
<1>1. /\ pc[op] = "start" /\ Active = {} /\ pc' = [pc EXCEPT ![op] = "loaded"]
      /\ snapshot' = [snapshot EXCEPT ![op] = content[state].done]
      /\ UNCHANGED <<overlap, fd, content, state, temp, declined, audit>>
  BY DEF Load, Goto
<1>2. /\ \A a, b \in Active' : a = b /\ pc'[op] = "loaded"
      /\ \A u \in Ops \ {op} : pc'[u] = pc[u] /\ pc[u] \in Ended \cup {"start"}
  BY <1>1, LonerMoves
<1>3. Readable' = Readable /\ Saved' = Saved /\ \A u : Reported(u)' = Reported(u)
  BY <1>1 DEF Readable, Saved, Reported
<1>4. op \notin Saved \cup declined
  BY <1>1 DEF LoneSound
<1>5. snapshot'[op] = Saved
  BY <1>1, Types DEF Saved
<1> QED BY <1>1, <1>2, <1>3, <1>4, <1>5, LonerMoves DEF LoneSound, Ended

LEMMA DeclineLone ==
  ASSUME TypeOK, LoneSound, NEW op \in Ops, Decline(op)
  PROVE  LoneSound' /\ op \notin Saved \cup declined
<1>1. /\ pc[op] = "loaded" /\ pc' = [pc EXCEPT ![op] = "appending"]
      /\ declined' = declined \cup {op}
      /\ UNCHANGED <<overlap, snapshot, fd, content, state, temp, audit>>
  BY DEF Decline, Goto
<1>2. /\ \A a, b \in Active' : a = b
      /\ pc'[op] = "appending"
      /\ \A u \in Ops \ {op} : pc'[u] = pc[u] /\ pc[u] \in Ended \cup {"start"}
  BY <1>1, LonerMoves DEF Active, Ended
<1>3. Readable' = Readable /\ Saved' = Saved /\ \A u : Reported(u)' = Reported(u)
  BY <1>1 DEF Readable, Saved, Reported
<1>4. op \notin Saved \cup declined
  BY <1>1 DEF LoneSound
<1> QED BY <1>1, <1>2, <1>3, <1>4 DEF LoneSound, Ended

LEMMA OpenLone ==
  ASSUME TypeOK, LoneSound, NEW op \in Ops, OpenTemp(op)
  PROVE  LoneSound'
<1>1. /\ pc[op] = "loaded" /\ pc' = [pc EXCEPT ![op] = "opened"]
      /\ UNCHANGED <<overlap, snapshot, state, declined, audit>>
  BY DEF OpenTemp, Goto
<1>2. PICK i \in Inodes :
        /\ IF temp # 0 THEN i = temp ELSE i \in FreeInodes
        /\ fd' = [fd EXCEPT ![op] = i]
        /\ content' = [content EXCEPT ![i] = Empty] /\ temp' = i
  BY DEF OpenTemp
<1>3. i # 0 /\ i # state
  BY <1>2 DEF LoneSound, FreeInodes
<1>4. content'[state] = content[state] /\ content'[i] = Empty /\ fd'[op] = i
  BY <1>2, <1>3, Types
<1>5. /\ \A a, b \in Active' : a = b
      /\ pc'[op] = "opened"
      /\ \A u \in Ops \ {op} : pc'[u] = pc[u] /\ pc[u] \in Ended \cup {"start"}
  BY <1>1, LonerMoves DEF Active, Ended
<1>6. Readable' = Readable /\ Saved' = Saved /\ \A u : Reported(u)' = Reported(u)
  BY <1>1, <1>4 DEF Readable, Saved, Reported
<1> QED BY <1>1, <1>2, <1>3, <1>4, <1>5, <1>6 DEF LoneSound, Ended

LEMMA WriteLone ==
  ASSUME TypeOK, LoneSound, NEW op \in Ops, WriteTemp(op)
  PROVE  LoneSound'
<1>1. /\ pc[op] = "opened" /\ pc' = [pc EXCEPT ![op] = "written"]
      /\ UNCHANGED <<overlap, snapshot, fd, state, temp, declined, audit>>
  BY DEF WriteTemp, Goto
<1>2. fd[op] = temp /\ temp # 0 /\ temp # state /\ content[temp].kind = "empty"
  BY <1>1, ContentKinds DEF LoneSound
<1>3. content' = [content EXCEPT ![temp] = Whole(snapshot[op] \cup {op})]
  BY <1>2 DEF WriteTemp
<1>4. content'[state] = content[state] /\ content'[temp] = Whole(snapshot[op] \cup {op})
  BY <1>2, <1>3, Types
<1>5. /\ \A a, b \in Active' : a = b
      /\ pc'[op] = "written"
      /\ \A u \in Ops \ {op} : pc'[u] = pc[u] /\ pc[u] \in Ended \cup {"start"}
  BY <1>1, LonerMoves DEF Active, Ended
<1>6. Readable' = Readable /\ Saved' = Saved /\ \A u : Reported(u)' = Reported(u)
  BY <1>1, <1>4 DEF Readable, Saved, Reported
<1> QED BY <1>1, <1>2, <1>4, <1>5, <1>6 DEF LoneSound, Ended

LEMMA RenameLone ==
  ASSUME TypeOK, LoneSound, NEW op \in Ops, RenameTemp(op)
  PROVE  LoneSound' /\ op \notin Saved \cup declined /\ Saved' = Saved \cup {op}
<1>1. /\ pc[op] = "written" /\ pc' = [pc EXCEPT ![op] = "appending"]
      /\ state' = temp /\ temp' = 0
      /\ UNCHANGED <<overlap, snapshot, fd, content, declined, audit>>
  BY DEF RenameTemp, Goto
<1>2. /\ snapshot[op] = Saved /\ op \notin Saved \cup declined
      /\ content[temp] = Whole(Saved \cup {op})
  BY <1>1 DEF LoneSound
<1>3. Readable' /\ Saved' = Saved \cup {op}
  BY <1>1, <1>2, ContentKinds DEF Readable, Saved
<1>4. /\ \A a, b \in Active' : a = b
      /\ pc'[op] = "appending"
      /\ \A u \in Ops \ {op} : pc'[u] = pc[u] /\ pc[u] \in Ended \cup {"start"}
  BY <1>1, LonerMoves DEF Active, Ended
<1>5. \A u : Reported(u)' = Reported(u)
  BY <1>1 DEF Reported
<1> QED BY <1>1, <1>2, <1>3, <1>4, <1>5 DEF LoneSound, Ended

LEMMA AppendLone ==
  ASSUME TypeOK, LoneSound, NEW op \in Ops, AppendAudit(op)
  PROVE  LoneSound'
<1>1. /\ pc[op] = "appending" /\ audit' = Append(audit, op)
      /\ UNCHANGED <<overlap, pc, snapshot, fd, content, state, temp, declined>>
  BY DEF AppendAudit
<1>2. ASSUME NEW u \in Ops, u # op
      PROVE  Reported(u)' = Reported(u)
  <2>1. /\ audit \in Seq(Ops) /\ Len(audit) \in Nat /\ DOMAIN audit = 1..Len(audit)
        /\ DOMAIN audit' = 1..(Len(audit) + 1) /\ audit'[Len(audit) + 1] = op
        /\ \A k \in DOMAIN audit : audit'[k] = audit[k]
    BY <1>1, Types
  <2>2. DOMAIN audit' = DOMAIN audit \cup {Len(audit) + 1}
    BY <2>1
  <2>3. {k \in DOMAIN audit' : audit'[k] = u} = {k \in DOMAIN audit : audit[k] = u}
    BY <1>2, <2>1, <2>2
  <2> QED BY <2>3 DEF Reported
<1>3. Readable' = Readable /\ Saved' = Saved /\ Active' = Active
  BY <1>1 DEF Readable, Saved, Active
<1> QED BY <1>1, <1>2, <1>3 DEF LoneSound

LEMMA EndLone ==
  ASSUME TypeOK, LoneSound, ~overlap, NEW op \in Ops,
         LoadFails(op) \/ RenameFails(op) \/ Return(op) \/ Crash(op)
  PROVE  LoneSound'
<1>1. ~LoadFails(op) /\ ~RenameFails(op)
  BY DEF LoadFails, RenameFails, LoneSound, Readable
<1>2. PICK place \in {"returned", "crashed"} : pc' = [pc EXCEPT ![op] = place]
  BY <1>1 DEF Return, Crash, Goto
<1>3. op \in Active /\ UNCHANGED <<overlap, snapshot, fd, content, state, temp, declined, audit>>
  BY <1>1 DEF Return, Crash, Active, Ended
<1>4. /\ \A a, b \in Active' : a = b
      /\ pc'[op] = place
      /\ \A u \in Ops \ {op} : pc'[u] = pc[u] /\ pc[u] \in Ended \cup {"start"}
  BY <1>2, <1>3, LonerMoves
<1>5. Readable' = Readable /\ Saved' = Saved /\ \A u : Reported(u)' = Reported(u)
  BY <1>3 DEF Readable, Saved, Reported
<1>6. place = "returned" => op \in Saved \cup declined /\ Reported(op) = Events[op]
  <2>1. Return(op) => pc[op] = "appending" /\ Reported(op) = Events[op]
    BY DEF Return
  <2>2. place = "returned" => Return(op)
    BY <1>1, <1>2, Types DEF Crash, Goto
  <2> QED BY <2>1, <2>2 DEF LoneSound
<1> QED BY <1>2, <1>3, <1>4, <1>5, <1>6 DEF LoneSound, Ended

LEMMA StepSound ==
  ASSUME StoreSound, [Next]_vars
  PROVE  StoreSound'
<1>1. TypeOK /\ TypeOK'
  BY StepTypes DEF StoreSound
<1>2. overlap' = overlap
  BY DEF Next, vars, Load, LoadFails, Decline, OpenTemp, WriteTemp, RenameTemp, RenameFails,
         AppendAudit, Return, Crash
<1>3. ASSUME ~overlap
      PROVE  LoneSound'
  <2>1. LoneSound
    BY <1>3 DEF StoreSound
  <2>2. CASE UNCHANGED vars
    BY <2>1, <2>2 DEF vars, LoneSound, Active, Readable, Saved, Reported
  <2> QED BY <1>1, <1>3, <2>1, <2>2, LoadLone, DeclineLone, OpenLone, WriteLone, RenameLone, AppendLone,
             EndLone DEF Next
<1> QED BY <1>1, <1>2, <1>3 DEF StoreSound

-----------------------------------------------------------------------------
(* What the files are worth                                                *)

\* Whatever calls overlap, the two names and the log hold what saveState and
\* appendAuditEvent put there: changes of calls, or a file cut off or torn.
THEOREM FileNamesAndContents ==
  Spec => []TypeOK
<1>1. StoreSound /\ [Next]_vars => StoreSound'
  BY StepSound
<1>2. StoreSound => TypeOK
  BY DEF StoreSound
<1> QED BY <1>1, <1>2, StoreSoundAtFirst, PTL DEF Spec

\* One call at a time never finds half a state, wherever the calls before it were
\* cut off.
THEOREM NeverHalfAState ==
  Spec => []ReadableWithoutOverlap
<1>1. StoreSound /\ [Next]_vars => StoreSound'
  BY StepSound
<1>2. StoreSound => ReadableWithoutOverlap
  BY DEF StoreSound, LoneSound, ReadableWithoutOverlap
<1> QED BY <1>1, <1>2, StoreSoundAtFirst, PTL DEF Spec

\* What a call that returned has done is in both files for good.
THEOREM ReturnedCallsLast ==
  Spec => []ReturnedIsDurable
<1>1. StoreSound /\ [Next]_vars => StoreSound'
  BY StepSound
<1>2. StoreSound => ReturnedIsDurable
  <2>1. ASSUME StoreSound, ~overlap
        PROVE  Saved \subseteq Ops
    BY <2>1, ContentKinds, Types DEF StoreSound, LoneSound, Readable, Saved
  <2> QED BY <2>1 DEF StoreSound, LoneSound, ReturnedIsDurable
<1> QED BY <1>1, <1>2, StoreSoundAtFirst, PTL DEF Spec

\* Events are missing from the log only while a call appends or after one was cut off
\* while it did.
THEOREM LogGapsAreExplained ==
  Spec => []AuditGapsAreCrashes
<1>1. StoreSound /\ [Next]_vars => StoreSound'
  BY StepSound
<1>2. StoreSound => AuditGapsAreCrashes
  <2> SUFFICES ASSUME StoreSound, ~overlap, NEW op \in Saved, Reported(op) < Events[op]
               PROVE  pc[op] \in {"appending", "crashed"}
    BY DEF AuditGapsAreCrashes
  <2>1. LoneSound /\ op \in Ops
    BY ContentKinds, Types DEF StoreSound, LoneSound, Readable, Saved
  <2>2. pc[op] \in {"appending", "returned", "crashed"}
    BY <2>1 DEF LoneSound
  <2>3. pc[op] # "returned"
    <3>1. Events[op] \in Nat
      BY <2>1, StoreAssumption
    <3>2. pc[op] = "returned" => Reported(op) = Events[op]
      BY <2>1 DEF LoneSound
    <3>3. Reported(op) # Events[op]
      BY <3>1
    <3> QED BY <3>2, <3>3
  <2> QED BY <2>2, <2>3
<1> QED BY <1>1, <1>2, StoreSoundAtFirst, PTL DEF Spec

\* The rename is where a call takes effect on the register, each append adds one
\* line to the log for a call already decided, a declined call only adds lines, and nothing else is seen from outside.
THEOREM FilesAreRegisterAndLog ==
  Spec => ImplementsWorkflowRecord
<1> DEFINE doc == IF overlap THEN {} ELSE Saved
<1> DEFINE refused == IF overlap THEN {} ELSE declined
<1> DEFINE log == IF overlap THEN <<>> ELSE audit
<1>1. Init => Record!Init
  <2> SUFFICES ASSUME Init PROVE doc = {} /\ refused = {} /\ log = <<>>
    BY DEF Record!Init
  <2>1. content[state] = Whole({})
    BY InodesStart DEF Init
  <2> QED BY <2>1, ContentKinds DEF Init, Saved
<1>2. ASSUME StoreSound, [Next]_vars
      PROVE  [Record!Commit \/ Record!Refuse \/ Record!Report]_<<doc, refused, log>>
  <2>1. overlap' = overlap
    BY <1>2 DEF Next, vars, Load, LoadFails, Decline, OpenTemp, WriteTemp, RenameTemp, RenameFails,
         AppendAudit, Return, Crash
  <2>2. CASE overlap
    BY <2>1, <2>2
  <2>3. CASE ~overlap
    <3>1. TypeOK /\ LoneSound
      BY <1>2, <2>3 DEF StoreSound
    <3>2. ASSUME NEW op \in Ops, RenameTemp(op)
          PROVE  Record!Commit
      <4>1. /\ op \notin Saved \cup declined /\ Saved' = Saved \cup {op}
            /\ audit' = audit /\ declined' = declined
        BY <3>1, <3>2, RenameLone DEF RenameTemp
      <4> QED BY <2>1, <2>3, <4>1 DEF Record!Commit, Record!Pending
    <3>3. ASSUME NEW op \in Ops, AppendAudit(op)
          PROVE  Record!Report
      <4>1. /\ op \in Saved \cup declined /\ Saved' = Saved /\ declined' = declined
            /\ audit' = Append(audit, op)
        BY <3>1, <3>3 DEF AppendAudit, LoneSound, Saved
      <4> QED BY <2>1, <2>3, <4>1 DEF Record!Report
    <3>4. ASSUME NEW op \in Ops, OpenTemp(op) \/ WriteTemp(op)
          PROVE  Saved' = Saved /\ declined' = declined /\ audit' = audit
      <4>1. CASE OpenTemp(op)
        <5>1. PICK i \in Inodes : /\ IF temp # 0 THEN i = temp ELSE i \in FreeInodes
                                  /\ content' = [content EXCEPT ![i] = Empty]
          BY <4>1 DEF OpenTemp
        <5>2. i # state /\ state' = state /\ declined' = declined /\ audit' = audit
          BY <3>1, <4>1, <5>1 DEF OpenTemp, LoneSound, FreeInodes
        <5> QED BY <3>1, <5>1, <5>2, Types DEF Saved
      <4>2. CASE WriteTemp(op)
        <5>1. fd[op] # state /\ state' = state /\ declined' = declined /\ audit' = audit
          BY <3>1, <4>2 DEF WriteTemp, LoneSound
        <5>2. PICK left : content' = [content EXCEPT ![fd[op]] = left]
          BY <4>2 DEF WriteTemp
        <5> QED BY <3>1, <5>1, <5>2, Types DEF Saved
      <4> QED BY <3>4, <4>1, <4>2
    <3>5. ASSUME NEW op \in Ops,
                 Load(op) \/ LoadFails(op) \/ RenameFails(op) \/ Return(op) \/ Crash(op)
          PROVE  Saved' = Saved /\ declined' = declined /\ audit' = audit
      BY <3>5 DEF Load, LoadFails, RenameFails, Return, Crash, Saved
    <3>6. CASE UNCHANGED vars
      BY <3>6 DEF vars, Saved
    <3>7. Saved' = Saved /\ declined' = declined /\ audit' = audit => UNCHANGED <<doc, refused, log>>
      BY <2>1
    <3>8. ASSUME NEW op \in Ops, Decline(op)
          PROVE  Record!Refuse
      <4>1. /\ op \notin Saved \cup declined /\ declined' = declined \cup {op}
            /\ audit' = audit /\ Saved' = Saved
        BY <3>1, <3>8, DeclineLone DEF Decline, Saved
      <4> QED BY <2>1, <2>3, <4>1 DEF Record!Refuse, Record!Pending
    <3> HIDE DEF doc, refused, log
    <3> QED BY <1>2, <3>2, <3>3, <3>4, <3>5, <3>6, <3>7, <3>8 DEF Next
  <2> QED BY <2>2, <2>3
<1>3. StoreSound /\ [Next]_vars => StoreSound'
  BY StepSound
<1> QED BY <1>1, <1>2, <1>3, StoreSoundAtFirst, PTL DEF Spec, Record!Spec, ImplementsWorkflowRecord
===============================================================================
