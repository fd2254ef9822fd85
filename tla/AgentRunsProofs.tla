-------------------------- MODULE AgentRunsProofs --------------------------
(***************************************************************************)
(* Proofs about a run, the registry around it and the tool calls in it.    *)
(* The registry, in every run AgentRuns allows: versions are numbered, and *)
(* no grant dangles.                                                       *)
(* The committed trace of a run has no gap and no duplicate, whoever       *)
(* starts, answers, cancels and leaves it at once.                         *)
(* At any time one session holds uncommitted events: the unique index lets *)
(* a second one in only with the number after the last committed event,    *)
(* which the first one has in flight.                                      *)
(* A held call takes effect at most once, a run that waits can be          *)
(* answered, and the trace ends where the run ends.  A session acts on the *)
(* run it read, not on the run that is there.  What it read still holds as *)
(* long as its checkpoint is the end of the trace: every commit moves that *)
(* end, except a cancellation, which takes only the pending call away.     *)
(* At the end, what becomes of one tool call, whatever it asks for: a call *)
(* that is refused reaches nothing, one that an operator approved runs as  *)
(* if it had never been held, and the credential stays behind; and what    *)
(* becomes of the events a run leaves for the collector of traces.         *)
(***************************************************************************)
EXTENDS AgentRuns, SequenceTheorems, FiniteSetTheorems, TLAPS

-----------------------------------------------------------------------------
(* The registry.                                                           *)

\* A number in use is the next one, and only one session has inserted it.
Numbering ==
    /\ \A s \in Sess : edit[s].pc \in {"numbered", "written"} =>
                          edit[s].no \in 1 .. Len(versions) + 1
    /\ \A s \in Sess : edit[s].pc = "written" => edit[s].no = Len(versions) + 1
    /\ \A s, r \in Sess : edit[s].pc = "written" /\ edit[r].pc = "written" => s = r

\* What is about to be published was checked, and its tools are locked.
Checked == \A s \in Sess : edit[s].pc = "written" => edit[s].tools \subseteq Here

RegInv == RegTypeOK /\ VersionsNumbered /\ Numbering /\ GrantsAreAlive /\ Checked

\* The registry of a new agent satisfies the invariant.
LEMMA RegInitInv == RegInit => RegInv
<1> SUFFICES ASSUME RegInit PROVE RegInv
  OBVIOUS
<1> USE RegistryAssumption
<1>1. PICK r \in BOOLEAN :
        tool = [t \in Tool |-> IF t # First THEN Unborn
                  ELSE [st |-> "here", on |-> TRUE, risky |-> r, found |-> FALSE]]
  BY DEF RegInit
<1>2. PICK ts \in SUBSET {First} : versions = <<[no |-> 1, tools |-> ts]>>
  BY DEF RegInit
<1>3. First \in Here
  BY <1>1 DEF Here
<1>4. Len(versions) = 1 /\ DOMAIN versions = {1} /\ versions[1] = [no |-> 1, tools |-> ts]
  BY <1>2
<1>5. RegTypeOK
  <2>1. tool \in [Tool -> ToolRow]
    BY <1>1 DEF ToolRow, Unborn
  <2>2. [no |-> 1, tools |-> ts] \in Version
    BY DEF Version
  <2>3. versions \in Seq(Version)
    BY <1>2, <2>2
  <2>4. edit \in [Sess -> Edit]
    BY DEF RegInit, NoEdit, Edit
  <2>5. current \in 1 .. Len(versions)
    BY <1>4 DEF RegInit
  <2>6. server \in BOOLEAN
    BY Zenon DEF RegInit
  <2> QED
    BY <2>1, <2>3, <2>4, <2>5, <2>6 DEF RegTypeOK
<1>6. VersionsNumbered
  BY <1>4 DEF VersionsNumbered, RegInit
<1>7. GrantsAreAlive
  BY <1>3, <1>4 DEF GrantsAreAlive
<1>8. Numbering /\ Checked
  BY DEF RegInit, NoEdit, Numbering, Checked
<1> QED
  BY <1>5, <1>6, <1>7, <1>8 DEF RegInv

\* Steps that only add tools or change the operator's columns.
LEMMA KeepsVersions ==
    ASSUME RegInv, tool' \in [Tool -> ToolRow], server' \in BOOLEAN,
           Here \subseteq Here', UNCHANGED <<versions, current, edit>>
    PROVE  RegInv'
BY DEF RegInv, RegTypeOK, VersionsNumbered, Numbering, GrantsAreAlive, Checked

\* A tool that comes, or changes hands, takes nothing away.
LEMMA ToolStepsInv == RegInv /\ (ToolSteps \/ RegisterServer \/ \E t \in Tool : Discover(t)) => RegInv'
<1> SUFFICES ASSUME RegInv, ToolSteps \/ RegisterServer \/ \E t \in Tool : Discover(t)
             PROVE  RegInv'
  OBVIOUS
<1> USE DEF RegInv, RegTypeOK
<1>1. CASE \E t \in Tool, r \in BOOLEAN : RegisterTool(t, r)
  <2>1. PICK t \in Tool, r \in BOOLEAN : RegisterTool(t, r)
    BY <1>1
  <2>2. tool' \in [Tool -> ToolRow]
    BY <2>1 DEF RegisterTool, ToolRow
  <2>3. Here \subseteq Here'
    BY <2>1 DEF RegisterTool, Here
  <2> QED
    BY <2>1, <2>2, <2>3, KeepsVersions DEF RegisterTool
<1>2. CASE \E t \in Tool, on, r \in BOOLEAN : UpdateTool(t, on, r)
  <2>1. PICK t \in Tool, on, r \in BOOLEAN : UpdateTool(t, on, r)
    BY <1>2
  <2>2. tool' \in [Tool -> ToolRow]
    BY <2>1 DEF UpdateTool, ToolRow
  <2>3. Here \subseteq Here'
    BY <2>1 DEF UpdateTool, Here
  <2> QED
    BY <2>1, <2>2, <2>3, KeepsVersions DEF UpdateTool
<1>3. CASE RegisterServer
  BY <1>3, KeepsVersions DEF RegisterServer, Here
<1>4. CASE \E t \in Tool : Discover(t)
  <2>1. PICK t \in Tool : Discover(t)
    BY <1>4
  <2>2. tool' \in [Tool -> ToolRow]
    BY <2>1 DEF Discover, ToolRow
  <2>3. Here \subseteq Here'
    BY <2>1 DEF Discover, Here
  <2> QED
    BY <2>1, <2>2, <2>3, KeepsVersions DEF Discover
<1> QED
  BY <1>1, <1>2, <1>3, <1>4 DEF ToolSteps

\* Tools that go take their grants with them, and none that is being granted goes.
LEMMA DropInv ==
    ASSUME RegInv, NEW ts \in SUBSET Tool, Drop(ts), server' \in BOOLEAN,
           UNCHANGED <<current, edit>>
    PROVE  RegInv'
<1> USE DEF RegInv, RegTypeOK
<1>1. Here' = Here \ ts
  BY DEF Drop, Here, Gone
<1>2. tool' \in [Tool -> ToolRow]
  BY DEF Drop, Gone, ToolRow
<1>3. versions' = [i \in 1 .. Len(versions) |->
                     [no |-> versions[i].no, tools |-> versions[i].tools \ ts]]
  BY DEF Drop, Revoked
<1>4. \A i \in 1 .. Len(versions) : versions[i] \in Version
  OBVIOUS
<1>5. /\ versions' \in Seq(Version)
      /\ Len(versions') = Len(versions)
      /\ DOMAIN versions' = DOMAIN versions
  BY <1>3, <1>4 DEF Version
<1>6. \A i \in DOMAIN versions : /\ versions'[i].no = versions[i].no
                                 /\ versions'[i].tools = versions[i].tools \ ts
  BY <1>3
<1>7. RegTypeOK'
  BY <1>2, <1>5
<1>8. VersionsNumbered'
  BY <1>5, <1>6 DEF VersionsNumbered
<1>9. Numbering'
  BY <1>5 DEF Numbering
<1>10. GrantsAreAlive'
  BY <1>1, <1>5, <1>6 DEF GrantsAreAlive
<1>11. Checked'
  BY <1>1 DEF Checked, Drop, HeldByEdit
<1> QED
  BY <1>7, <1>8, <1>9, <1>10, <1>11

\* Deleting a tool, or a server with what was found on it.
LEMMA DeletesInv == RegInv /\ (DeleteServer \/ \E t \in Tool : DeleteTool(t)) => RegInv'
<1> SUFFICES ASSUME RegInv, DeleteServer \/ \E t \in Tool : DeleteTool(t) PROVE RegInv'
  OBVIOUS
<1>1. CASE DeleteServer
  <2>1. {t \in Here : tool[t].found} \in SUBSET Tool
    BY DEF Here
  <2> QED
    BY <1>1, <2>1, DropInv DEF DeleteServer
<1>2. CASE \E t \in Tool : DeleteTool(t)
  <2>1. PICK t \in Tool : DeleteTool(t)
    BY <1>2
  <2>2. server' \in BOOLEAN
    BY <2>1 DEF DeleteTool, RegInv, RegTypeOK
  <2> QED
    BY <2>1, <2>2, DropInv DEF DeleteTool
<1> QED
  BY <1>1, <1>2

----------------------------------------------------------------------------
(* Publishing.                                                             *)

\* Numbers and the grants they carry, through every step of an edit.
LEMMA EditsInv == \A s \in Sess : RegInv /\ Edits(s) => RegInv'
<1> SUFFICES ASSUME NEW s \in Sess, RegInv, Edits(s) PROVE RegInv'
  OBVIOUS
<1> USE DEF RegInv, RegTypeOK
<1>0. Here' = Here /\ Len(versions) \in Nat /\ DOMAIN versions = 1 .. Len(versions)
  <2>1. tool' = tool
    BY DEF Edits, ReadCurrent, NextVersion, InsertVersion, Publish, AbandonEdit
  <2>2. Here' = Here
    BY <2>1 DEF Here
  <2>3. versions \in Seq(Version)
    OBVIOUS
  <2> QED
    BY <2>2, <2>3
<1>1. ASSUME NEW ts \in SUBSET Tool, NEW kept \in BOOLEAN, ReadCurrent(s, ts, kept)
      PROVE  RegInv'
  <2>1. versions[current] \in Version
    BY <1>0
  <2>2. edit' \in [Sess -> Edit]
    BY <1>1, <2>1 DEF ReadCurrent, EditGoes, Edit, Version
  <2> QED
    BY <1>0, <1>1, <2>2
       DEF ReadCurrent, EditGoes, VersionsNumbered, Numbering, GrantsAreAlive, Checked
<1>2. CASE NextVersion(s)
  <2>1. edit' \in [Sess -> Edit]
    BY <1>0, <1>2 DEF NextVersion, EditGoes, Edit
  <2> QED
    BY <1>0, <1>2, <2>1
       DEF NextVersion, EditGoes, VersionsNumbered, Numbering, GrantsAreAlive, Checked
<1>3. CASE InsertVersion(s)
  <2>1. edit' \in [Sess -> Edit]
    BY <1>3 DEF InsertVersion, EditGoes, Edit
  <2>2. edit[s].no = Len(versions) + 1
    BY <1>0, <1>3 DEF InsertVersion, NumberAdmits, Numbering, VersionsNumbered
  <2>3. \A r \in Sess : edit[r].pc # "written"
    BY <1>3, <2>2 DEF InsertVersion, NumberAdmits, Numbering
  <2>4. Numbering'
    BY <1>0, <1>3, <2>2, <2>3 DEF InsertVersion, EditGoes, Numbering
  <2>5. Checked'
    BY <1>0, <1>3, <2>3 DEF InsertVersion, EditGoes, Checked
  <2> QED
    BY <1>0, <1>3, <2>1, <2>4, <2>5
       DEF InsertVersion, VersionsNumbered, GrantsAreAlive
<1>4. CASE Publish(s)
  <2> DEFINE v == [no |-> edit[s].no, tools |-> edit[s].tools]
  <2>1. v \in Version
    BY DEF Version, Edit
  <2>2. /\ versions' = Append(versions, v)
        /\ edit[s].pc = "written"
        /\ v.no = Len(versions) + 1
        /\ v.tools \subseteq Here
    BY <1>4 DEF Publish, Numbering, Checked
  <2> HIDE DEF v
  <2>3. /\ versions' \in Seq(Version)
        /\ Len(versions') = Len(versions) + 1
        /\ DOMAIN versions' = 1 .. Len(versions) + 1
        /\ \A i \in 1 .. Len(versions) : versions'[i] = versions[i]
        /\ versions'[Len(versions) + 1] = v
    BY <1>0, <2>1, <2>2
  <2>4. edit' = [edit EXCEPT ![s] = NoEdit] /\ current' = Len(versions) + 1
    BY <1>4, <2>2 DEF Publish, EditGoes, v
  <2>5. RegTypeOK'
    <3>1. edit' \in [Sess -> Edit]
      BY <2>4 DEF NoEdit, Edit
    <3>2. tool' \in [Tool -> ToolRow] /\ server' \in BOOLEAN
      BY <1>4 DEF Publish
    <3> QED
      BY <1>0, <2>3, <2>4, <3>1, <3>2
  <2>6. VersionsNumbered'
    BY <1>0, <2>2, <2>3, <2>4 DEF VersionsNumbered
  <2>7. GrantsAreAlive'
    BY <1>0, <2>2, <2>3 DEF GrantsAreAlive
  <2>8. \A r \in Sess : edit'[r].pc # "written"
    BY <2>2, <2>4 DEF Numbering, NoEdit
  <2>9. Numbering'
    <3>1. \A r \in Sess : edit'[r].pc = "numbered" => edit[r] = edit'[r]
      BY <2>4 DEF NoEdit
    <3> QED
      BY <1>0, <2>3, <2>8, <3>1 DEF Numbering
  <2>10. Checked'
    BY <2>8 DEF Checked
  <2> QED
    BY <2>5, <2>6, <2>7, <2>9, <2>10
<1>5. CASE AbandonEdit(s)
  <2>1. edit' = [edit EXCEPT ![s] = NoEdit] /\ UNCHANGED <<tool, server, versions, current>>
    BY <1>5 DEF AbandonEdit, EditGoes
  <2>2. edit' \in [Sess -> Edit]
    BY <2>1 DEF NoEdit, Edit
  <2> QED
    BY <1>0, <2>1, <2>2
       DEF NoEdit, VersionsNumbered, Numbering, GrantsAreAlive, Checked
<1> QED
  BY <1>1, <1>2, <1>3, <1>4, <1>5 DEF Edits

\* Nothing a run does writes the registry.
LEMMA RunsLeaveRegistry ==
    \A s \in Sess : Progress(s) \/ Requests(s) => UNCHANGED regvars
<1> SUFFICES ASSUME NEW s \in Sess, Progress(s) \/ Requests(s) PROVE UNCHANGED regvars
  OBVIOUS
<1>1. CASE LoopSteps(s)
  BY <1>1 DEF LoopSteps, ModelFails, Answer, RunOut, CallUnknown, Settle, Ask, CallDenied,
              CallRuns, CallHeld, Stored
<1>2. CASE AnswerSteps(s)
  BY <1>2 DEF AnswerSteps, FindCall, Apply, Conflict, Decide, Stored
<1>3. CASE Cancel(s) \/ (\E l \in {"run", "call"} : Lock(s, l)) \/ Commit(s) \/ DetectDeadlock(s)
  BY <1>3 DEF Cancel, Lock, Commit, DetectDeadlock, Stored
<1>4. CASE Requests(s)
  BY <1>4 DEF Requests, Start, ReadRun, ReadToCancel, Disconnect, Abort, Stored
<1> QED
  BY <1>1, <1>2, <1>3, <1>4 DEF Progress

\* The registry's invariant is inductive in every run around it.
LEMMA RegStep == RegInv /\ [Next]_vars => RegInv'
<1> SUFFICES ASSUME RegInv, [Next]_vars PROVE RegInv'
  OBVIOUS
<1>1. CASE Registry
  <2>1. CASE ToolSteps
    BY <2>1, ToolStepsInv
  <2>2. CASE ServerSteps
    BY <2>2, ToolStepsInv, DeletesInv DEF ServerSteps
  <2>3. CASE \E t \in Tool : DeleteTool(t)
    BY <2>3, DeletesInv
  <2>4. CASE \E s \in Sess : Edits(s)
    BY <2>4, EditsInv
  <2> QED
    BY <1>1, <2>1, <2>2, <2>3, <2>4 DEF Registry
<1>2. CASE UNCHANGED regvars
  BY <1>2 DEF regvars, RegInv, RegTypeOK, VersionsNumbered, Numbering, GrantsAreAlive, Checked,
              Here
<1>3. CASE UNCHANGED vars
  BY <1>2, <1>3 DEF vars
<1> QED
  BY <1>1, <1>2, <1>3, RunsLeaveRegistry DEF Next

\* The types of the registry, for any number of administrators and tools.
THEOREM RegistryTypes == Spec => []RegTypeOK
<1>1. Init => RegInv
  BY RegInitInv DEF Init
<1> QED
  BY <1>1, RegStep, PTL DEF Spec, RegInv

\* create_version: however many administrators read the same highest number,
\* versions are 1, 2, 3 in the order they were published, the current one last.
THEOREM VersionsStayNumbered == Spec => []VersionsNumbered
<1>1. Init => RegInv
  BY RegInitInv DEF Init
<1> QED
  BY <1>1, RegStep, PTL DEF Spec, RegInv

\* _create_version, delete_tool: no version ever grants a tool that is gone.
THEOREM GrantsStayAlive == Spec => []GrantsAreAlive
<1>1. Init => RegInv
  BY RegInitInv DEF Init
<1> QED
  BY <1>1, RegStep, PTL DEF Spec, RegInv

-----------------------------------------------------------------------------
(* The trace.                                                              *)

\* A session in the loop, or about to commit.
Driving == {"loop", "calls", "answer", "closing", "decided", "commit"}

TraceTypes ==
    /\ run \in RunRow \cup {None}
    /\ trace \in Seq(Event)
    /\ held \in Seq(Call)
    /\ work \in [Sess -> Work]

\* The events a session holds continue the checkpoint it started from.
Numbered(w) == \A i \in DOMAIN w.add : w.add[i].seq = w.row.seq + i - 1

\* What holds of any session that holds events.
Writes(w) ==
    /\ w.row # None
    /\ w.row.seq = Len(trace) + 1
    /\ Numbered(w)

\* One session writes, and it writes from where the committed trace stops.
OneWriter ==
    /\ \A s \in Sess : work[s].add # <<>> => Writes(work[s])
    /\ \A s, r \in Sess : work[s].add # <<>> /\ work[r].add # <<>> => s = r
    /\ \A s \in Sess : work[s].pc \in Driving <=> work[s].add # <<>>

\* What holds of any session, whatever it is about.
Sound(w) ==
    /\ w.row # None => w.row.seq \in 1 .. Len(trace) + 1
    /\ w.pc \in {"read", "found"} => w.row # None
    /\ w.pc = "calls" => w.left > 0

\* Nobody holds a checkpoint past the end of the trace.
Checkpoints ==
    /\ run # None => run.seq \in 1 .. Len(trace) + 1
    /\ \A s \in Sess : Sound(work[s])

\* Before its first commit a run is its starter's, and nobody else has any work.
Starter ==
    /\ run = None => trace = <<>> /\ \A s \in Sess : work[s].pc # "idle" => work[s].starts
    /\ \A s \in Sess : work[s].starts =>
          /\ run = None
          /\ work[s].pc \in Driving
          /\ work[s].pc \in {"closing", "commit"} => work[s].verdict # None

TraceInv == TraceTypes /\ TraceGapless /\ OneWriter /\ Checkpoints /\ Starter

-----------------------------------------------------------------------------
(* What the operators of the model return.                                 *)

LEMMA NoWorkTyped == NoWork \in Work /\ NoWork.add = <<>> /\ NoWork.row = None /\ NoWork.pc = "idle"
                     /\ ~NoWork.starts
BY DEF NoWork, Work

\* One field at a time.
LEMMA FieldsTyped ==
    \A w \in Work :
       /\ \A x \in {"idle", "loop", "calls", "answer", "closing", "commit",
                    "read", "found", "decided", "reads", "cancel"} : [w EXCEPT !.pc = x] \in Work
       /\ \A x \in RunRow \cup {None} : [w EXCEPT !.row = x] \in Work
       /\ \A x \in Seq(Event) : [w EXCEPT !.add = x] \in Work
       /\ \A x \in Seq(Call) : [w EXCEPT !.new = x] \in Work
       /\ \A x \in Nat : [w EXCEPT !.left = x] \in Work
       /\ \A x \in RunState \cup {None} : [w EXCEPT !.verdict = x] \in Work
       /\ \A x \in Nat : [w EXCEPT !.e = x] \in Work
       /\ \A x \in {"none", "APPROVED", "REJECTED", "EXPIRED"} : [w EXCEPT !.does = x] \in Work
       /\ \A x \in BOOLEAN : [w EXCEPT !.ran = x] \in Work
       /\ \A x \in SUBSET {"run", "call"} : [w EXCEPT !.locks = x] \in Work
       /\ \A x \in BOOLEAN : [w EXCEPT !.starts = x] \in Work
<1> SUFFICES ASSUME NEW w \in Work
             PROVE  /\ \A x \in {"idle", "loop", "calls", "answer", "closing", "commit",
                         "read", "found", "decided", "reads", "cancel"} : [w EXCEPT !.pc = x] \in Work
                    /\ \A x \in RunRow \cup {None} : [w EXCEPT !.row = x] \in Work
                    /\ \A x \in Seq(Event) : [w EXCEPT !.add = x] \in Work
                    /\ \A x \in Seq(Call) : [w EXCEPT !.new = x] \in Work
                    /\ \A x \in Nat : [w EXCEPT !.left = x] \in Work
                    /\ \A x \in RunState \cup {None} : [w EXCEPT !.verdict = x] \in Work
                    /\ \A x \in Nat : [w EXCEPT !.e = x] \in Work
                    /\ \A x \in {"none", "APPROVED", "REJECTED", "EXPIRED"} : [w EXCEPT !.does = x] \in Work
                    /\ \A x \in BOOLEAN : [w EXCEPT !.ran = x] \in Work
                    /\ \A x \in SUBSET {"run", "call"} : [w EXCEPT !.locks = x] \in Work
                    /\ \A x \in BOOLEAN : [w EXCEPT !.starts = x] \in Work
  OBVIOUS
<1>1. \A x \in {"idle", "loop", "calls", "answer", "closing", "commit",
                         "read", "found", "decided", "reads", "cancel"} : [w EXCEPT !.pc = x] \in Work
  BY DEF Work
<1>2. \A x \in RunRow \cup {None} : [w EXCEPT !.row = x] \in Work
  BY DEF Work
<1>3. \A x \in Seq(Event) : [w EXCEPT !.add = x] \in Work
  BY DEF Work
<1>4. \A x \in Seq(Call) : [w EXCEPT !.new = x] \in Work
  BY DEF Work
<1>5. \A x \in Nat : [w EXCEPT !.left = x] \in Work
  BY DEF Work
<1>6. \A x \in RunState \cup {None} : [w EXCEPT !.verdict = x] \in Work
  BY DEF Work
<1>7. \A x \in Nat : [w EXCEPT !.e = x] \in Work
  BY DEF Work
<1>8. \A x \in {"none", "APPROVED", "REJECTED", "EXPIRED"} : [w EXCEPT !.does = x] \in Work
  BY DEF Work
<1>9. \A x \in BOOLEAN : [w EXCEPT !.ran = x] \in Work
  BY DEF Work
<1>10. \A x \in SUBSET {"run", "call"} : [w EXCEPT !.locks = x] \in Work
  BY DEF Work
<1>11. \A x \in BOOLEAN : [w EXCEPT !.starts = x] \in Work
  BY DEF Work
<1>12. QED
  BY <1>1, <1>2, <1>3, <1>4, <1>5, <1>6, <1>7, <1>8, <1>9, <1>10, <1>11

\* Events are numbered on from those the session holds.
LEMMA EmitNumbers ==
    ASSUME NEW w \in Work, w.row # None, Numbered(w), NEW ks \in Seq(Kind)
    PROVE  /\ Emit(w, ks) \in Seq(Event)
           /\ Len(Emit(w, ks)) = Len(w.add) + Len(ks)
           /\ \A i \in DOMAIN Emit(w, ks) : Emit(w, ks)[i].seq = w.row.seq + i - 1
<1> DEFINE new == [i \in 1 .. Len(ks) |-> [seq |-> NextSeq(w) + i - 1, kind |-> ks[i]]]
<1>1. w.row \in RunRow /\ w.row.seq \in Nat /\ w.add \in Seq(Event) /\ Len(w.add) \in Nat
  BY DEF Work, RunRow
<1>2. \A i \in 1 .. Len(ks) : new[i] \in Event
  BY <1>1 DEF Event, NextSeq
<1>3. new \in Seq(Event) /\ Len(new) = Len(ks)
  BY <1>2
<1>4. Emit(w, ks) = w.add \o new
  BY DEF Emit
<1> HIDE DEF new
<1>5. Emit(w, ks) \in Seq(Event) /\ Len(Emit(w, ks)) = Len(w.add) + Len(ks)
  <2>1. ASSUME NEW a \in Seq(Event), NEW b \in Seq(Event)
        PROVE  a \o b \in Seq(Event) /\ Len(a \o b) = Len(a) + Len(b)
    BY <2>1
  <2>2. QED
    BY <1>1, <1>3, <1>4, <2>1
<1>6. ASSUME NEW i \in DOMAIN Emit(w, ks)
      PROVE  Emit(w, ks)[i].seq = w.row.seq + i - 1
  <2>1. i \in 1 .. Len(w.add) + Len(ks)
    BY <1>5
  <2>2. CASE i <= Len(w.add)
    <3>1. Emit(w, ks)[i] = w.add[i] /\ i \in DOMAIN w.add
      BY ConcatProperties, <1>1, <1>3, <1>4, <2>1, <2>2
    <3>2. QED
      BY <3>1 DEF Numbered
  <2>3. CASE i > Len(w.add)
    <3>1. Emit(w, ks)[i] = new[i - Len(w.add)] /\ i - Len(w.add) \in 1 .. Len(ks)
      BY ConcatProperties, <1>1, <1>3, <1>4, <2>1, <2>3
    <3>2. new[i - Len(w.add)].seq = NextSeq(w) + (i - Len(w.add)) - 1
      BY <3>1 DEF new
    <3>3. QED
      BY <1>1, <2>1, <3>1, <3>2 DEF NextSeq
  <2>4. QED
    BY <1>1, <2>1, <2>2, <2>3
<1>7. QED
  BY <1>5, <1>6

-----------------------------------------------------------------------------
(* The ways a request moves on.                                            *)

\* The work of the others is as it was.
LEMMA OthersStay ==
    ASSUME TraceTypes, NEW s \in Sess, NEW v \in Work, Goes(s, v)
    PROVE  /\ work' \in [Sess -> Work]
           /\ work'[s] = v
           /\ \A r \in Sess \ {s} : work'[r] = work[r]
BY DEF TraceTypes, Goes

\* A session that holds events goes on from the same checkpoint.
LEMMA Advances ==
    ASSUME TraceInv, NEW s \in Sess, NEW v \in Work, Goes(s, v), Stored,
           work[s].add # <<>>, v.add # <<>>, Numbered(v),
           v.row # None, v.row.seq = work[s].row.seq,
           v.starts = work[s].starts, v.pc \in Driving,
           v.pc = "calls" => v.left > 0,
           v.starts /\ v.pc \in {"closing", "commit"} => v.verdict # None
    PROVE  TraceInv'
<1> USE DEF TraceInv, Stored
<1>1. TraceTypes' /\ TraceGapless'
  BY OthersStay DEF TraceTypes, TraceGapless
<1>2. Writes(v) /\ Sound(v)
  BY DEF Writes, Sound, OneWriter, Checkpoints, Driving
<1>3. OneWriter'
  BY OthersStay, <1>2 DEF OneWriter, Writes, Numbered
<1>4. Checkpoints'
  BY OthersStay, <1>2 DEF Checkpoints, Sound
<1>5. Starter'
  <2>1. work[s].pc \in Driving /\ work[s].pc # "idle"
    BY DEF OneWriter, Driving
  <2>2. run' = None => v.starts
    BY <2>1 DEF Starter
  <2>3. v.starts => run' = None
    BY DEF Starter
  <2>4. \A r \in Sess : r # s => work'[r] = work[r]
    BY OthersStay
  <2>5. work'[s] = v /\ run' = run /\ trace' = trace
    BY OthersStay
  <2>6. QED
    BY <2>2, <2>3, <2>4, <2>5 DEF Starter
<1>6. QED
  BY <1>1, <1>3, <1>4, <1>5

\* A session drops what it holds.
LEMMA Leaves ==
    ASSUME TraceInv, NEW s \in Sess, Goes(s, NoWork), Stored
    PROVE  TraceInv'
<1> USE DEF TraceInv, Stored
<1>1. TraceTypes' /\ TraceGapless'
  BY OthersStay, NoWorkTyped DEF TraceTypes, TraceGapless
<1>2. OneWriter'
  BY OthersStay, NoWorkTyped DEF OneWriter, Writes, Numbered, Driving
<1>3. Checkpoints'
  BY OthersStay, NoWorkTyped DEF Checkpoints, Sound
<1>4. Starter'
  BY OthersStay, NoWorkTyped DEF Starter
<1>5. QED
  BY <1>1, <1>2, <1>3, <1>4

\* A session reads, and holds no event yet.
LEMMA Reads ==
    ASSUME TraceInv, NEW s \in Sess, NEW v \in Work, Goes(s, v), Stored,
           run # None, v.add = <<>>, v.pc \notin Driving, ~v.starts, Sound(v)
    PROVE  TraceInv'
<1> USE DEF TraceInv, Stored
<1>1. TraceTypes' /\ TraceGapless'
  BY OthersStay DEF TraceTypes, TraceGapless
<1>2. OneWriter'
  BY OthersStay DEF OneWriter, Writes, Numbered
<1>3. Checkpoints'
  BY OthersStay DEF Checkpoints, Sound
<1>4. Starter'
  BY OthersStay DEF Starter
<1>5. QED
  BY <1>1, <1>2, <1>3, <1>4

\* A number the index admits is the next one, and nobody else has it in flight.
LEMMA AdmittedIsNext ==
    ASSUME TraceInv, NEW s \in Sess, NEW n \in 1 .. Len(trace) + 1, Admitted(s, n)
    PROVE  n = Len(trace) + 1 /\ \A r \in Sess \ {s} : work[r].add = <<>>
<1>1. n = Len(trace) + 1
  BY DEF Admitted, SeqTaken, TraceInv, TraceGapless, TraceTypes
<1>2. ASSUME NEW r \in Sess \ {s}, work[r].add # <<>>
      PROVE  FALSE
  <2>1. work[r].add \in Seq(Event) /\ Writes(work[r])
    BY <1>2 DEF TraceInv, TraceTypes, OneWriter, Work
  <2>2. 1 \in DOMAIN work[r].add
    BY <1>2, <2>1
  <2>3. work[r].add[1].seq = n
    BY <1>1, <2>1, <2>2 DEF Writes, Numbered, TraceInv, TraceTypes
  <2>4. QED
    BY <2>2, <2>3 DEF Admitted, SeqInFlight
<1>3. QED
  BY <1>1, <1>2

\* A session that answers writes its first events.
LEMMA Enters ==
    ASSUME TraceInv, NEW s \in Sess, NEW v \in Work, Goes(s, v), Stored,
           work[s].row # None, Admitted(s, work[s].row.seq),
           work[s].pc \in {"read", "found"},
           v.add # <<>>, Numbered(v), v.row = work[s].row,
           v.starts = work[s].starts, v.pc \in Driving, v.pc # "calls"
    PROVE  TraceInv'
<1> USE DEF TraceInv, Stored
<1>1. TraceTypes' /\ TraceGapless'
  BY OthersStay DEF TraceTypes, TraceGapless
<1>2. /\ work[s].row.seq = Len(trace) + 1
      /\ \A r \in Sess \ {s} : work[r].add = <<>>
  BY AdmittedIsNext DEF Checkpoints, Sound
<1>3. Writes(v) /\ Sound(v)
  BY <1>2 DEF Writes, Sound, Checkpoints, Driving
<1>4. OneWriter'
  BY OthersStay, <1>2, <1>3 DEF OneWriter, Writes, Numbered
<1>5. Checkpoints'
  BY OthersStay, <1>3 DEF Checkpoints, Sound
<1>6. ~v.starts
  BY DEF Starter, Driving
<1>7. Starter'
  BY OthersStay, <1>6 DEF Starter, Driving
<1>8. QED
  BY <1>1, <1>4, <1>5, <1>7

-----------------------------------------------------------------------------
(* The loop.                                                               *)

LEMMA Driver ==
    ASSUME TraceInv, NEW s \in Sess, work[s].pc \in Driving
    PROVE  /\ work[s] \in Work
           /\ work[s].row \in RunRow
           /\ work[s].row # None
           /\ work[s].add # <<>>
           /\ Numbered(work[s])
BY DEF TraceInv, TraceTypes, OneWriter, Writes, Work

\* Events added by Emit leave a session numbered, and not without events.
LEMMA EmitsOn ==
    ASSUME NEW w \in Work, w.row # None, Numbered(w),
           NEW ks \in Seq(Kind), ks # <<>>,
           NEW v \in Work, v.add = Emit(w, ks), v.row.seq = w.row.seq
    PROVE  v.add # <<>> /\ Numbered(v)
<1>1. Len(Emit(w, ks)) = Len(w.add) + Len(ks) /\ Len(ks) # 0 /\ Len(w.add) \in Nat
  <2>1. Len(Emit(w, ks)) = Len(w.add) + Len(ks)
    BY EmitNumbers
  <2>2. w.add \in Seq(Event)
    BY DEF Work
  <2>3. QED
    BY <2>1, <2>2
<1>2. QED
  BY <1>1, EmitNumbers DEF Numbered

LEMMA ClosesInv ==
    ASSUME TraceInv, NEW s \in Sess, work[s].pc \in Driving, Stored,
           NEW w \in Work, w.row # None, w.row.seq = work[s].row.seq,
           w.add = work[s].add, w.starts = work[s].starts,
           NEW ks \in Seq(Kind), ks # <<>>,
           NEW verdict \in RunState, verdict # None, Closes(s, w, ks, verdict)
    PROVE  TraceInv'
<1> DEFINE v == [w EXCEPT !.pc = "closing", !.add = Emit(w, ks), !.verdict = verdict,
                          !.locks = @ \cup {"run"}]
<1>1. Numbered(w)
  BY Driver DEF Numbered
<1>2. Emit(w, ks) \in Seq(Event) /\ w.locks \cup {"run"} \in SUBSET {"run", "call"}
  BY <1>1, EmitNumbers DEF Work
<1>3. v \in Work
  BY <1>2, FieldsTyped
<1>4. /\ v.pc = "closing" /\ v.add = Emit(w, ks) /\ v.verdict = verdict
      /\ v.row = w.row /\ v.starts = w.starts
  BY DEF Work
<1>5. Goes(s, v)
  BY DEF Closes
<1> HIDE DEF v
<1>6. v.add # <<>> /\ Numbered(v)
  BY <1>1, <1>3, <1>4, EmitsOn
<1>7. QED
  BY <1>3, <1>4, <1>5, <1>6, Driver, Advances DEF Driving

\* The kinds of events the actions add.
LEMMA KindsTyped ==
    /\ <<"end">> \in Seq(Kind) /\ <<"end">> # <<>>
    /\ <<"step">> \in Seq(Kind) /\ <<"step">> # <<>>
    /\ <<"ran">> \in Seq(Kind) /\ <<"ran">> # <<>>
    /\ <<"ask", "end">> \in Seq(Kind) /\ <<"ask", "end">> # <<>>
    /\ <<"ask", "step">> \in Seq(Kind) /\ <<"ask", "step">> # <<>>
    /\ <<"step", "step">> \in Seq(Kind) /\ <<"step", "step">> # <<>>
    /\ <<"step", "ran">> \in Seq(Kind) /\ <<"step", "ran">> # <<>>
BY DEF Kind

\* The row with another request to the model counted.
LEMMA IterCounted ==
    ASSUME NEW w \in Work, w.row \in RunRow
    PROVE  /\ [w EXCEPT !.row.iter = @ + 1] \in Work
           /\ [w EXCEPT !.row.iter = @ + 1].row \in RunRow
           /\ [w EXCEPT !.row.iter = @ + 1].row.seq = w.row.seq
           /\ [w EXCEPT !.row.iter = @ + 1].add = w.add
           /\ [w EXCEPT !.row.iter = @ + 1].starts = w.starts
<1> DEFINE r == [w.row EXCEPT !.iter = @ + 1]
<1>1. r \in RunRow /\ r.seq = w.row.seq
  BY DEF RunRow
<1>2. [w EXCEPT !.row.iter = @ + 1] = [w EXCEPT !.row = r]
  OBVIOUS
<1> HIDE DEF r
<1>3. [w EXCEPT !.row = r] \in Work
  BY <1>1, FieldsTyped
<1>4. /\ [w EXCEPT !.row = r].row = r
      /\ [w EXCEPT !.row = r].add = w.add
      /\ [w EXCEPT !.row = r].starts = w.starts
  BY DEF Work
<1>5. QED
  BY <1>1, <1>2, <1>3, <1>4

LEMMA ModelFailsInv ==
    ASSUME TraceInv, NEW s \in Sess, ModelFails(s)
    PROVE  TraceInv'
<1> DEFINE w == work[s]
           u == [w EXCEPT !.row.iter = @ + 1]
<1>1. w.pc \in Driving /\ Stored
  BY DEF ModelFails, Runs, Driving
<1>2. w \in Work /\ w.row \in RunRow /\ w.row # None
  BY <1>1, Driver
<1>3. u \in Work /\ u.row # None /\ u.row.seq = w.row.seq /\ u.add = w.add /\ u.starts = w.starts
  BY <1>2, IterCounted, NoneAssumption
<1>4. "FAILED" \in RunState
  BY DEF RunState
<1>5. "FAILED" # None
  BY <1>4, NoneAssumption
<1>6. Closes(s, w, <<"end">>, "FAILED") \/ Closes(s, u, <<"ask", "end">>, "FAILED")
  BY DEF ModelFails
<1> HIDE DEF u
<1>7. CASE Closes(s, w, <<"end">>, "FAILED")
  BY <1>1, <1>2, <1>4, <1>5, <1>7, ClosesInv, KindsTyped
<1>8. CASE Closes(s, u, <<"ask", "end">>, "FAILED")
  BY <1>1, <1>2, <1>3, <1>4, <1>5, <1>8, ClosesInv, KindsTyped
<1>9. QED
  BY <1>6, <1>7, <1>8

LEMMA AnswerInv ==
    ASSUME TraceInv, NEW s \in Sess, Answer(s) \/ RunOut(s)
    PROVE  TraceInv'
<1>1. work[s].pc \in Driving /\ Stored
  BY DEF Answer, RunOut, Runs, Driving
<1>2. work[s] \in Work /\ work[s].row # None
  BY <1>1, Driver
<1>3. \A x \in {"COMPLETED", "FAILED"} : x \in RunState /\ x # None
  BY NoneAssumption DEF RunState
<1>4. \E x \in {"COMPLETED", "FAILED"} : Closes(s, work[s], <<"end">>, x)
  BY DEF Answer, RunOut
<1>5. QED
  BY <1>1, <1>2, <1>3, <1>4, ClosesInv, KindsTyped

LEMMA AskInv ==
    ASSUME TraceInv, NEW s \in Sess, NEW c \in 0 .. MaxCalls, Ask(s, c)
    PROVE  TraceInv'
<1> DEFINE w == work[s]
           u == [w EXCEPT !.row.iter = @ + 1]
           v == [u EXCEPT !.left = c, !.pc = IF c = 0 THEN "answer" ELSE "calls",
                          !.add = Emit(w, <<"ask", "step">>), !.locks = @ \cup {"run"}]
<1>1. w.pc \in Driving /\ Stored
  BY DEF Ask, Runs, Driving
<1>2. w \in Work /\ w.row \in RunRow /\ w.row # None /\ w.add # <<>> /\ Numbered(w)
  BY <1>1, Driver
<1>3. u \in Work /\ u.row \in RunRow /\ u.row.seq = w.row.seq /\ u.starts = w.starts
  BY <1>2, IterCounted
<1>4. Goes(s, v)
  BY DEF Ask
<1>5. Emit(w, <<"ask", "step">>) \in Seq(Event) /\ c \in Nat
  <2>1. Emit(w, <<"ask", "step">>) \in Seq(Event)
    BY <1>2, EmitNumbers, KindsTyped
  <2>2. c \in Nat
    BY RunAssumption
  <2>3. QED
    BY <2>1, <2>2
<1> HIDE DEF u
<1>6. u.locks \cup {"run"} \in SUBSET {"run", "call"}
  BY <1>3 DEF Work
<1>7. v \in Work
  BY <1>3, <1>5, <1>6, FieldsTyped
<1>8. /\ v.pc \in {"answer", "calls"} /\ (v.pc = "calls" => v.left > 0)
      /\ v.add = Emit(w, <<"ask", "step">>) /\ v.row = u.row /\ v.starts = u.starts
  BY <1>3, <1>5 DEF Work
<1> HIDE DEF v
<1>9. v.add # <<>> /\ Numbered(v)
  BY <1>2, <1>3, <1>7, <1>8, EmitsOn, KindsTyped
<1>10. QED
  BY <1>1, <1>2, <1>3, <1>4, <1>7, <1>8, <1>9, Advances, NoneAssumption DEF Driving

\* A call that answers at once: its events, and the next call or the top of the loop.
LEMMA CallInv ==
    ASSUME TraceInv, NEW s \in Sess, work[s].pc = "calls", Stored,
           NEW ks \in Seq(Kind), ks # <<>>,
           Goes(s, NextCall([work[s] EXCEPT !.add = Emit(work[s], ks)]))
    PROVE  TraceInv'
<1> DEFINE w == work[s]
           u == [w EXCEPT !.add = Emit(w, ks)]
           v == NextCall(u)
<1>1. w \in Work /\ w.row # None /\ w.add # <<>> /\ Numbered(w)
  BY Driver DEF Driving
<1>2. w.left \in Nat /\ w.left > 0
  BY <1>1 DEF TraceInv, Checkpoints, Sound, Work
<1>3. u \in Work
  BY <1>1, EmitNumbers, FieldsTyped
<1>4. /\ u.left = w.left /\ u.add = Emit(w, ks) /\ u.row = w.row /\ u.starts = w.starts
  BY <1>1 DEF Work
<1> HIDE DEF u
<1>5. v = [u EXCEPT !.left = u.left - 1, !.pc = IF u.left = 1 THEN "loop" ELSE "calls"]
  BY DEF NextCall
<1>6. v \in Work
  <2>1. u.left - 1 \in Nat
    BY <1>2, <1>4
  <2>2. [u EXCEPT !.left = u.left - 1] \in Work
    BY <1>3, <2>1, FieldsTyped
  <2>3. v = [[u EXCEPT !.left = u.left - 1] EXCEPT !.pc = IF u.left = 1 THEN "loop" ELSE "calls"]
    BY <1>5
  <2>4. QED
    BY <2>2, <2>3, FieldsTyped
<1>7. /\ v.pc \in {"loop", "calls"} /\ (v.pc = "calls" => v.left > 0)
      /\ v.add = Emit(w, ks) /\ v.row = w.row /\ v.starts = w.starts
  BY <1>2, <1>3, <1>4, <1>5 DEF Work
<1>8. Goes(s, v)
  BY DEF u
<1> HIDE DEF v
<1>9. v.add # <<>> /\ Numbered(v)
  BY <1>1, <1>6, <1>7, EmitsOn
<1>10. QED
  BY <1>1, <1>6, <1>7, <1>8, <1>9, Advances DEF Driving

LEMMA CallsInv ==
    ASSUME TraceInv, NEW s \in Sess,
           CallUnknown(s) \/ \E t \in Tool : CallDenied(s, t) \/ CallRuns(s, t)
    PROVE  TraceInv'
<1>1. work[s].pc = "calls" /\ Stored
  BY DEF CallUnknown, CallDenied, CallRuns, Calling
<1>2. \E ks \in {<<"step">>, <<"step", "step">>, <<"step", "ran">>} :
         Goes(s, NextCall([work[s] EXCEPT !.add = Emit(work[s], ks)]))
  BY DEF CallUnknown, CallDenied, CallRuns
<1>3. QED
  BY <1>1, <1>2, CallInv, KindsTyped

LEMMA CallHeldInv ==
    ASSUME TraceInv, NEW s \in Sess, NEW t \in Tool, CallHeld(s, t)
    PROVE  TraceInv'
<1> DEFINE w == work[s]
           call == [asked |-> t, st |-> "PENDING", ran |-> 0]
           u == [w EXCEPT !.pc = "commit", !.left = 0, !.verdict = "WAITING",
                          !.add = Emit(w, <<"step", "step">>)]
           v == [u EXCEPT !.new = Append(@, call)]
<1>1. w.pc \in Driving /\ Stored
  BY DEF CallHeld, Calling, Driving
<1>2. w \in Work /\ w.row # None /\ w.add # <<>> /\ Numbered(w)
  BY <1>1, Driver
<1>3. Emit(w, <<"step", "step">>) \in Seq(Event)
  BY <1>2, EmitNumbers, KindsTyped
<1>4. "WAITING" \in RunState /\ "WAITING" # None
  BY NoneAssumption DEF RunState
<1>5. u \in Work
  BY <1>2, <1>3, <1>4, FieldsTyped
<1>6. /\ u.pc = "commit" /\ u.verdict = "WAITING" /\ u.add = Emit(w, <<"step", "step">>)
      /\ u.row = w.row /\ u.starts = w.starts
  BY <1>2 DEF Work
<1>7. Goes(s, v)
  BY DEF CallHeld, Suspended
<1> HIDE DEF u
<1>8. call \in Call
  BY DEF Call
<1>9. Append(u.new, call) \in Seq(Call)
  BY <1>5, <1>8 DEF Work
<1>10. v \in Work
  BY <1>5, <1>9, FieldsTyped
<1>11. /\ v.pc = "commit" /\ v.verdict = "WAITING" /\ v.add = Emit(w, <<"step", "step">>)
       /\ v.row = w.row /\ v.starts = w.starts
  BY <1>5, <1>6 DEF Work
<1> HIDE DEF v
<1>12. v.add # <<>> /\ Numbered(v)
  BY <1>2, <1>10, <1>11, EmitsOn, KindsTyped
<1>13. QED
  BY <1>1, <1>2, <1>4, <1>7, <1>10, <1>11, <1>12, Advances DEF Driving

LEMMA SettleInv ==
    ASSUME TraceInv, NEW s \in Sess, Settle(s) \/ Disconnect(s)
    PROVE  TraceInv'
<1> DEFINE w == work[s]
<1>1. w.pc \in Driving /\ Stored
  BY DEF Settle, Disconnect, Driving
<1>2. w \in Work /\ w.row # None /\ w.add # <<>> /\ Numbered(w)
  BY <1>1, Driver
<1>3. CASE Settle(s)
  <2> DEFINE v == [w EXCEPT !.pc = "commit"]
  <2>1. Goes(s, v) /\ w.pc = "closing"
    BY <1>3 DEF Settle
  <2>2. v \in Work
    BY <1>2, FieldsTyped
  <2>3. /\ v.pc = "commit" /\ v.verdict = w.verdict /\ v.add = w.add
        /\ v.row = w.row /\ v.starts = w.starts
    BY <1>2 DEF Work
  <2> HIDE DEF v
  <2>4. v.starts => v.verdict # None
    BY <2>1, <2>3 DEF TraceInv, Starter
  <2>5. Numbered(v)
    BY <1>2, <2>3 DEF Numbered
  <2>6. QED
    BY <1>1, <1>2, <2>1, <2>2, <2>3, <2>4, <2>5, Advances DEF Driving
<1>4. CASE Disconnect(s)
  <2> DEFINE v == [w EXCEPT !.pc = "commit", !.verdict = "RUNNING"]
  <2>1. Goes(s, v)
    BY <1>4 DEF Disconnect
  <2>2. "RUNNING" \in RunState /\ "RUNNING" # None
    BY NoneAssumption DEF RunState
  <2>3. v \in Work
    BY <1>2, <2>2, FieldsTyped
  <2>4. /\ v.pc = "commit" /\ v.verdict = "RUNNING" /\ v.add = w.add
        /\ v.row = w.row /\ v.starts = w.starts
    BY <1>2 DEF Work
  <2> HIDE DEF v
  <2>5. Numbered(v)
    BY <1>2, <2>4 DEF Numbered
  <2>6. QED
    BY <1>1, <1>2, <2>1, <2>2, <2>3, <2>4, <2>5, Advances DEF Driving
<1>5. QED
  BY <1>3, <1>4

LEMMA ApplyInv ==
    ASSUME TraceInv, NEW s \in Sess, Apply(s)
    PROVE  TraceInv'
<1> DEFINE w == work[s]
           v == [w EXCEPT !.pc = "loop", !.ran = TRUE, !.add = Emit(w, <<"ran">>)]
           u == [w EXCEPT !.pc = "loop"]
<1>1. w.pc \in Driving /\ Stored
  BY DEF Apply, Driving
<1>2. w \in Work /\ w.row # None /\ w.add # <<>> /\ Numbered(w)
  BY <1>1, Driver
<1>3. Goes(s, v) \/ Goes(s, u)
  BY DEF Apply
<1>4. Emit(w, <<"ran">>) \in Seq(Event)
  BY <1>2, EmitNumbers, KindsTyped
<1>5. v \in Work /\ u \in Work
  BY <1>2, <1>4, FieldsTyped
<1>6. /\ v.pc = "loop" /\ v.add = Emit(w, <<"ran">>) /\ v.row = w.row /\ v.starts = w.starts
      /\ u.pc = "loop" /\ u.add = w.add /\ u.row = w.row /\ u.starts = w.starts
  BY <1>2 DEF Work
<1> HIDE DEF u, v
<1>7. v.add # <<>> /\ Numbered(v)
  BY <1>2, <1>5, <1>6, EmitsOn, KindsTyped
<1>8. Numbered(u)
  BY <1>2, <1>6 DEF Numbered
<1>9. CASE Goes(s, v)
  BY <1>1, <1>2, <1>5, <1>6, <1>7, <1>9, Advances DEF Driving
<1>10. CASE Goes(s, u)
  BY <1>1, <1>2, <1>5, <1>6, <1>8, <1>10, Advances DEF Driving
<1>11. QED
  BY <1>3, <1>9, <1>10

-----------------------------------------------------------------------------
(* Answers and cancellations.                                              *)

LEMMA PendingTyped == held \in Seq(Call) => PendingCall \in Nat
<1> SUFFICES ASSUME held \in Seq(Call) PROVE PendingCall \in Nat
  OBVIOUS
<1> DEFINE P == {i \in DOMAIN held : held[i].st = "PENDING"}
<1>1. P \subseteq Nat
  OBVIOUS
<1>2. PendingCall = IF P = {} THEN 0 ELSE CHOOSE i \in P : TRUE
  BY DEF PendingCall
<1> HIDE DEF P
<1>3. P # {} => (CHOOSE i \in P : TRUE) \in P
  OBVIOUS
<1>4. QED
  BY <1>1, <1>2, <1>3

\* Nobody but a starter works before the first commit.
LEMMA NotAlone ==
    ASSUME TraceInv, NEW s \in Sess, work[s].pc # "idle", work[s].pc \notin Driving
    PROVE  /\ work[s] \in Work
           /\ work[s].add = <<>>
           /\ ~work[s].starts
           /\ run # None
           /\ Sound(work[s])
BY DEF TraceInv, TraceTypes, OneWriter, Checkpoints, Starter

\* The first event of an answer.
LEMMA FirstEvent ==
    ASSUME TraceInv, NEW s \in Sess, work[s].pc \in {"read", "found"},
           NEW ks \in Seq(Kind), ks # <<>>
    PROVE  /\ Emit(work[s], ks) \in Seq(Event)
           /\ \A v \in Work : v.add = Emit(work[s], ks) /\ v.row = work[s].row =>
                 v.add # <<>> /\ Numbered(v)
<1>1. work[s] \in Work /\ work[s].add = <<>> /\ work[s].row # None
  BY NotAlone DEF Driving, Sound
<1>2. Numbered(work[s])
  BY <1>1 DEF Numbered
<1>3. QED
  BY <1>1, <1>2, EmitNumbers, EmitsOn

LEMMA FindCallInv ==
    ASSUME TraceInv, NEW s \in Sess, FindCall(s)
    PROVE  TraceInv'
<1> DEFINE w == work[s]
           u == [w EXCEPT !.pc = "found", !.e = PendingCall]
           v == [w EXCEPT !.pc = "commit", !.add = Emit(w, <<"end">>)]
<1>1. w.pc = "read" /\ Stored
  BY DEF FindCall
<1>2. /\ w \in Work /\ w.add = <<>> /\ ~w.starts /\ run # None
      /\ Sound(w) /\ w.row # None
  BY <1>1, NotAlone DEF Driving, Sound
<1>3. \/ Goes(s, u)
      \/ Goes(s, NoWork)
      \/ Goes(s, v) /\ Admitted(s, w.row.seq)
  BY DEF FindCall
<1>4. CASE Goes(s, u)
  <2>1. PendingCall \in Nat
    BY PendingTyped DEF TraceInv, TraceTypes
  <2>2. u \in Work
    BY <1>2, <2>1, FieldsTyped
  <2>3. u.pc = "found" /\ u.add = w.add /\ u.row = w.row /\ u.starts = w.starts
    BY <1>2 DEF Work
  <2> HIDE DEF u
  <2>4. Sound(u)
    BY <1>2, <2>3 DEF Sound
  <2>5. QED
    BY <1>1, <1>2, <1>4, <2>2, <2>3, <2>4, Reads DEF Driving
<1>5. CASE Goes(s, v) /\ Admitted(s, w.row.seq)
  <2>1. Emit(w, <<"end">>) \in Seq(Event)
    BY <1>1, FirstEvent, KindsTyped
  <2>2. v \in Work
    BY <1>2, <2>1, FieldsTyped
  <2>3. v.pc = "commit" /\ v.add = Emit(w, <<"end">>) /\ v.row = w.row /\ v.starts = w.starts
    BY <1>2 DEF Work
  <2> HIDE DEF v
  <2>4. v.add # <<>> /\ Numbered(v)
    BY <1>1, <2>2, <2>3, FirstEvent, KindsTyped
  <2>5. QED
    BY <1>1, <1>2, <1>5, <2>2, <2>3, <2>4, Enters DEF Driving
<1>6. QED
  BY <1>1, <1>3, <1>4, <1>5, Leaves

LEMMA DecideInv ==
    ASSUME TraceInv, NEW s \in Sess, NEW d \in {"APPROVED", "REJECTED"}, Decide(s, d)
    PROVE  TraceInv'
<1> DEFINE w == work[s]
           v == [w EXCEPT !.does = d, !.locks = {"call"},
                          !.pc = IF d = "APPROVED" THEN "decided" ELSE "loop",
                          !.add = Emit(w, <<"step">>)]
<1>1. w.pc = "found" /\ Stored /\ Admitted(s, w.row.seq) /\ Goes(s, v)
  BY DEF Decide
<1>2. w \in Work /\ w.row # None
  BY <1>1, NotAlone DEF Driving, Sound
<1>3. Emit(w, <<"step">>) \in Seq(Event)
  BY <1>1, FirstEvent, KindsTyped
<1>4. v \in Work
  BY <1>2, <1>3, FieldsTyped
<1>5. /\ v.pc \in {"decided", "loop"}
      /\ v.add = Emit(w, <<"step">>) /\ v.row = w.row /\ v.starts = w.starts
  BY <1>2 DEF Work
<1> HIDE DEF v
<1>6. v.add # <<>> /\ Numbered(v)
  BY <1>1, <1>4, <1>5, FirstEvent, KindsTyped
<1>7. QED
  BY <1>1, <1>2, <1>4, <1>5, <1>6, Enters DEF Driving

LEMMA QuitsInv ==
    ASSUME TraceInv, NEW s \in Sess, Abort(s) \/ Conflict(s) \/ DetectDeadlock(s)
    PROVE  TraceInv'
BY Leaves DEF Abort, Conflict, DetectDeadlock

LEMMA BeginsInv ==
    ASSUME TraceInv, NEW s \in Sess, ReadRun(s) \/ ReadToCancel(s)
    PROVE  TraceInv'
<1> DEFINE u == [NoWork EXCEPT !.pc = "read", !.row = run]
           v == [NoWork EXCEPT !.pc = "reads"]
<1>1. Stored /\ run # None /\ (Goes(s, u) \/ Goes(s, v))
  BY DEF ReadRun, ReadToCancel
<1>2. run \in RunRow /\ run.seq \in 1 .. Len(trace) + 1
  BY <1>1 DEF TraceInv, TraceTypes, Checkpoints
<1>3. u \in Work /\ v \in Work
  BY <1>2, NoWorkTyped, FieldsTyped
<1>4. /\ u.pc = "read" /\ u.row = run /\ u.add = <<>> /\ ~u.starts
      /\ v.pc = "reads" /\ v.row = None /\ v.add = <<>> /\ ~v.starts
  BY DEF NoWork
<1> HIDE DEF u, v
<1>5. Sound(u) /\ Sound(v)
  BY <1>1, <1>2, <1>4 DEF Sound
<1>6. QED
  BY <1>1, <1>3, <1>4, <1>5, Reads DEF Driving

LEMMA CancelInv ==
    ASSUME TraceInv, NEW s \in Sess, Cancel(s) \/ \E l \in {"run", "call"} : Lock(s, l)
    PROVE  TraceInv'
<1> DEFINE w == work[s]
<1>1. w.pc \in {"reads", "cancel"} /\ Stored
  BY DEF Cancel, Lock
<1>2. w \in Work /\ w.add = <<>> /\ ~w.starts /\ run # None /\ Sound(w)
  BY <1>1, NotAlone DEF Driving
<1>3. CASE Cancel(s)
  <2> DEFINE v == [w EXCEPT !.pc = "cancel", !.e = PendingCall,
                            !.does = IF PendingCall = 0 THEN "none" ELSE "EXPIRED"]
  <2>1. Goes(s, v)
    BY <1>3 DEF Cancel
  <2>2. PendingCall \in Nat
    BY PendingTyped DEF TraceInv, TraceTypes
  <2>3. v \in Work
    BY <1>2, <2>2, FieldsTyped
  <2>4. v.pc = "cancel" /\ v.add = w.add /\ v.row = w.row /\ v.starts = w.starts
    BY <1>2 DEF Work
  <2> HIDE DEF v
  <2>5. Sound(v)
    BY <1>2, <2>4 DEF Sound
  <2>6. QED
    BY <1>1, <1>2, <2>1, <2>3, <2>4, <2>5, Reads DEF Driving
<1>4. ASSUME NEW l \in {"run", "call"}, Lock(s, l)
      PROVE  TraceInv'
  <2> DEFINE v == [w EXCEPT !.locks = w.locks \cup {l}]
  <2>1. Goes(s, v) /\ w.pc = "cancel"
    BY <1>4 DEF Lock
  <2>2. w.locks \cup {l} \in SUBSET {"run", "call"}
    BY <1>2, <1>4 DEF Work
  <2>3. v \in Work
    BY <1>2, <2>2, FieldsTyped
  <2>4. v.pc = w.pc /\ v.add = w.add /\ v.row = w.row /\ v.starts = w.starts
    BY <1>2 DEF Work
  <2> HIDE DEF v
  <2>5. Sound(v)
    BY <1>2, <2>1, <2>4 DEF Sound
  <2>6. QED
    BY <1>1, <1>2, <2>1, <2>3, <2>4, <2>5, Reads DEF Driving
<1>5. QED
  BY <1>3, <1>4

\* A run begins with the number 1, and only one request begins it.
LEMMA StartInv ==
    ASSUME TraceInv, NEW s \in Sess, NEW m \in BOOLEAN, Start(s, m)
    PROVE  TraceInv'
<1>1. PICK found \in 0 .. 2 :
         Goes(s, [NoWork EXCEPT !.pc = "loop", !.row = Spec0(m),
                     !.add = [i \in 1 .. 1 + found |-> [seq |-> i, kind |-> "step"]],
                     !.starts = TRUE, !.locks = {"run"}])
  <2>1. Retrieved \subseteq 0 .. 2
    BY DEF Retrieved
  <2>2. QED
    BY <2>1 DEF Start
<1> DEFINE add == [i \in 1 .. 1 + found |-> [seq |-> i, kind |-> "step"]]
           v == [NoWork EXCEPT !.pc = "loop", !.row = Spec0(m), !.add = add,
                               !.starts = TRUE, !.locks = {"run"}]
<1>2. Goes(s, v)
  BY <1>1
<1>3. run = None /\ trace = <<>> /\ Stored /\ \A r \in Sess : work[r].pc = "idle"
  BY DEF Start, TraceInv, Starter
<1>4. \A r \in Sess : work[r].add = <<>> /\ ~work[r].starts
  BY <1>3 DEF TraceInv, OneWriter, Starter, Driving
<1>5. Spec0(m) \in RunRow /\ Spec0(m) # None /\ Spec0(m).seq = 1
  <2>1. \A t \in Here : t \in Tool
    BY DEF Here
  <2>2. Spec0(m) = [st |-> "RUNNING", seq |-> 1, iter |-> 0, may |-> m, granted |-> Spec0(m).granted]
    BY DEF Spec0
  <2>3. Spec0(m).granted \in SUBSET Tool
    BY <2>1 DEF Spec0
  <2>4. Spec0(m) \in RunRow /\ Spec0(m).seq = 1
    BY <2>2, <2>3 DEF RunRow, RunState
  <2>5. QED
    BY <2>4, NoneAssumption
<1>6. add \in Seq(Event) /\ Len(add) = 1 + found /\ \A i \in DOMAIN add : add[i].seq = i
  BY DEF Event, Kind
<1>7. add # <<>>
  BY <1>6
<1> HIDE DEF add
<1>8. v \in Work
  BY <1>5, <1>6, NoWorkTyped, FieldsTyped
<1>9. v.pc = "loop" /\ v.row = Spec0(m) /\ v.add = add /\ v.starts
  BY DEF NoWork
<1> HIDE DEF v
<1>10. Numbered(v)
  BY <1>5, <1>6, <1>9 DEF Numbered
<1> USE DEF TraceInv, Stored
<1>11. TraceTypes' /\ TraceGapless'
  BY <1>2, <1>3, <1>8, OthersStay DEF TraceTypes, TraceGapless
<1>12. Writes(v) /\ Sound(v)
  BY <1>3, <1>5, <1>9, <1>10 DEF Writes, Sound
<1>13. OneWriter'
  BY <1>2, <1>3, <1>4, <1>7, <1>8, <1>9, <1>12, OthersStay
  DEF OneWriter, Writes, Numbered, Driving
<1>14. Checkpoints'
  BY <1>2, <1>3, <1>8, <1>12, OthersStay DEF Checkpoints, Sound
<1>15. Starter'
  BY <1>2, <1>3, <1>4, <1>8, <1>9, OthersStay DEF Starter, Driving
<1>16. QED
  BY <1>11, <1>13, <1>14, <1>15

-----------------------------------------------------------------------------
(* Commits.                                                                *)

\* A run as the session that drove it leaves it.
LEMMA LeftTyped ==
    ASSUME NEW w \in Work, w.row \in RunRow, w.verdict # None
    PROVE  /\ Left(w) \in RunRow
           /\ Left(w).seq \in {w.row.seq, w.row.seq + Len(w.add)}
<1>1. w.row.seq \in Nat /\ Len(w.add) \in Nat /\ w.verdict \in RunState
  BY DEF Work, RunRow
<1>2. CASE w.verdict = "WAITING"
  <2>1. Left(w) = [w.row EXCEPT !.st = "WAITING", !.seq = w.row.seq + Len(w.add)]
    BY <1>2 DEF Left, NextSeq
  <2>2. w.row.seq + Len(w.add) \in Nat /\ "WAITING" \in RunState
    BY <1>1 DEF RunState
  <2> DEFINE n == w.row.seq + Len(w.add)
  <2> HIDE DEF n
  <2>3. ASSUME n \in Nat
        PROVE  /\ [w.row EXCEPT !.st = "WAITING", !.seq = n] \in RunRow
               /\ [w.row EXCEPT !.st = "WAITING", !.seq = n].seq = n
    BY <2>2, <2>3 DEF RunRow
  <2>4. QED
    BY <2>1, <2>2, <2>3 DEF n
<1>3. CASE w.verdict # "WAITING"
  BY <1>1, <1>3 DEF Left, RunRow
<1>4. QED
  BY <1>2, <1>3

\* The calls keep their type, whatever is decided.
LEMMA HeldTyped ==
    ASSUME TraceTypes, NEW s \in Sess
    PROVE  Decided(work[s]) \o work[s].new \in Seq(Call)
<1> DEFINE w == work[s]
<1>1. w \in Work /\ w.new \in Seq(Call) /\ held \in Seq(Call)
  BY DEF TraceTypes, Work
<1>2. ASSUME w.does # "none"
      PROVE  Decided(w) \in Seq(Call)
  <2> DEFINE row(e) == [held[e] EXCEPT !.st = w.does, !.ran = @ + (IF w.ran THEN 1 ELSE 0)]
  <2>1. ASSUME NEW e \in DOMAIN held
        PROVE  row(e) \in Call
    <3>1. held[e] \in Call /\ w.does \in {"APPROVED", "REJECTED", "EXPIRED"}
      BY <1>1, <1>2, <2>1 DEF Work
    <3>2. held[e].ran + 0 \in Nat /\ held[e].ran + 1 \in Nat
      BY <3>1 DEF Call
    <3>3. held[e].ran + (IF w.ran THEN 1 ELSE 0) \in Nat
      BY <3>2, Zenon
    <3>4. QED
      BY <3>1, <3>3 DEF Call
  <2>2. Decided(w) = [held EXCEPT ![w.e] = row(w.e)]
    BY <1>2, Zenon DEF Decided
  <2> HIDE DEF row
  <2>3. ASSUME NEW f \in Seq(Call), NEW e, NEW x, e \in DOMAIN f => x \in Call
        PROVE  [f EXCEPT ![e] = x] \in Seq(Call)
    <3>1. f \in [1 .. Len(f) -> Call] /\ Len(f) \in Nat
      BY LenProperties
    <3>2. [f EXCEPT ![e] = x] \in [1 .. Len(f) -> Call]
      BY <2>3, <3>1
    <3>3. QED
      BY <3>1, <3>2
  <2>4. w.e \in DOMAIN held => row(w.e) \in Call
    BY <2>1
  <2>5. [held EXCEPT ![w.e] = row(w.e)] \in Seq(Call)
    BY <1>1, <2>3, <2>4
  <2>6. QED
    BY <2>2, <2>5
<1>3. Decided(w) \in Seq(Call)
  BY <1>1, <1>2 DEF Decided
<1>4. QED
  BY <1>1, <1>3

LEMMA CommitInv ==
    ASSUME TraceInv, NEW s \in Sess, Commit(s)
    PROVE  TraceInv'
<1> DEFINE w == work[s]
<1>1. /\ Goes(s, NoWork)
      /\ trace' = trace \o w.add
      /\ held' = Decided(w) \o w.new
      /\ w.pc \in {"commit", "cancel"}
  BY DEF Commit
<1>2. /\ w \in Work /\ w.add \in Seq(Event) /\ trace \in Seq(Event)
      /\ Len(w.add) \in Nat /\ Len(trace) \in Nat
  BY DEF TraceInv, TraceTypes, Work
<1>3. trace' \in Seq(Event) /\ Len(trace') = Len(trace) + Len(w.add)
  BY <1>1, <1>2, ConcatProperties
<1>4. held' \in Seq(Call)
  BY <1>1, HeldTyped DEF TraceInv
<1>5. CASE w.pc = "cancel"
  <2>1. w.add = <<>> /\ run # None
    BY <1>5, NotAlone DEF Driving
  <2>2. trace' = trace
    BY <1>1, <1>2, <2>1, ConcatEmptySeq
  <2>3. run' = [run EXCEPT !.st = "CANCELLED"] /\ run \in RunRow
    BY <1>5, <2>1 DEF Commit, TraceInv, TraceTypes
  <2>4. run' \in RunRow /\ run'.seq = run.seq /\ run' # None
    BY <2>3, NoneAssumption DEF RunRow, RunState
  <2> USE DEF TraceInv
  <2>5. TraceTypes' /\ TraceGapless'
    BY <1>1, <1>4, <2>2, <2>4, OthersStay, NoWorkTyped DEF TraceTypes, TraceGapless
  <2>6. OneWriter'
    BY <1>1, <2>2, OthersStay, NoWorkTyped DEF OneWriter, Writes, Numbered, Driving
  <2>7. Checkpoints'
    BY <1>1, <2>1, <2>2, <2>4, OthersStay, NoWorkTyped DEF Checkpoints, Sound
  <2>8. Starter'
    BY <1>1, <2>1, <2>4, OthersStay, NoWorkTyped DEF Starter
  <2>9. QED
    BY <2>5, <2>6, <2>7, <2>8
<1>6. CASE w.pc = "commit"
  <2>1. w.row \in RunRow /\ w.row # None /\ w.add # <<>> /\ Numbered(w)
    BY <1>6, Driver DEF Driving
  <2>2. w.row.seq = Len(trace) + 1 /\ \A r \in Sess \ {s} : work[r].add = <<>>
    BY <2>1 DEF TraceInv, OneWriter, Writes
  <2>3. TraceGapless'
    <3>1. ASSUME NEW i \in 1 .. Len(trace) + Len(w.add)
          PROVE  (trace \o w.add)[i].seq = i
      <4>1. CASE i <= Len(trace)
        <5>1. (trace \o w.add)[i] = trace[i] /\ i \in DOMAIN trace
          BY <1>2, <4>1, ConcatProperties
        <5>2. QED
          BY <5>1 DEF TraceInv, TraceGapless
      <4>2. CASE i > Len(trace)
        <5>1. /\ (trace \o w.add)[i] = w.add[i - Len(trace)]
              /\ i - Len(trace) \in DOMAIN w.add
          BY <1>2, <4>2, ConcatProperties
        <5>2. w.add[i - Len(trace)].seq = w.row.seq + (i - Len(trace)) - 1
          BY <2>1, <5>1 DEF Numbered
        <5>3. QED
          BY <1>2, <2>2, <5>1, <5>2
      <4>3. QED
        BY <1>2, <4>1, <4>2
    <3>2. DOMAIN trace' = 1 .. Len(trace) + Len(w.add)
      BY <1>3
    <3>3. QED
      BY <1>1, <3>1, <3>2 DEF TraceGapless
  <2>4. run' \in RunRow /\ run' # None /\ run'.seq \in 1 .. Len(trace') + 1
    <3>1. CASE w.verdict = None
      <4>1. ~w.starts
        BY <1>6, <3>1 DEF TraceInv, Starter
      <4>2. run # None
        BY <1>6, <4>1 DEF TraceInv, Starter
      <4>3. run' = run
        BY <1>6, <3>1 DEF Commit
      <4>4. run \in RunRow /\ run.seq \in 1 .. Len(trace) + 1
        BY <4>2 DEF TraceInv, TraceTypes, Checkpoints
      <4>5. QED
        BY <1>2, <1>3, <4>2, <4>3, <4>4
    <3>2. CASE w.verdict # None
      <4>1. run' = Left(w)
        BY <1>6, <3>2 DEF Commit
      <4>2. Left(w) \in RunRow /\ Left(w).seq \in {w.row.seq, w.row.seq + Len(w.add)}
        BY <1>2, <2>1, <3>2, LeftTyped
      <4>3. run'.seq \in {Len(trace) + 1, Len(trace) + 1 + Len(w.add)}
        BY <2>2, <4>1, <4>2
      <4>4. Len(trace') = Len(trace) + Len(w.add)
        BY <1>3
      <4>5. run'.seq \in 1 .. Len(trace') + 1
        <5>1. \A a, b \in Nat : a + 1 \in 1 .. a + b + 1 /\ a + 1 + b \in 1 .. a + b + 1
          OBVIOUS
        <5>2. QED
          BY <1>2, <4>3, <4>4, <5>1
      <4>6. QED
        BY <4>1, <4>2, <4>5, NoneAssumption
    <3>3. QED
      BY <3>1, <3>2
  <2>5. \A r \in Sess : r # s => ~work[r].starts
    BY <2>2 DEF TraceInv, OneWriter, Starter
  <2> USE DEF TraceInv
  <2>6. TraceTypes'
    BY <1>1, <1>3, <1>4, <2>4, OthersStay, NoWorkTyped DEF TraceTypes
  <2>7. OneWriter'
    BY <1>1, <2>2, OthersStay, NoWorkTyped DEF OneWriter, Driving
  <2>8. Checkpoints'
    BY <1>1, <1>2, <1>3, <2>4, OthersStay, NoWorkTyped DEF Checkpoints, Sound
  <2>9. Starter'
    BY <1>1, <2>4, <2>5, OthersStay, NoWorkTyped DEF Starter
  <2>10. QED
    BY <2>3, <2>6, <2>7, <2>8, <2>9
<1>7. QED
  BY <1>1, <1>5, <1>6

-----------------------------------------------------------------------------
LEMMA TraceInit == Init => TraceInv
<1> SUFFICES ASSUME Init PROVE TraceInv
  OBVIOUS
<1>1. TraceTypes /\ TraceGapless
  BY NoWorkTyped DEF Init, TraceTypes, TraceGapless
<1>2. OneWriter /\ Checkpoints /\ Starter
  BY NoWorkTyped DEF Init, OneWriter, Checkpoints, Sound, Starter, Driving
<1>3. QED
  BY <1>1, <1>2 DEF TraceInv

LEMMA TraceStep == TraceInv /\ [Next]_vars => TraceInv'
<1> SUFFICES ASSUME TraceInv, [Next]_vars PROVE TraceInv'
  OBVIOUS
<1>1. CASE UNCHANGED runvars
  BY <1>1 DEF runvars, TraceInv, TraceTypes, TraceGapless, OneWriter, Writes, Numbered,
              Checkpoints, Sound, Starter
<1>2. ASSUME NEW s \in Sess, LoopSteps(s)
      PROVE  TraceInv'
  BY <1>2, ModelFailsInv, AnswerInv, CallsInv, SettleInv, AskInv, CallHeldInv DEF LoopSteps
<1>3. ASSUME NEW s \in Sess, AnswerSteps(s)
      PROVE  TraceInv'
  BY <1>3, FindCallInv, ApplyInv, QuitsInv, DecideInv DEF AnswerSteps
<1>4. ASSUME NEW s \in Sess, Progress(s)
      PROVE  TraceInv'
  BY <1>2, <1>3, <1>4, CancelInv, CommitInv, QuitsInv DEF Progress
<1>5. ASSUME NEW s \in Sess, Requests(s)
      PROVE  TraceInv'
  BY <1>5, StartInv, BeginsInv, SettleInv, QuitsInv DEF Requests
<1>6. QED
  BY <1>1, <1>4, <1>5 DEF Next, Registry, vars

\* Runs, traces, calls and what sessions hold stay in their types.
THEOREM RunTypes == Spec => []TypeOK
<1>1. TraceInv => /\ run \in RunRow \cup {None}
                  /\ trace \in Seq(Event)
                  /\ held \in Seq(Call)
                  /\ work \in [Sess -> Work]
  BY DEF TraceInv, TraceTypes
<1>2. TraceInv /\ RegTypeOK => TypeOK
  BY <1>1 DEF TypeOK
<1>3. Init => TraceInv
  BY TraceInit
<1>4. TraceInv /\ [Next]_vars => TraceInv'
  BY TraceStep
<1>5. QED
  BY <1>2, <1>3, <1>4, RegistryTypes, PTL DEF Spec

\* approve, _resume, _persisting: however many people answer one pending call, the
\* committed trace reads 1, 2, 3 with nothing missing and nothing twice.
THEOREM TraceStaysGapless == Spec => []TraceGapless
<1>1. TraceInv => TraceGapless
  BY DEF TraceInv
<1>2. QED
  BY <1>1, TraceInit, TraceStep, PTL DEF Spec

-----------------------------------------------------------------------------
(* The calls that wait for a person.                                       *)

\* The decisions of an answer.
Taken == {"APPROVED", "REJECTED"}

\* The run has not ended, by these events; it ends with the last; it ends nowhere before.
Open(t) == \A i \in DOMAIN t : t[i].kind # "end"
Closed(t) == t[Len(t)].kind = "end"
EndsLast(t) == \A i \in DOMAIN t : t[i].kind = "end" => i = Len(t)

Waiting(e) == held[e].st = "PENDING"

\* Nobody's decision about the call has been committed, and no other is waiting.
Untouched(e) ==
    /\ e \in DOMAIN held
    /\ held[e].ran = 0
    /\ held[e].st \in {"PENDING", "EXPIRED"}
    /\ \A f \in DOMAIN held : Waiting(f) => f = e

\* What a session holds, whatever the others do.
Shape(w) ==
    /\ w.ran => w.does = "APPROVED"
    /\ w.pc = "decided" => w.does = "APPROVED"
    /\ w.does \in Taken => w.pc \in Driving
    /\ w.does = "EXPIRED" => w.pc = "cancel"
    /\ w.pc \in Driving => w.starts \/ w.does \in Taken \/ (w.pc = "commit" /\ w.verdict = None)
    /\ w.verdict # None => w.pc \in {"closing", "commit"}
    /\ w.pc = "closing" => w.verdict # None
    /\ w.pc \notin {"closing", "commit"} => Open(w.add)
    /\ EndsLast(w.add)
    /\ w.verdict \in {"COMPLETED", "FAILED"} => Closed(w.add)
    /\ w.pc = "commit" /\ w.verdict = None => w.does = "none" /\ Closed(w.add)
    /\ w.verdict = "WAITING" =>
          /\ w.pc = "commit"
          /\ Open(w.add)
          /\ Len(w.new) = 1
          /\ w.new[1].st = "PENDING"
          /\ w.new[1].ran = 0
    /\ w.verdict # "WAITING" => w.new = <<>>

\* What a session read and still holds of the run and its calls.
Current(w) ==
    /\ w.row # None /\ w.row.seq = Len(trace) + 1 => Open(trace)
    /\ w.pc = "found" /\ w.row.seq = Len(trace) + 1 => Untouched(w.e)
    /\ w.does \in Taken => Untouched(w.e)
    /\ w.does # "none" => w.e \in DOMAIN held
    /\ w.pc = "commit" /\ w.verdict = None => run # None /\ run.st # "WAITING"

\* What is committed about each call, and about all of them.
CallsSound ==
    /\ \A e \in DOMAIN held :
          /\ held[e].ran <= 1
          /\ Waiting(e) => held[e].ran = 0
          /\ held[e].ran = 1 => held[e].st \in {"APPROVED", "EXPIRED"}
    /\ \A e, f \in DOMAIN held : Waiting(e) /\ Waiting(f) => e = f

\* A run that waits has a call that waits, and is where its trace stops.
RunSound ==
    /\ run = None => held = <<>>
    /\ run # None /\ run.st = "WAITING" =>
          /\ \E e \in DOMAIN held : Waiting(e)
          /\ run.seq = Len(trace) + 1
          /\ Open(trace)

Sessions == \A s \in Sess : Shape(work[s]) /\ Current(work[s])

AnswersInv == CallsSound /\ RunSound /\ EndIsLast /\ Sessions

-----------------------------------------------------------------------------
(* What the operators return.                                              *)

\* A session that holds nothing promises nothing.
LEMMA IdleFits == Shape(NoWork) /\ Current(NoWork)
<1>1. NoWork = [pc |-> "idle", row |-> None, add |-> <<>>, new |-> <<>>, left |-> 0,
                verdict |-> None, e |-> 0, does |-> "none", ran |-> FALSE,
                locks |-> {}, starts |-> FALSE]
  BY DEF NoWork
<1>2. None # "WAITING" /\ None \notin {"COMPLETED", "FAILED"}
  BY NoneAssumption DEF RunState
<1>3. Shape(NoWork)
  BY <1>1, <1>2 DEF Shape, Taken, Driving, Open, EndsLast
<1>4. Current(NoWork)
  BY <1>1 DEF Current, Taken
<1>5. QED
  BY <1>3, <1>4

\* Events keep their kind; those added have the kinds asked for.
LEMMA EmitKinds ==
    ASSUME NEW w \in Work, w.row # None, NEW ks \in Seq(Kind)
    PROVE  /\ Len(Emit(w, ks)) = Len(w.add) + Len(ks)
           /\ DOMAIN Emit(w, ks) = 1 .. Len(w.add) + Len(ks)
           /\ \A i \in 1 .. Len(w.add) : Emit(w, ks)[i] = w.add[i]
           /\ \A i \in 1 .. Len(ks) : Emit(w, ks)[Len(w.add) + i].kind = ks[i]
<1> DEFINE new == [i \in 1 .. Len(ks) |-> [seq |-> NextSeq(w) + i - 1, kind |-> ks[i]]]
<1>1. w.row \in RunRow /\ w.row.seq \in Nat /\ w.add \in Seq(Event) /\ Len(w.add) \in Nat
  BY DEF Work, RunRow
<1>2. \A i \in 1 .. Len(ks) : new[i] \in Event
  BY <1>1 DEF Event, NextSeq
<1>3. new \in Seq(Event) /\ Len(new) = Len(ks) /\ Len(ks) \in Nat
  BY <1>2
<1>4. Emit(w, ks) = w.add \o new
  BY DEF Emit
<1>5. \A i \in 1 .. Len(ks) : new[i].kind = ks[i]
  OBVIOUS
<1> HIDE DEF new
<1>6. /\ Len(w.add \o new) = Len(w.add) + Len(new)
      /\ DOMAIN (w.add \o new) = 1 .. Len(w.add) + Len(new)
      /\ \A i \in 1 .. Len(w.add) : (w.add \o new)[i] = w.add[i]
      /\ \A i \in 1 .. Len(new) : (w.add \o new)[Len(w.add) + i] = new[i]
  <2>1. ASSUME NEW a \in Seq(Event), NEW b \in Seq(Event)
        PROVE  /\ Len(a \o b) = Len(a) + Len(b)
               /\ DOMAIN (a \o b) = 1 .. Len(a) + Len(b)
               /\ \A i \in 1 .. Len(a) : (a \o b)[i] = a[i]
               /\ \A i \in 1 .. Len(b) : (a \o b)[Len(a) + i] = b[i]
    BY <2>1
  <2>2. QED
    BY <1>1, <1>3, <2>1
<1>7. QED
  BY <1>3, <1>4, <1>5, <1>6

\* Events that do not end the run leave it open.
LEMMA EmitOpen ==
    ASSUME NEW w \in Work, w.row # None, NEW ks \in Seq(Kind), Open(w.add),
           \A i \in DOMAIN ks : ks[i] # "end"
    PROVE  Open(Emit(w, ks)) /\ EndsLast(Emit(w, ks))
<1>1. w.add \in Seq(Event) /\ Len(w.add) \in Nat /\ Len(ks) \in Nat
  BY DEF Work
<1>2. ASSUME NEW i \in DOMAIN Emit(w, ks)
      PROVE  Emit(w, ks)[i].kind # "end"
  <2>1. i \in 1 .. Len(w.add) + Len(ks)
    BY EmitKinds
  <2>2. CASE i <= Len(w.add)
    <3>1. i \in 1 .. Len(w.add) /\ i \in DOMAIN w.add
      BY <1>1, <2>1, <2>2
    <3>2. QED
      BY <3>1, EmitKinds DEF Open
  <2>3. CASE i > Len(w.add)
    <3> DEFINE j == i - Len(w.add)
    <3>1. j \in 1 .. Len(ks) /\ i = Len(w.add) + j
      BY <1>1, <2>1, <2>3
    <3> HIDE DEF j
    <3>2. QED
      BY <3>1, EmitKinds
  <2>4. QED
    BY <1>1, <2>1, <2>2, <2>3
<1>3. QED
  BY <1>2 DEF Open, EndsLast

\* Events of which the last ends the run.
LEMMA EmitEnds ==
    ASSUME NEW w \in Work, w.row # None, Open(w.add),
           NEW ks \in {<<"end">>, <<"ask", "end">>}
    PROVE  Closed(Emit(w, ks)) /\ EndsLast(Emit(w, ks))
<1>1. w.add \in Seq(Event) /\ Len(w.add) \in Nat
  BY DEF Work
<1>2. ks \in Seq(Kind) /\ Len(ks) \in {1, 2} /\ ks[Len(ks)] = "end"
      /\ \A i \in 1 .. Len(ks) : ks[i] = "end" => i = Len(ks)
  <2>1. CASE ks = <<"end">>
    BY <2>1 DEF Kind
  <2>2. CASE ks = <<"ask", "end">>
    BY <2>2 DEF Kind
  <2>3. QED
    BY <2>1, <2>2
<1>3. Closed(Emit(w, ks))
  <2>1. Len(Emit(w, ks)) = Len(w.add) + Len(ks) /\ Len(ks) \in 1 .. Len(ks)
    BY <1>2, EmitKinds
  <2>2. QED
    BY <1>2, <2>1, EmitKinds DEF Closed
<1>4. ASSUME NEW i \in DOMAIN Emit(w, ks), Emit(w, ks)[i].kind = "end"
      PROVE  i = Len(Emit(w, ks))
  <2>1. i \in 1 .. Len(w.add) + Len(ks)
    BY <1>2, EmitKinds
  <2>2. CASE i <= Len(w.add)
    <3>1. i \in 1 .. Len(w.add) /\ i \in DOMAIN w.add
      BY <1>1, <2>1, <2>2
    <3>2. QED
      BY <1>2, <1>4, <3>1, EmitKinds DEF Open
  <2>3. CASE i > Len(w.add)
    <3> DEFINE j == i - Len(w.add)
    <3>1. j \in 1 .. Len(ks) /\ i = Len(w.add) + j
      BY <1>1, <1>2, <2>1, <2>3
    <3> HIDE DEF j
    <3>2. ks[j] = "end"
      BY <1>2, <1>4, <3>1, EmitKinds
    <3>3. QED
      BY <1>2, <3>1, <3>2, EmitKinds
  <2>4. QED
    BY <1>1, <2>1, <2>2, <2>3
<1>5. QED
  BY <1>3, <1>4 DEF EndsLast

-----------------------------------------------------------------------------
(* Steps that commit nothing.                                              *)

\* A step of one session that commits nothing is judged by what it then holds.
LEMMA HoldsOn ==
    ASSUME TraceInv, AnswersInv, NEW s \in Sess, NEW v, Goes(s, v), Stored, Shape(v), Current(v)
    PROVE  AnswersInv'
<1>1. work'[s] = v /\ \A r \in Sess \ {s} : work'[r] = work[r]
  BY DEF Goes, TraceInv, TraceTypes
<1>2. run' = run /\ trace' = trace /\ held' = held
  BY DEF Stored
<1>3. Sessions'
  BY <1>1, <1>2 DEF Sessions, AnswersInv, Shape, Current, Untouched, Waiting
<1>4. QED
  BY <1>2, <1>3 DEF AnswersInv, CallsSound, RunSound, EndIsLast, Waiting

\* What a session in the loop holds.
LEMMA InLoop ==
    ASSUME TraceInv, AnswersInv, NEW s \in Sess,
           work[s].pc \in {"loop", "calls", "answer", "decided"}
    PROVE  /\ work[s] \in Work
           /\ work[s].row \in RunRow
           /\ work[s].row # None
           /\ Shape(work[s]) /\ Current(work[s])
           /\ work[s].verdict = None
           /\ work[s].new = <<>>
           /\ Open(work[s].add)
           /\ work[s].starts \/ work[s].does \in Taken
<1>1. Shape(work[s]) /\ Current(work[s])
  BY DEF AnswersInv, Sessions
<1>2. work[s] \in Work /\ work[s].row \in RunRow /\ work[s].row # None
  BY Driver DEF Driving
<1>3. /\ work[s].verdict = None
      /\ Open(work[s].add)
      /\ work[s].starts \/ work[s].does \in Taken
  BY <1>1 DEF Shape, Driving
<1>4. None # "WAITING"
  BY NoneAssumption DEF RunState
<1>5. work[s].new = <<>>
  BY <1>1, <1>3, <1>4 DEF Shape
<1>6. QED
  BY <1>1, <1>2, <1>3, <1>5

\* Moving on in the loop changes nothing a session relies on.
LEMMA StaysCurrent ==
    ASSUME NEW w, w.row # None, Current(w),
           NEW v, v.row.seq = w.row.seq, v.does = w.does, v.e = w.e,
           v.pc # "found", v.pc = "commit" => v.verdict # None
    PROVE  Current(v)
BY DEF Current

LEMMA ClosesShape ==
    ASSUME TraceInv, AnswersInv, NEW s \in Sess, work[s].pc \in {"loop", "answer"}, Stored,
           NEW w \in Work, w.row # None, w.row.seq = work[s].row.seq,
           w.add = work[s].add, w.starts = work[s].starts, w.does = work[s].does,
           w.e = work[s].e, w.ran = work[s].ran, w.new = work[s].new,
           NEW ks \in {<<"end">>, <<"ask", "end">>},
           NEW verdict \in {"COMPLETED", "FAILED"}, Closes(s, w, ks, verdict)
    PROVE  AnswersInv'
<1> DEFINE v == [w EXCEPT !.pc = "closing", !.add = Emit(w, ks), !.verdict = verdict,
                          !.locks = @ \cup {"run"}]
<1>1. Goes(s, v)
  BY DEF Closes
<1>2. /\ v.pc = "closing" /\ v.add = Emit(w, ks) /\ v.verdict = verdict
      /\ v.row = w.row /\ v.starts = w.starts /\ v.does = w.does /\ v.e = w.e
      /\ v.ran = w.ran /\ v.new = w.new
  BY DEF Work
<1> HIDE DEF v
<1>3. Closed(v.add) /\ EndsLast(v.add)
  BY <1>2, InLoop, EmitEnds
<1>4. verdict # None
  BY NoneAssumption DEF RunState
<1>5. Shape(v)
  BY <1>2, <1>3, <1>4, InLoop DEF Shape, Driving
<1>6. Current(v)
  BY <1>2, InLoop, StaysCurrent
<1>7. QED
  BY <1>1, <1>5, <1>6, HoldsOn

LEMMA ModelFailsCalls ==
    ASSUME TraceInv, AnswersInv, NEW s \in Sess, ModelFails(s)
    PROVE  AnswersInv'
<1> DEFINE w == work[s]
           u == [w EXCEPT !.row.iter = @ + 1]
<1>1. w.pc = "loop" /\ Stored
  BY DEF ModelFails, Runs
<1>2. w \in Work /\ w.row \in RunRow /\ w.row # None
  BY <1>1, InLoop
<1>3. u \in Work /\ u.row # None /\ u.row.seq = w.row.seq /\ u.add = w.add /\ u.starts = w.starts
  BY <1>2, IterCounted, NoneAssumption
<1>4. u.does = w.does /\ u.e = w.e /\ u.ran = w.ran /\ u.new = w.new
  BY <1>2 DEF Work
<1>5. Closes(s, w, <<"end">>, "FAILED") \/ Closes(s, u, <<"ask", "end">>, "FAILED")
  BY DEF ModelFails
<1> HIDE DEF u
<1>6. CASE Closes(s, w, <<"end">>, "FAILED")
  BY <1>1, <1>2, <1>6, ClosesShape
<1>7. CASE Closes(s, u, <<"ask", "end">>, "FAILED")
  BY <1>1, <1>3, <1>4, <1>7, ClosesShape
<1>8. QED
  BY <1>5, <1>6, <1>7

LEMMA AnswerCalls ==
    ASSUME TraceInv, AnswersInv, NEW s \in Sess, Answer(s) \/ RunOut(s)
    PROVE  AnswersInv'
<1>1. work[s].pc \in {"loop", "answer"} /\ Stored
  BY DEF Answer, RunOut, Runs
<1>2. work[s] \in Work /\ work[s].row # None
  BY <1>1, InLoop
<1>3. \E x \in {"COMPLETED", "FAILED"} : Closes(s, work[s], <<"end">>, x)
  BY DEF Answer, RunOut
<1>4. QED
  BY <1>1, <1>2, <1>3, ClosesShape

\* A step inside the loop that adds events and decides nothing.
LEMMA LoopsOn ==
    ASSUME TraceInv, AnswersInv, NEW s \in Sess,
           work[s].pc \in {"loop", "calls", "answer", "decided"}, Stored,
           NEW ks \in Seq(Kind), \A i \in DOMAIN ks : ks[i] # "end",
           NEW v, Goes(s, v), v.pc \in {"loop", "calls", "answer"},
           v.add \in {work[s].add, Emit(work[s], ks)},
           v.row.seq = work[s].row.seq, v.starts = work[s].starts, v.does = work[s].does,
           v.e = work[s].e, v.new = work[s].new, v.verdict = work[s].verdict,
           v.ran => work[s].ran \/ work[s].pc = "decided"
    PROVE  AnswersInv'
<1>1. Open(v.add) /\ EndsLast(v.add)
  BY InLoop, EmitOpen DEF Open, EndsLast
<1>2. None # "WAITING" /\ None \notin {"COMPLETED", "FAILED"}
  BY NoneAssumption DEF RunState
<1>3. v.ran => v.does = "APPROVED"
  BY InLoop DEF Shape
<1>4. Shape(v)
  BY <1>1, <1>2, <1>3, InLoop DEF Shape, Driving
<1>5. Current(v)
  BY InLoop, StaysCurrent
<1>6. QED
  BY <1>4, <1>5, HoldsOn

\* The kinds that do not end a run.
LEMMA KindsOpen ==
    \A ks \in {<<"step">>, <<"ran">>, <<"ask", "step">>, <<"step", "step">>, <<"step", "ran">>} :
       ks \in Seq(Kind) /\ \A i \in DOMAIN ks : ks[i] # "end"
<1> SUFFICES ASSUME NEW ks \in {<<"step">>, <<"ran">>, <<"ask", "step">>, <<"step", "step">>,
                                <<"step", "ran">>}
             PROVE  \A i \in DOMAIN ks : ks[i] # "end"
  BY KindsTyped
<1>1. CASE ks = <<"step">>
  BY <1>1
<1>2. CASE ks = <<"ran">>
  BY <1>2
<1>3. CASE ks = <<"ask", "step">>
  BY <1>3
<1>4. CASE ks = <<"step", "step">>
  BY <1>4
<1>5. CASE ks = <<"step", "ran">>
  BY <1>5
<1>6. QED
  BY <1>1, <1>2, <1>3, <1>4, <1>5

LEMMA AskCalls ==
    ASSUME TraceInv, AnswersInv, NEW s \in Sess, NEW c \in 0 .. MaxCalls, Ask(s, c)
    PROVE  AnswersInv'
<1> DEFINE w == work[s]
           u == [w EXCEPT !.row.iter = @ + 1]
           v == [u EXCEPT !.left = c, !.pc = IF c = 0 THEN "answer" ELSE "calls",
                          !.add = Emit(w, <<"ask", "step">>), !.locks = @ \cup {"run"}]
<1>1. w.pc = "loop" /\ Stored /\ Goes(s, v)
  BY DEF Ask, Runs
<1>2. w \in Work /\ w.row \in RunRow
  BY <1>1, InLoop
<1>3. u \in Work /\ u.row.seq = w.row.seq /\ u.starts = w.starts
  BY <1>2, IterCounted
<1>4. u.does = w.does /\ u.e = w.e /\ u.ran = w.ran /\ u.new = w.new /\ u.verdict = w.verdict
  BY <1>2 DEF Work
<1> HIDE DEF u
<1>5. /\ v.pc \in {"answer", "calls"} /\ v.add = Emit(w, <<"ask", "step">>) /\ v.row = u.row
      /\ v.starts = u.starts /\ v.does = u.does /\ v.e = u.e /\ v.ran = u.ran
      /\ v.new = u.new /\ v.verdict = u.verdict
  BY <1>3 DEF Work
<1> HIDE DEF v
<1>6. QED
  BY <1>1, <1>3, <1>4, <1>5, LoopsOn, KindsOpen

LEMMA MadeCalls ==
    ASSUME TraceInv, AnswersInv, NEW s \in Sess,
           CallUnknown(s) \/ \E t \in Tool : CallDenied(s, t) \/ CallRuns(s, t)
    PROVE  AnswersInv'
<1> DEFINE w == work[s]
<1>1. w.pc = "calls" /\ Stored
  BY DEF CallUnknown, CallDenied, CallRuns, Calling
<1>2. PICK ks \in {<<"step">>, <<"step", "step">>, <<"step", "ran">>} :
         Goes(s, NextCall([w EXCEPT !.add = Emit(w, ks)]))
  BY DEF CallUnknown, CallDenied, CallRuns
<1> DEFINE u == [w EXCEPT !.add = Emit(w, ks)]
           v == NextCall(u)
<1>3. w \in Work
  BY <1>1, InLoop
<1>4. /\ u.add = Emit(w, ks) /\ u.row = w.row /\ u.starts = w.starts /\ u.does = w.does
      /\ u.e = w.e /\ u.ran = w.ran /\ u.new = w.new /\ u.verdict = w.verdict
  BY <1>3 DEF Work
<1>5. /\ v.pc \in {"loop", "calls"} /\ v.add = u.add /\ v.row = u.row /\ v.starts = u.starts
      /\ v.does = u.does /\ v.e = u.e /\ v.ran = u.ran /\ v.new = u.new
      /\ v.verdict = u.verdict
  BY <1>3 DEF NextCall, Work
<1>6. Goes(s, v)
  BY <1>2
<1> HIDE DEF u, v
<1>7. QED
  BY <1>1, <1>4, <1>5, <1>6, LoopsOn, KindsOpen

LEMMA CallHeldCalls ==
    ASSUME TraceInv, AnswersInv, NEW s \in Sess, NEW t \in Tool, CallHeld(s, t)
    PROVE  AnswersInv'
<1> DEFINE w == work[s]
           call == [asked |-> t, st |-> "PENDING", ran |-> 0]
           u == [w EXCEPT !.pc = "commit", !.left = 0, !.verdict = "WAITING",
                          !.add = Emit(w, <<"step", "step">>)]
           v == [u EXCEPT !.new = Append(@, call)]
<1>1. w.pc = "calls" /\ Stored /\ Goes(s, v)
  BY DEF CallHeld, Calling, Suspended
<1>2. w \in Work /\ w.new = <<>>
  BY <1>1, InLoop
<1>3. /\ u.pc = "commit" /\ u.verdict = "WAITING" /\ u.add = Emit(w, <<"step", "step">>)
      /\ u.row = w.row /\ u.starts = w.starts /\ u.does = w.does /\ u.e = w.e
      /\ u.ran = w.ran /\ u.new = w.new
  BY <1>2 DEF Work
<1>4. /\ v.pc = u.pc /\ v.verdict = u.verdict /\ v.add = u.add /\ v.row = u.row
      /\ v.starts = u.starts /\ v.does = u.does /\ v.e = u.e /\ v.ran = u.ran
      /\ v.new = Append(u.new, call)
  BY <1>2 DEF Work
<1> HIDE DEF u, v
<1>5. v.new = <<call>>
  BY <1>2, <1>3, <1>4
<1>6. Len(v.new) = 1 /\ v.new[1].st = "PENDING" /\ v.new[1].ran = 0
  BY <1>5
<1>7. Open(v.add) /\ EndsLast(v.add)
  BY <1>1, <1>3, <1>4, InLoop, EmitOpen, KindsOpen
<1>8. "WAITING" # None
  BY NoneAssumption DEF RunState
<1>9. Shape(v)
  BY <1>1, <1>3, <1>4, <1>6, <1>7, <1>8, InLoop DEF Shape, Driving
<1>10. Current(v)
  BY <1>1, <1>3, <1>4, <1>8, InLoop, StaysCurrent
<1>11. QED
  BY <1>1, <1>9, <1>10, HoldsOn

LEMMA SettleCalls ==
    ASSUME TraceInv, AnswersInv, NEW s \in Sess, Settle(s) \/ Disconnect(s)
    PROVE  AnswersInv'
<1> DEFINE w == work[s]
<1>1. w.pc \in Driving /\ Stored
  BY DEF Settle, Disconnect, Driving
<1>2. w \in Work /\ w.row # None /\ Shape(w) /\ Current(w)
  BY <1>1, Driver DEF AnswersInv, Sessions
<1>3. CASE Settle(s)
  <2> DEFINE v == [w EXCEPT !.pc = "commit"]
  <2>1. Goes(s, v) /\ w.pc = "closing"
    BY <1>3 DEF Settle
  <2>2. /\ v.pc = "commit" /\ v.verdict = w.verdict /\ v.add = w.add /\ v.row = w.row
        /\ v.starts = w.starts /\ v.does = w.does /\ v.e = w.e /\ v.ran = w.ran
        /\ v.new = w.new
    BY <1>2 DEF Work
  <2> HIDE DEF v
  <2>3. w.verdict # None
    BY <2>1, <1>2 DEF Shape
  <2>4. Shape(v)
    BY <1>2, <2>1, <2>2, <2>3 DEF Shape, Driving
  <2>5. Current(v)
    BY <1>2, <2>2, <2>3, StaysCurrent
  <2>6. QED
    BY <1>1, <2>1, <2>4, <2>5, HoldsOn
<1>4. CASE Disconnect(s)
  <2> DEFINE v == [w EXCEPT !.pc = "commit", !.verdict = "RUNNING"]
  <2>1. Goes(s, v) /\ w.starts /\ w.pc \in {"loop", "calls", "answer", "closing"}
    BY <1>4 DEF Disconnect
  <2>2. /\ v.pc = "commit" /\ v.verdict = "RUNNING" /\ v.add = w.add /\ v.row = w.row
        /\ v.starts = w.starts /\ v.does = w.does /\ v.e = w.e /\ v.ran = w.ran
        /\ v.new = w.new
    BY <1>2 DEF Work
  <2> HIDE DEF v
  <2>3. "RUNNING" # None /\ w.new = <<>>
    BY <1>2, <2>1, NoneAssumption DEF RunState, Shape
  <2>4. Shape(v)
    BY <1>2, <2>1, <2>2, <2>3 DEF Shape, Driving
  <2>5. Current(v)
    BY <1>2, <2>2, <2>3, StaysCurrent
  <2>6. QED
    BY <1>1, <2>1, <2>4, <2>5, HoldsOn
<1>5. QED
  BY <1>3, <1>4

LEMMA ApplyCalls ==
    ASSUME TraceInv, AnswersInv, NEW s \in Sess, Apply(s)
    PROVE  AnswersInv'
<1> DEFINE w == work[s]
           v == [w EXCEPT !.pc = "loop", !.ran = TRUE, !.add = Emit(w, <<"ran">>)]
           u == [w EXCEPT !.pc = "loop"]
<1>1. w.pc = "decided" /\ Stored
  BY DEF Apply
<1>2. w \in Work
  BY <1>1, InLoop
<1>3. Goes(s, v) \/ Goes(s, u)
  BY DEF Apply
<1>4. /\ v.pc = "loop" /\ v.add = Emit(w, <<"ran">>) /\ v.row = w.row /\ v.starts = w.starts
      /\ v.does = w.does /\ v.e = w.e /\ v.new = w.new /\ v.verdict = w.verdict
  BY <1>2 DEF Work
<1>5. /\ u.pc = "loop" /\ u.add = w.add /\ u.row = w.row /\ u.starts = w.starts
      /\ u.does = w.does /\ u.e = w.e /\ u.new = w.new /\ u.verdict = w.verdict
  BY <1>2 DEF Work
<1> HIDE DEF u, v
<1>6. CASE Goes(s, v)
  BY <1>1, <1>4, <1>6, LoopsOn, KindsOpen
<1>7. CASE Goes(s, u)
  BY <1>1, <1>5, <1>7, LoopsOn, KindsOpen
<1>8. QED
  BY <1>3, <1>6, <1>7

LEMMA QuitsCalls ==
    ASSUME TraceInv, AnswersInv, NEW s \in Sess, Abort(s) \/ Conflict(s) \/ DetectDeadlock(s)
    PROVE  AnswersInv'
BY IdleFits, HoldsOn DEF Abort, Conflict, DetectDeadlock

\* What a session holds before it decides, and what a cancellation holds.
LEMMA NoneHeld ==
    ASSUME TraceInv, AnswersInv, NEW s \in Sess,
           work[s].pc \in {"read", "found", "reads", "cancel"}
    PROVE  /\ work[s] \in Work
           /\ work[s].add = <<>>
           /\ ~work[s].starts
           /\ run # None
           /\ Shape(work[s]) /\ Current(work[s])
           /\ work[s].verdict = None
           /\ work[s].new = <<>>
           /\ ~work[s].ran
           /\ work[s].does \notin Taken
<1>1. Shape(work[s]) /\ Current(work[s])
  BY DEF AnswersInv, Sessions
<1>2. work[s] \in Work /\ work[s].add = <<>> /\ ~work[s].starts /\ run # None
  BY NotAlone DEF Driving
<1>3. work[s].verdict = None /\ work[s].does \notin Taken
  BY <1>1 DEF Shape, Driving
<1>4. ~work[s].ran
  BY <1>1, <1>3 DEF Shape, Taken
<1>5. None # "WAITING"
  BY NoneAssumption DEF RunState
<1>6. work[s].new = <<>>
  BY <1>1, <1>3, <1>5 DEF Shape
<1>7. QED
  BY <1>1, <1>2, <1>3, <1>4, <1>6

LEMMA BeginsCalls ==
    ASSUME TraceInv, AnswersInv, NEW s \in Sess, ReadRun(s) \/ ReadToCancel(s)
    PROVE  AnswersInv'
<1> DEFINE u == [NoWork EXCEPT !.pc = "read", !.row = run]
           v == [NoWork EXCEPT !.pc = "reads"]
<1>1. Stored /\ run # None
  BY DEF ReadRun, ReadToCancel
<1>2. (Goes(s, u) /\ run.st = "WAITING") \/ Goes(s, v)
  BY DEF ReadRun, ReadToCancel
<1>3. /\ u.pc = "read" /\ u.row = run /\ u.add = <<>> /\ ~u.ran /\ u.does = "none"
      /\ u.verdict = None /\ u.new = <<>>
      /\ v.pc = "reads" /\ v.row = None /\ v.add = <<>> /\ ~v.ran /\ v.does = "none"
      /\ v.verdict = None /\ v.new = <<>>
  BY DEF NoWork
<1> HIDE DEF u, v
<1>4. None # "WAITING" /\ None \notin {"COMPLETED", "FAILED"}
  BY NoneAssumption DEF RunState
<1>5. Shape(u) /\ Shape(v)
  BY <1>3, <1>4 DEF Shape, Taken, Driving, Open, EndsLast
<1>6. run.st = "WAITING" => Current(u)
  BY <1>1, <1>3 DEF Current, Taken, AnswersInv, RunSound
<1>7. Current(v)
  BY <1>3 DEF Current, Taken
<1>8. QED
  BY <1>1, <1>2, <1>5, <1>6, <1>7, HoldsOn

\* pending_for_run finds the one call that waits, or none.
LEMMA PendingFound ==
    ASSUME TraceTypes
    PROVE  /\ PendingCall = 0 => \A e \in DOMAIN held : ~Waiting(e)
           /\ PendingCall # 0 => PendingCall \in DOMAIN held /\ Waiting(PendingCall)
<1> DEFINE P == {i \in DOMAIN held : held[i].st = "PENDING"}
<1>1. PendingCall = IF P = {} THEN 0 ELSE CHOOSE i \in P : TRUE
  BY DEF PendingCall
<1>2. \A e \in DOMAIN held : Waiting(e) => e \in P
  BY DEF Waiting
<1>3. \A e \in P : e \in DOMAIN held /\ Waiting(e)
  BY DEF Waiting
<1>4. 0 \notin P
  BY DEF TraceTypes
<1> HIDE DEF P
<1>5. CASE P = {}
  BY <1>1, <1>2, <1>5
<1>6. CASE P # {}
  BY <1>1, <1>3, <1>4, <1>6
<1>7. QED
  BY <1>5, <1>6

LEMMA FindCallCalls ==
    ASSUME TraceInv, AnswersInv, NEW s \in Sess, FindCall(s)
    PROVE  AnswersInv'
<1> DEFINE w == work[s]
           u == [w EXCEPT !.pc = "found", !.e = PendingCall]
           v == [w EXCEPT !.pc = "commit", !.add = Emit(w, <<"end">>)]
<1>1. w.pc = "read" /\ Stored
  BY DEF FindCall
<1>2. w \in Work /\ w.row # None /\ TraceTypes
  BY <1>1 DEF TraceInv, TraceTypes, Checkpoints, Sound
<1>3. \/ Goes(s, u) /\ PendingCall # 0
      \/ Goes(s, NoWork)
      \/ Goes(s, v) /\ PendingCall = 0
  BY DEF FindCall
<1>4. None # "WAITING" /\ None \notin {"COMPLETED", "FAILED"}
  BY NoneAssumption DEF RunState
<1>5. CASE Goes(s, u) /\ PendingCall # 0
  <2>1. /\ u.pc = "found" /\ u.add = w.add /\ u.row = w.row /\ u.starts = w.starts
        /\ u.does = w.does /\ u.e = PendingCall /\ u.ran = w.ran /\ u.new = w.new
        /\ u.verdict = w.verdict
    BY <1>2 DEF Work
  <2> HIDE DEF u
  <2>2. Shape(u)
    BY <1>1, <1>4, <2>1, NoneHeld DEF Shape, Driving, Open, EndsLast
  <2>3. PendingCall \in DOMAIN held /\ Waiting(PendingCall)
    BY <1>2, <1>5, PendingFound
  <2>4. Untouched(u.e)
    BY <2>1, <2>3 DEF Untouched, AnswersInv, CallsSound, Waiting
  <2>5. Current(u)
    BY <1>1, <2>1, <2>3, <2>4, NoneHeld DEF Current
  <2>6. QED
    BY <1>1, <1>5, <2>2, <2>5, HoldsOn
<1>6. CASE Goes(s, v) /\ PendingCall = 0
  <2>1. /\ v.pc = "commit" /\ v.add = Emit(w, <<"end">>) /\ v.row = w.row
        /\ v.starts = w.starts /\ v.does = w.does /\ v.e = w.e /\ v.ran = w.ran
        /\ v.new = w.new /\ v.verdict = w.verdict
    BY <1>2 DEF Work
  <2> HIDE DEF v
  <2>2. Closed(v.add) /\ EndsLast(v.add)
    BY <1>1, <1>2, <2>1, NoneHeld, EmitEnds DEF Open
  <2>3. w.does = "none"
    BY <1>1, <1>2, NoneHeld DEF Shape, Taken, Work
  <2>4. Shape(v)
    BY <1>1, <1>4, <2>1, <2>2, <2>3, NoneHeld DEF Shape, Driving, Taken
  <2>5. run.st # "WAITING"
    BY <1>1, <1>2, <1>6, PendingFound, NoneHeld DEF AnswersInv, RunSound
  <2>6. Current(v)
    BY <1>1, <2>1, <2>3, <2>5, NoneHeld DEF Current
  <2>7. QED
    BY <1>1, <1>6, <2>4, <2>6, HoldsOn
<1>7. QED
  BY <1>1, <1>3, <1>5, <1>6, IdleFits, HoldsOn

LEMMA DecideCalls ==
    ASSUME TraceInv, AnswersInv, NEW s \in Sess, NEW d \in Taken, Decide(s, d)
    PROVE  AnswersInv'
<1> DEFINE w == work[s]
           v == [w EXCEPT !.does = d, !.locks = {"call"},
                          !.pc = IF d = "APPROVED" THEN "decided" ELSE "loop",
                          !.add = Emit(w, <<"step">>)]
<1>1. w.pc = "found" /\ Stored /\ Admitted(s, w.row.seq) /\ Goes(s, v)
  BY DEF Decide
<1>2. w \in Work /\ w.row # None /\ w.row.seq \in 1 .. Len(trace) + 1
  BY <1>1 DEF TraceInv, TraceTypes, Checkpoints, Sound
<1>3. w.row.seq = Len(trace) + 1
  BY <1>1, <1>2, AdmittedIsNext
<1>4. /\ v.pc = (IF d = "APPROVED" THEN "decided" ELSE "loop")
      /\ v.add = Emit(w, <<"step">>) /\ v.row = w.row /\ v.starts = w.starts
      /\ v.does = d /\ v.e = w.e /\ v.ran = w.ran /\ v.new = w.new
      /\ v.verdict = w.verdict
  BY <1>2 DEF Work
<1> HIDE DEF v
<1>5. Open(v.add) /\ EndsLast(v.add)
  BY <1>1, <1>2, <1>4, NoneHeld, EmitOpen, KindsOpen DEF Open
<1>6. None # "WAITING" /\ None \notin {"COMPLETED", "FAILED"}
  BY NoneAssumption DEF RunState
<1>7. Shape(v)
  BY <1>1, <1>4, <1>5, <1>6, NoneHeld DEF Shape, Driving, Taken
<1>8. Untouched(v.e) /\ v.e \in DOMAIN held
  BY <1>1, <1>2, <1>3, <1>4, NoneHeld DEF Current, Untouched
<1>9. Current(v)
  BY <1>1, <1>2, <1>4, <1>8, NoneHeld DEF Current
<1>10. QED
  BY <1>1, <1>7, <1>9, HoldsOn

LEMMA CancelCalls ==
    ASSUME TraceInv, AnswersInv, NEW s \in Sess, Cancel(s) \/ \E l \in {"run", "call"} : Lock(s, l)
    PROVE  AnswersInv'
<1> DEFINE w == work[s]
<1>1. w.pc \in {"reads", "cancel"} /\ Stored
  BY DEF Cancel, Lock
<1>2. w \in Work /\ TraceTypes
  BY <1>1, NoneHeld DEF TraceInv
<1>3. None # "WAITING" /\ None \notin {"COMPLETED", "FAILED"}
  BY NoneAssumption DEF RunState
<1>4. CASE Cancel(s)
  <2> DEFINE v == [w EXCEPT !.pc = "cancel", !.e = PendingCall,
                            !.does = IF PendingCall = 0 THEN "none" ELSE "EXPIRED"]
  <2>1. Goes(s, v)
    BY <1>4 DEF Cancel
  <2>2. /\ v.pc = "cancel" /\ v.add = w.add /\ v.row = w.row /\ v.starts = w.starts
        /\ v.does = (IF PendingCall = 0 THEN "none" ELSE "EXPIRED") /\ v.e = PendingCall
        /\ v.ran = w.ran /\ v.new = w.new /\ v.verdict = w.verdict
    BY <1>2 DEF Work
  <2> HIDE DEF v
  <2>3. v.does \notin Taken
    BY <2>2 DEF Taken
  <2>4. Shape(v)
    BY <1>1, <1>3, <2>2, <2>3, NoneHeld DEF Shape, Driving, Open, EndsLast
  <2>5. v.does # "none" => v.e \in DOMAIN held
    BY <1>2, <2>2, PendingFound
  <2>6. Current(v)
    BY <1>1, <2>2, <2>3, <2>5, NoneHeld DEF Current
  <2>7. QED
    BY <1>1, <2>1, <2>4, <2>6, HoldsOn
<1>5. ASSUME NEW l \in {"run", "call"}, Lock(s, l)
      PROVE  AnswersInv'
  <2> DEFINE v == [w EXCEPT !.locks = w.locks \cup {l}]
  <2>1. Goes(s, v) /\ w.pc = "cancel"
    BY <1>5 DEF Lock
  <2>2. /\ v.pc = w.pc /\ v.add = w.add /\ v.row = w.row /\ v.starts = w.starts
        /\ v.does = w.does /\ v.e = w.e /\ v.ran = w.ran /\ v.new = w.new
        /\ v.verdict = w.verdict
    BY <1>2 DEF Work
  <2> HIDE DEF v
  <2>3. Shape(v) /\ Current(v)
    BY <1>1, <2>1, <2>2, NoneHeld DEF Shape, Current
  <2>4. QED
    BY <1>1, <2>1, <2>3, HoldsOn
<1>6. QED
  BY <1>4, <1>5

LEMMA StartCalls ==
    ASSUME TraceInv, AnswersInv, NEW s \in Sess, NEW m \in BOOLEAN, Start(s, m)
    PROVE  AnswersInv'
<1>1. PICK found \in 0 .. 2 :
         Goes(s, [NoWork EXCEPT !.pc = "loop", !.row = Spec0(m),
                     !.add = [i \in 1 .. 1 + found |-> [seq |-> i, kind |-> "step"]],
                     !.starts = TRUE, !.locks = {"run"}])
  <2>1. Retrieved \subseteq 0 .. 2
    BY DEF Retrieved
  <2>2. QED
    BY <2>1 DEF Start
<1> DEFINE add == [i \in 1 .. 1 + found |-> [seq |-> i, kind |-> "step"]]
           v == [NoWork EXCEPT !.pc = "loop", !.row = Spec0(m), !.add = add,
                               !.starts = TRUE, !.locks = {"run"}]
<1>2. Goes(s, v) /\ Stored /\ trace = <<>>
  BY <1>1 DEF Start, TraceInv, Starter
<1>3. \A i \in DOMAIN add : add[i].kind = "step"
  OBVIOUS
<1> HIDE DEF add
<1>4. /\ v.pc = "loop" /\ v.add = add /\ v.starts /\ v.does = "none" /\ ~v.ran
      /\ v.new = <<>> /\ v.verdict = None
  BY DEF NoWork
<1> HIDE DEF v
<1>5. None # "WAITING" /\ None \notin {"COMPLETED", "FAILED"}
  BY NoneAssumption DEF RunState
<1>6. Open(v.add) /\ EndsLast(v.add)
  BY <1>3, <1>4 DEF Open, EndsLast
<1>7. Shape(v)
  BY <1>4, <1>5, <1>6 DEF Shape, Taken, Driving
<1>8. Current(v)
  BY <1>2, <1>4 DEF Current, Taken, Open
<1>9. QED
  BY <1>2, <1>7, <1>8, HoldsOn

-----------------------------------------------------------------------------
(* Commits.                                                                *)

LEMMA Concats ==
    ASSUME NEW S, NEW a \in Seq(S), NEW b \in Seq(S)
    PROVE  /\ Len(a \o b) = Len(a) + Len(b)
           /\ DOMAIN (a \o b) = 1 .. Len(a) + Len(b)
           /\ \A i \in 1 .. Len(a) : (a \o b)[i] = a[i]
           /\ \A i \in 1 .. Len(b) : (a \o b)[Len(a) + i] = b[i]
OBVIOUS

\* The trace after a commit: an open one is ended by what the session adds, if at all.
LEMMA TraceEnds ==
    ASSUME NEW a \in Seq(Event), NEW b \in Seq(Event), Open(a)
    PROVE  /\ Open(b) => Open(a \o b)
           /\ EndsLast(b) => EndsLast(a \o b)
           /\ Closed(b) /\ b # <<>> => Closed(a \o b)
<1>1. Len(a) \in Nat /\ Len(b) \in Nat
  OBVIOUS
<1>2. ASSUME NEW i \in DOMAIN (a \o b), (a \o b)[i].kind = "end"
      PROVE  \E j \in 1 .. Len(b) : i = Len(a) + j /\ b[j].kind = "end"
  <2>1. i \in 1 .. Len(a) + Len(b)
    BY Concats
  <2>2. CASE i <= Len(a)
    <3>1. i \in 1 .. Len(a) /\ i \in DOMAIN a
      BY <1>1, <2>1, <2>2
    <3>2. (a \o b)[i] = a[i]
      BY <3>1, Concats
    <3>3. QED
      BY <1>2, <3>1, <3>2 DEF Open
  <2>3. CASE i > Len(a)
    <3> DEFINE j == i - Len(a)
    <3>1. j \in 1 .. Len(b) /\ i = Len(a) + j
      BY <1>1, <2>1, <2>3
    <3> HIDE DEF j
    <3>2. (a \o b)[i] = b[j]
      BY <3>1, Concats
    <3>3. QED
      BY <1>2, <3>1, <3>2
  <2>4. QED
    BY <1>1, <2>1, <2>2, <2>3
<1>3. DOMAIN b = 1 .. Len(b) /\ Len(a \o b) = Len(a) + Len(b)
  BY Concats
<1>4. Open(b) => Open(a \o b)
  BY <1>2, <1>3 DEF Open
<1>5. EndsLast(b) => EndsLast(a \o b)
  BY <1>2, <1>3 DEF EndsLast
<1>6. ASSUME Closed(b), b # <<>>
      PROVE  Closed(a \o b)
  <2>1. Len(b) \in 1 .. Len(b)
    BY <1>1, <1>6
  <2>2. (a \o b)[Len(a) + Len(b)] = b[Len(b)]
    BY <2>1, Concats
  <2>3. QED
    BY <1>3, <1>6, <2>2 DEF Closed
<1>7. QED
  BY <1>4, <1>5, <1>6

\* The rows of the calls after a commit: the decided one, and those that are new.
LEMMA RowsAfter ==
    ASSUME TraceTypes, NEW s \in Sess, Commit(s), Current(work[s])
    PROVE  /\ Len(held) \in Nat
           /\ Len(work[s].new) \in Nat
           /\ DOMAIN held = 1 .. Len(held)
           /\ DOMAIN held' = 1 .. Len(held) + Len(work[s].new)
           /\ \A f \in DOMAIN held : f # work[s].e \/ work[s].does = "none" => held'[f] = held[f]
           /\ work[s].does # "none" =>
                 /\ held'[work[s].e].st = work[s].does
                 /\ held'[work[s].e].ran = held[work[s].e].ran + (IF work[s].ran THEN 1 ELSE 0)
           /\ \A i \in 1 .. Len(work[s].new) : held'[Len(held) + i] = work[s].new[i]
<1> DEFINE w == work[s]
           D == Decided(w)
           more == IF w.ran THEN 1 ELSE 0
<1>1. w \in Work /\ w.new \in Seq(Call) /\ held \in Seq(Call)
  BY DEF TraceTypes, Work
<1>2. held' = D \o w.new
  BY DEF Commit
<1>3. w.does # "none" => w.e \in DOMAIN held
  BY DEF Current
<1>4. /\ D \in Seq(Call) /\ Len(D) = Len(held)
      /\ \A f \in DOMAIN held : f # w.e \/ w.does = "none" => D[f] = held[f]
      /\ w.does # "none" => D[w.e].st = w.does /\ D[w.e].ran = held[w.e].ran + more
  <2>1. CASE w.does = "none"
    BY <1>1, <2>1 DEF Decided
  <2>2. CASE w.does # "none"
    <3>1. D = [held EXCEPT ![w.e].st = w.does, ![w.e].ran = @ + more]
      BY <2>2, Zenon DEF Decided
    <3>2. held[w.e] \in Call /\ held[w.e].ran \in Nat /\ w.does \in {"APPROVED", "REJECTED", "EXPIRED"}
      <4>1. held[w.e] \in Call
        BY <1>1, <1>3, <2>2
      <4>2. held[w.e].ran \in Nat
        BY <4>1 DEF Call
      <4>3. w.does \in {"APPROVED", "REJECTED", "EXPIRED"}
        BY <1>1, <2>2 DEF Work
      <4>4. QED
        BY <4>1, <4>2, <4>3
    <3>3. held[w.e].ran + more \in Nat
      BY <3>2
    <3> HIDE DEF more
    <3> DEFINE n == held[w.e].ran + more
               row == [held[w.e] EXCEPT !.st = w.does, !.ran = n]
    <3>4. D = [held EXCEPT ![w.e] = row]
      BY <3>1
    <3> HIDE DEF D
    <3>5. row \in Call /\ row.st = w.does /\ row.ran = n
      BY <3>2, <3>3 DEF Call
    <3> HIDE DEF row, n
    <3>6. D \in Seq(Call) /\ Len(D) = Len(held) /\ D[w.e] = row
          /\ \A f \in DOMAIN held : f # w.e => D[f] = held[f]
      BY <1>1, <1>3, <2>2, <3>4, <3>5
    <3>7. QED
      BY <2>2, <3>5, <3>6 DEF n
  <2>3. QED
    BY <2>1, <2>2
<1> HIDE DEF D, more
<1>5. /\ DOMAIN held' = 1 .. Len(held) + Len(w.new)
      /\ \A f \in 1 .. Len(held) : held'[f] = D[f]
      /\ \A i \in 1 .. Len(w.new) : held'[Len(held) + i] = w.new[i]
  <2>1. /\ DOMAIN (D \o w.new) = 1 .. Len(D) + Len(w.new)
        /\ \A f \in 1 .. Len(D) : (D \o w.new)[f] = D[f]
        /\ \A i \in 1 .. Len(w.new) : (D \o w.new)[Len(D) + i] = w.new[i]
    <3>1. ASSUME NEW a \in Seq(Call), NEW b \in Seq(Call)
          PROVE  /\ DOMAIN (a \o b) = 1 .. Len(a) + Len(b)
                 /\ \A i \in 1 .. Len(a) : (a \o b)[i] = a[i]
                 /\ \A i \in 1 .. Len(b) : (a \o b)[Len(a) + i] = b[i]
      BY <3>1
    <3>2. D \in Seq(Call) /\ w.new \in Seq(Call)
      BY <1>1, <1>4
    <3>3. QED
      BY <3>1, <3>2, Zenon
  <2>2. QED
    BY <1>2, <1>4, <2>1
<1>6. DOMAIN held = 1 .. Len(held) /\ Len(held) \in Nat /\ Len(w.new) \in Nat
  BY <1>1
<1>7. QED
  BY <1>3, <1>4, <1>5, <1>6 DEF more

\* A cancellation takes away the call that waits, and the run with it.
LEMMA CancelledCalls ==
    ASSUME TraceInv, AnswersInv, NEW s \in Sess, Commit(s), work[s].pc = "cancel"
    PROVE  AnswersInv'
<1> DEFINE w == work[s]
<1>1. /\ w \in Work /\ w.add = <<>> /\ w.new = <<>> /\ ~w.ran /\ run # None /\ run \in RunRow
      /\ Shape(w) /\ Current(w) /\ w.does \in {"none", "EXPIRED"} /\ TraceTypes
  BY NoneHeld DEF Taken, Work, TraceInv, TraceTypes
<1>2. Goes(s, NoWork) /\ trace' = trace \o w.add /\ run' = [run EXCEPT !.st = "CANCELLED"]
  BY DEF Commit
<1>3. trace' = trace
  BY <1>1, <1>2, ConcatEmptySeq DEF TraceTypes
<1>4. run'.st = "CANCELLED" /\ run' \in RunRow /\ run' # None
  BY <1>1, <1>2, NoneAssumption DEF RunRow, RunState
<1>5. DOMAIN held' = DOMAIN held
  BY <1>1, RowsAfter
<1>6. ASSUME NEW f \in DOMAIN held
      PROVE  held'[f].ran = held[f].ran /\ held'[f].st \in {held[f].st, "EXPIRED"}
  <2>1. CASE f # w.e \/ w.does = "none"
    BY <1>1, <2>1, RowsAfter
  <2>2. CASE f = w.e /\ w.does # "none"
    <3>1. held'[w.e].st = "EXPIRED" /\ held'[w.e].ran = held[w.e].ran + 0
      BY <1>1, <2>2, RowsAfter
    <3>2. held[w.e].ran \in Nat
      <4>1. w.e \in DOMAIN held /\ held \in Seq(Call)
        BY <1>1, <2>2 DEF Current, TraceTypes
      <4>2. held[w.e] \in Call
        BY <4>1
      <4>3. QED
        BY <4>2 DEF Call
    <3>3. QED
      BY <2>2, <3>1, <3>2
  <2>3. QED
    BY <2>1, <2>2
<1>7. \A f \in DOMAIN held : Waiting(f)' => Waiting(f)
  BY <1>6 DEF Waiting
<1>8. CallsSound'
  <2>1. \A f \in DOMAIN held : held'[f].ran <= 1 /\ (Waiting(f)' => held'[f].ran = 0)
          /\ (held'[f].ran = 1 => held'[f].st \in {"APPROVED", "EXPIRED"})
    BY <1>6, <1>7 DEF AnswersInv, CallsSound
  <2>2. \A e, f \in DOMAIN held : Waiting(e)' /\ Waiting(f)' => e = f
    BY <1>7 DEF AnswersInv, CallsSound
  <2>3. QED
    BY <1>5, <2>1, <2>2 DEF CallsSound
<1>9. RunSound' /\ EndIsLast'
  BY <1>3, <1>4 DEF RunSound, EndIsLast, AnswersInv
<1>10. ASSUME NEW e, Untouched(e) PROVE Untouched(e)'
  BY <1>5, <1>6, <1>7, <1>10 DEF Untouched
<1>11. ASSUME NEW r \in Sess PROVE Shape(work[r])' /\ Current(work[r])'
  <2>1. CASE r = s
    <3>1. work'[r] = NoWork
      BY <1>2, <2>1 DEF Goes, TraceInv, TraceTypes
    <3>2. Shape(NoWork) /\ NoWork.row = None /\ NoWork.pc = "idle" /\ NoWork.does = "none"
      BY IdleFits DEF NoWork
    <3>3. QED
      BY <3>1, <3>2 DEF Current, Shape, Taken
  <2>2. CASE r # s
    <3>1. work'[r] = work[r]
      BY <1>2, <2>2 DEF Goes, TraceInv, TraceTypes
    <3>2. Shape(work[r]) /\ Current(work[r])
      BY DEF AnswersInv, Sessions
    <3>3. Shape(work[r])'
      BY <3>1, <3>2 DEF Shape
    <3>4. Current(work[r])'
      BY <1>3, <1>4, <1>5, <1>10, <3>1, <3>2 DEF Current
    <3>5. QED
      BY <3>3, <3>4
  <2>3. QED
    BY <2>1, <2>2
<1>12. QED
  BY <1>8, <1>9, <1>11 DEF AnswersInv, Sessions

\* A session that drove the run leaves no other call waiting.
LEMMA DecidedAll ==
    ASSUME TraceInv, AnswersInv, NEW s \in Sess, Commit(s), work[s].pc = "commit",
           work[s].verdict # None
    PROVE  /\ \A f \in DOMAIN held : ~Waiting(f)'
           /\ \A f \in DOMAIN held : held'[f].ran <= 1
           /\ \A f \in DOMAIN held : held'[f].ran = 1 => held'[f].st \in {"APPROVED", "EXPIRED"}
<1> DEFINE w == work[s]
<1>1. w \in Work /\ Shape(w) /\ Current(w) /\ TraceTypes
  BY DEF AnswersInv, Sessions, TraceInv, TraceTypes
<1>2. w.starts => held = <<>>
  BY DEF TraceInv, Starter, AnswersInv, RunSound
<1>3. w.starts \/ w.does \in Taken
  BY <1>1 DEF Shape, Driving
<1>4. CASE w.starts
  BY <1>2, <1>4
<1>5. CASE w.does \in Taken
  <2>1. Untouched(w.e) /\ w.does # "none"
    BY <1>1, <1>5 DEF Current, Taken
  <2>2. /\ held'[w.e].st = w.does
        /\ held'[w.e].ran = 0 + (IF w.ran THEN 1 ELSE 0)
    BY <1>1, <2>1, RowsAfter DEF Untouched
  <2>3. ASSUME NEW f \in DOMAIN held, f # w.e
        PROVE  held'[f] = held[f] /\ ~Waiting(f)
    BY <1>1, <2>1, <2>3, RowsAfter DEF Untouched
  <2>4. w.ran => w.does = "APPROVED"
    BY <1>1 DEF Shape
  <2>5. ASSUME NEW f \in DOMAIN held
        PROVE  /\ ~Waiting(f)'
               /\ held'[f].ran <= 1
               /\ held'[f].ran = 1 => held'[f].st \in {"APPROVED", "EXPIRED"}
    <3>1. CASE f = w.e
      BY <1>5, <2>2, <2>4, <3>1 DEF Waiting, Taken
    <3>2. CASE f # w.e
      BY <2>3, <3>2 DEF Waiting, AnswersInv, CallsSound
    <3>3. QED
      BY <3>1, <3>2
  <2>6. QED
    BY <2>5
<1>6. QED
  BY <1>3, <1>4, <1>5

\* The row a session that drove the run leaves, and where.
LEMMA LeftBehind ==
    ASSUME NEW w \in Work, w.row \in RunRow, w.verdict # None
    PROVE  /\ Left(w).st = w.verdict
           /\ w.verdict = "WAITING" => Left(w).seq = w.row.seq + Len(w.add)
<1>1. w.row.seq \in Nat /\ Len(w.add) \in Nat /\ w.verdict \in RunState
  BY DEF Work, RunRow
<1>2. CASE w.verdict = "WAITING"
  BY <1>1, <1>2 DEF Left, NextSeq, RunRow
<1>3. CASE w.verdict # "WAITING"
  BY <1>1, <1>3 DEF Left, RunRow
<1>4. QED
  BY <1>2, <1>3

\* What was read before the commit is stale after it.
LEMMA OthersStale ==
    ASSUME TraceInv, AnswersInv, NEW s \in Sess, Commit(s), work[s].pc = "commit"
    PROVE  Sessions'
<1> DEFINE w == work[s]
<1>1. w \in Work /\ w.add # <<>> /\ Current(w) /\ TraceTypes
  BY Driver DEF Driving, AnswersInv, Sessions, TraceInv
<1>2. Goes(s, NoWork) /\ trace' = trace \o w.add
  BY DEF Commit
<1>3. Len(trace') > Len(trace) /\ Len(trace) \in Nat /\ Len(trace') \in Nat
  <2>1. trace \in Seq(Event) /\ w.add \in Seq(Event)
    BY <1>1 DEF TraceTypes, Work
  <2>2. Len(w.add) \in Nat \ {0} /\ Len(trace) \in Nat
    BY <1>1, <2>1
  <2>3. Len(trace \o w.add) = Len(trace) + Len(w.add)
    BY <2>1
  <2>4. QED
    BY <1>2, <2>2, <2>3
<1>4. \A e \in DOMAIN held : e \in DOMAIN held'
  <2>1. /\ DOMAIN held' = 1 .. Len(held) + Len(w.new) /\ DOMAIN held = 1 .. Len(held)
        /\ Len(held) \in Nat /\ Len(w.new) \in Nat
    BY <1>1, RowsAfter
  <2>2. QED
    BY <2>1
<1>5. ASSUME NEW r \in Sess PROVE Shape(work[r])' /\ Current(work[r])'
  <2>1. CASE r = s
    <3>1. work'[r] = NoWork
      BY <1>2, <2>1 DEF Goes, TraceInv, TraceTypes
    <3>2. Shape(NoWork) /\ NoWork.row = None /\ NoWork.pc = "idle" /\ NoWork.does = "none"
      BY IdleFits DEF NoWork
    <3>3. QED
      BY <3>1, <3>2 DEF Current, Shape, Taken
  <2>2. CASE r # s
    <3>1. work'[r] = work[r]
      BY <1>2, <2>2 DEF Goes, TraceInv, TraceTypes
    <3>2. Shape(work[r]) /\ Current(work[r]) /\ Sound(work[r])
      BY DEF AnswersInv, Sessions, TraceInv, Checkpoints
    <3>3. Shape(work[r])'
      BY <3>1, <3>2 DEF Shape
    <3>4. work[r].add = <<>>
      BY <1>1, <2>2 DEF TraceInv, OneWriter
    <3>5. work[r].pc \notin Driving
      BY <3>4 DEF TraceInv, OneWriter
    <3>6. work[r].does \notin Taken /\ work[r].pc # "commit"
      BY <3>2, <3>5 DEF Shape, Driving
    <3>7. work[r].row # None => work[r].row.seq # Len(trace') + 1
      BY <1>3, <3>2 DEF Sound
    <3>8. work[r].pc = "found" => work[r].row # None
      BY <3>2 DEF Sound
    <3>9. Current(work[r])'
      BY <1>4, <3>1, <3>2, <3>6, <3>7, <3>8 DEF Current
    <3>10. QED
      BY <3>3, <3>9
  <2>3. QED
    BY <2>1, <2>2
<1>6. QED
  BY <1>5 DEF Sessions

LEMMA DrivenCalls ==
    ASSUME TraceInv, AnswersInv, NEW s \in Sess, Commit(s), work[s].pc = "commit"
    PROVE  AnswersInv'
<1> DEFINE w == work[s]
<1>1. /\ w \in Work /\ w.row \in RunRow /\ w.add # <<>> /\ w.add \in Seq(Event)
      /\ Shape(w) /\ Current(w) /\ TraceTypes /\ trace \in Seq(Event)
      /\ w.row.seq = Len(trace) + 1 /\ w.row # None
  BY Driver DEF Driving, AnswersInv, Sessions, TraceInv, TraceTypes, OneWriter, Writes, Work
<1>2. trace' = trace \o w.add
  BY DEF Commit
<1>3. Open(trace)
  BY <1>1 DEF Current
<1>4. /\ EndsLast(trace')
      /\ Open(w.add) => Open(trace')
      /\ Closed(w.add) => Closed(trace')
  BY <1>1, <1>2, <1>3, TraceEnds DEF Shape
<1>5. /\ Len(held) \in Nat /\ DOMAIN held = 1 .. Len(held)
      /\ DOMAIN held' = 1 .. Len(held) + Len(w.new) /\ Len(w.new) \in Nat
      /\ \A i \in 1 .. Len(w.new) : held'[Len(held) + i] = w.new[i]
  BY <1>1, RowsAfter
<1>6. CASE w.verdict = None
  <2>1. run' = run /\ run # None /\ run.st # "WAITING"
    BY <1>1, <1>6 DEF Commit, Current
  <2>2. w.does = "none" /\ Closed(w.add) /\ w.new = <<>>
    BY <1>1, <1>6, NoneAssumption DEF Shape, RunState
  <2>3. DOMAIN held' = DOMAIN held /\ \A f \in DOMAIN held : held'[f] = held[f]
    <3>1. Len(w.new) = 0
      BY <2>2
    <3>2. DOMAIN held' = DOMAIN held
      BY <1>5, <3>1
    <3>3. \A f \in DOMAIN held : held'[f] = held[f]
      BY <1>1, <2>2, RowsAfter, Zenon
    <3>4. QED
      BY <3>2, <3>3
  <2>4. CallsSound'
    BY <2>3 DEF AnswersInv, CallsSound, Waiting
  <2>5. RunSound' /\ EndIsLast'
    BY <1>4, <2>1, <2>2 DEF RunSound, EndIsLast, EndsLast, Closed
  <2>6. QED
    BY <2>4, <2>5, OthersStale DEF AnswersInv
<1>7. CASE w.verdict # None
  <2>1. /\ \A f \in DOMAIN held : ~Waiting(f)' /\ held'[f].ran <= 1
        /\ \A f \in DOMAIN held : held'[f].ran = 1 => held'[f].st \in {"APPROVED", "EXPIRED"}
    BY <1>7, DecidedAll
  <2>2. run' = Left(w)
    BY <1>7 DEF Commit
  <2>3. run'.st = w.verdict /\ (w.verdict = "WAITING" => run'.seq = w.row.seq + Len(w.add))
    BY <1>1, <1>7, <2>2, LeftBehind
  <2>4. run' # None
    BY <1>1, <1>7, <2>2, LeftTyped, NoneAssumption
  <2>5. EndIsLast'
    BY <1>1, <1>4, <2>3 DEF EndIsLast, EndsLast, Closed, Shape
  <2>6. CASE w.verdict = "WAITING"
    <3>1. Len(w.new) = 1 /\ w.new[1].st = "PENDING" /\ w.new[1].ran = 0 /\ Open(w.add)
      BY <1>1, <2>6 DEF Shape
    <3> DEFINE n == Len(held) + 1
    <3>2. DOMAIN held' = DOMAIN held \cup {n} /\ n \in DOMAIN held'
      BY <1>5, <3>1
    <3>3. held'[n].st = "PENDING" /\ held'[n].ran = 0
      BY <1>5, <3>1
    <3> HIDE DEF n
    <3>4. CallsSound'
      BY <2>1, <3>2, <3>3 DEF CallsSound, Waiting
    <3>5. Len(trace') = Len(trace) + Len(w.add)
      BY <1>1, <1>2
    <3>6. run'.seq = Len(trace') + 1
      <4>1. Len(trace) \in Nat /\ Len(w.add) \in Nat
        BY <1>1
      <4>2. run'.seq = Len(trace) + 1 + Len(w.add)
        BY <1>1, <2>3, <2>6, Zenon
      <4>3. Len(trace) + 1 + Len(w.add) = Len(trace) + Len(w.add) + 1
        <5>1. \A a, b \in Nat : a + 1 + b = a + b + 1
          OBVIOUS
        <5>2. QED
          BY <4>1, <5>1, Zenon
      <4>4. QED
        BY <3>5, <4>2, <4>3, Zenon
    <3>7. RunSound'
      BY <1>4, <2>4, <3>1, <3>2, <3>3, <3>6 DEF RunSound, Waiting
    <3>8. QED
      BY <2>5, <3>4, <3>7, OthersStale DEF AnswersInv
  <2>7. CASE w.verdict # "WAITING"
    <3>1. w.new = <<>>
      BY <1>1, <2>7 DEF Shape
    <3>2. DOMAIN held' = DOMAIN held
      BY <1>5, <3>1
    <3>3. CallsSound'
      BY <2>1, <3>2 DEF CallsSound
    <3>4. RunSound'
      BY <2>3, <2>4, <2>7 DEF RunSound
    <3>5. QED
      BY <2>5, <3>3, <3>4, OthersStale DEF AnswersInv
  <2>8. QED
    BY <2>6, <2>7
<1>8. QED
  BY <1>6, <1>7

-----------------------------------------------------------------------------
LEMMA AnswersInit == Init => AnswersInv
<1> SUFFICES ASSUME Init PROVE AnswersInv
  OBVIOUS
<1>1. run = None /\ trace = <<>> /\ held = <<>> /\ \A s \in Sess : work[s] = NoWork
  BY DEF Init
<1>2. CallsSound /\ RunSound /\ EndIsLast
  BY <1>1 DEF CallsSound, RunSound, EndIsLast
<1>3. Sessions
  BY <1>1, IdleFits DEF Sessions
<1>4. QED
  BY <1>2, <1>3 DEF AnswersInv

LEMMA AnswersStep == TraceInv /\ AnswersInv /\ [Next]_vars => AnswersInv'
<1> SUFFICES ASSUME TraceInv, AnswersInv, [Next]_vars PROVE AnswersInv'
  OBVIOUS
<1>1. CASE UNCHANGED runvars
  BY <1>1 DEF runvars, AnswersInv, CallsSound, RunSound, EndIsLast, Sessions, Shape, Current,
              Untouched, Waiting
<1>2. ASSUME NEW s \in Sess, LoopSteps(s)
      PROVE  AnswersInv'
  BY <1>2, ModelFailsCalls, AnswerCalls, MadeCalls, SettleCalls, AskCalls, CallHeldCalls
  DEF LoopSteps
<1>3. ASSUME NEW s \in Sess, AnswerSteps(s)
      PROVE  AnswersInv'
  BY <1>3, FindCallCalls, ApplyCalls, QuitsCalls, DecideCalls DEF AnswerSteps, Taken
<1>4. ASSUME NEW s \in Sess, Commit(s)
      PROVE  AnswersInv'
  BY <1>4, CancelledCalls, DrivenCalls DEF Commit
<1>5. ASSUME NEW s \in Sess, Progress(s)
      PROVE  AnswersInv'
  BY <1>2, <1>3, <1>4, <1>5, CancelCalls, QuitsCalls DEF Progress
<1>6. ASSUME NEW s \in Sess, Requests(s)
      PROVE  AnswersInv'
  BY <1>6, StartCalls, BeginsCalls, SettleCalls, QuitsCalls DEF Requests
<1>7. QED
  BY <1>1, <1>5, <1>6 DEF Next, Registry, vars

\* The session that ran a held call is the one that writes, and it was the first to.
LEMMA OneEffect == TraceInv /\ AnswersInv => EffectAtMostOnce
<1> SUFFICES ASSUME TraceInv, AnswersInv, NEW e \in DOMAIN held
             PROVE  /\ held[e].ran + Cardinality(Running(e)) <= 1
                    /\ held[e].ran = 1 => held[e].st \in {"APPROVED", "EXPIRED"}
  BY DEF EffectAtMostOnce
<1>1. held[e].ran <= 1 /\ (held[e].ran = 1 => held[e].st \in {"APPROVED", "EXPIRED"})
  BY DEF AnswersInv, CallsSound
<1>2. held[e].ran \in Nat
  <2>1. held[e] \in Call
    BY DEF TraceInv, TraceTypes
  <2>2. QED
    BY <2>1 DEF Call
<1>3. ASSUME NEW s \in Running(e)
      PROVE  s \in Sess /\ work[s].add # <<>> /\ held[e].ran = 0
  <2>1. s \in Sess /\ work[s].ran /\ work[s].e = e
    BY DEF Running
  <2>2. work[s].does \in Taken /\ work[s].pc \in Driving /\ Untouched(e)
    BY <2>1 DEF AnswersInv, Sessions, Shape, Current, Taken
  <2>3. QED
    BY <2>1, <2>2 DEF TraceInv, OneWriter, Untouched
<1>4. CASE Running(e) = {}
  BY <1>1, <1>2, <1>4, FS_EmptySet
<1>5. CASE Running(e) # {}
  <2>1. PICK s \in Running(e) : TRUE
    BY <1>5
  <2>2. Running(e) = {s}
    BY <1>3, <2>1 DEF TraceInv, OneWriter
  <2>3. Cardinality(Running(e)) = 1
    BY <2>2, FS_Singleton
  <2>4. QED
    BY <1>1, <1>3, <2>1, <2>3
<1>6. QED
  BY <1>4, <1>5

\* The call that waits is the only one.
LEMMA OneAnswer == AnswersInv => WaitingIsAnswerable
<1> SUFFICES ASSUME AnswersInv, run # None, run.st = "WAITING"
             PROVE  /\ Cardinality({e \in DOMAIN held : held[e].st = "PENDING"}) = 1
                    /\ run.seq = Len(trace) + 1
                    /\ \A i \in DOMAIN trace : trace[i].kind # "end"
  BY DEF WaitingIsAnswerable
<1>1. PICK e \in DOMAIN held : Waiting(e)
  BY DEF AnswersInv, RunSound
<1>2. {f \in DOMAIN held : held[f].st = "PENDING"} = {e}
  BY <1>1 DEF AnswersInv, CallsSound, Waiting
<1>3. Cardinality({f \in DOMAIN held : held[f].st = "PENDING"}) = 1
  BY <1>2, FS_Singleton
<1>4. QED
  BY <1>3 DEF AnswersInv, RunSound, Open

LEMMA Answers == Spec => [](TraceInv /\ AnswersInv)
<1>1. Init => TraceInv /\ AnswersInv
  BY TraceInit, AnswersInit
<1>2. TraceInv /\ AnswersInv /\ [Next]_vars => (TraceInv /\ AnswersInv)'
  BY TraceStep, AnswersStep
<1>3. QED
  BY <1>1, <1>2, PTL DEF Spec

\* execute_approved: whoever approves, refuses and cancels at once, a held call takes
\* effect at most once for the sessions that survive, and only when it was approved.
THEOREM EffectStaysAtMostOnce == Spec => []EffectAtMostOnce
BY Answers, OneEffect, PTL

\* _suspend, _resume, cancel: a run that waits has exactly one pending call, and its
\* checkpoint is where a trace stops that has not ended.
THEOREM WaitingStaysAnswerable == Spec => []WaitingIsAnswerable
BY Answers, OneAnswer, PTL

\* RUN_COMPLETED and RUN_FAILED close the trace, and a run that says so has one.
THEOREM EndStaysLast == Spec => []EndIsLast
<1>1. AnswersInv => EndIsLast
  BY DEF AnswersInv
<1>2. QED
  BY <1>1, Answers, PTL

----------------------------------------------------------------------------
(* What becomes of one t call, for every t, c and far side.        *)

CONSTANTS MaxChars, Disabled, Risky

TC == INSTANCE ToolCalls

ToolOf(Ids, Rights) ==
    [id: Ids, type: STRING, enabled: BOOLEAN, risk: STRING, needs: Rights,
     endpoint: STRING, method: STRING, cred: STRING, handler: BOOLEAN]

Body == [form: {"text", "list"}, length: Nat]
        \cup [form: {"object"}, length: Nat, error: {"none", "object", "other"},
              result: {"object", "other"}, isError: BOOLEAN, blocks: Nat]

FarSide == [kind: {"silent", "raises"}] \cup [kind: {"replies"}, status: Nat, body: Body]

\* The call is made at once.
LetThrough(c, t) == TC!Denial(c, t) = "none" /\ ~TC!NeedsApproval(t)

\* What the far side says of the call, read from its answer alone.
SaysDone(t, far) ==
    /\ far.kind = "replies"
    /\ t.type \in {"REST", "MCP"} => far.status < 400
    /\ t.type = "MCP" => /\ far.body.form = "object"
                            /\ far.body.error = "none"
                            /\ far.body.result = "object"
                            /\ ~far.body.isError

\* What the executors look at is as registered, but for the credential.
LEMMA DefinitionKeeps ==
    ASSUME NEW Ids, NEW Rights, NEW t \in ToolOf(Ids, Rights)
    PROVE  LET d == TC!Definition(t) IN
           /\ d.type = t.type /\ d.endpoint = t.endpoint /\ d.handler = t.handler
           /\ d.method = t.method /\ d.cred = "none"
BY DEF ToolOf, TC!Definition

Errors == {"none", "no_endpoint", "unreachable", "http", "mcp_error", "mcp_tool_error",
           "no_handler", "handler", "not_implemented", "no_executor", "raised"}

Results == [success: BOOLEAN, error: Errors, length: Nat, data: BOOLEAN, truncated: BOOLEAN]

LEMMA FailedIs ==
    ASSUME NEW error \in Errors
    PROVE  TC!Failed(error) \in Results /\ ~TC!Failed(error).success
           /\ TC!Failed(error).error = error /\ "raised" \notin DOMAIN TC!Failed(error)
           /\ TC!Failed(error).length = 1 /\ ~TC!Failed(error).truncated
BY DEF TC!Failed, TC!Result, Results

LEMMA TruncateIs ==
    ASSUME MaxChars \in Nat \ {0}, NEW r \in Results
    PROVE  /\ TC!Truncate(r) \in Results
           /\ TC!Truncate(r).success = r.success /\ TC!Truncate(r).error = r.error
           /\ r.length <= MaxChars => TC!Truncate(r) = r
           /\ r.length > MaxChars => /\ TC!Truncate(r).truncated
                                     /\ TC!Truncate(r).length = MaxChars + 1
<1>1. CASE r.length <= MaxChars
  BY <1>1 DEF TC!Truncate, Results
<1>2. CASE r.length > MaxChars
  <2>1. TC!Truncate(r) = [r EXCEPT !.length = MaxChars + 1, !.truncated = TRUE]
    BY <1>2 DEF TC!Truncate, Results
  <2> DEFINE n == MaxChars + 1
  <2>2. n \in Nat /\ r.length \in Nat /\ ~(r.length <= MaxChars)
    BY <1>2 DEF Results
  <2> HIDE DEF n
  <2>3. LET u == [r EXCEPT !.length = n, !.truncated = TRUE] IN
        /\ u \in Results /\ u.success = r.success /\ u.error = r.error
        /\ u.truncated /\ u.length = n
    BY <2>2 DEF Results
  <2>4. /\ TC!Truncate(r) \in Results
        /\ TC!Truncate(r).success = r.success /\ TC!Truncate(r).error = r.error
        /\ TC!Truncate(r).truncated /\ TC!Truncate(r).length = MaxChars + 1
    BY <2>1, <2>3 DEF n
  <2> QED
    BY <2>2, <2>4
<1> QED
  BY <1>1, <1>2 DEF Results

\* A result is honest if it is a success exactly where it names no error, only if the far
\* side says so, and of a request that was sent whenever it does.
Honest(t, far, r) ==
    /\ r \in Results
    /\ r.success => SaysDone(t, far)
    /\ r.success <=> r.error = "none"
    /\ t.type \in {"REST", "MCP"} /\ t.endpoint # "none" /\ SaysDone(t, far) => r.success

\* What registration could have seen.
Unrunnable == {"no_endpoint", "no_handler", "not_implemented", "no_executor"}

LEMMA FailureIsHonest ==
    ASSUME NEW t, NEW far, NEW error \in Errors, error # "none",
           t.type \in {"REST", "MCP"} /\ t.endpoint # "none" => ~SaysDone(t, far)
    PROVE  Honest(t, far, TC!Failed(error))
BY FailedIs DEF Honest

LEMMA AnswerIsHonest ==
    ASSUME NEW t, NEW far, NEW ok \in BOOLEAN, NEW error \in Errors, NEW n \in Nat,
           NEW b \in BOOLEAN, ok <=> error = "none", ok <=> SaysDone(t, far)
    PROVE  /\ Honest(t, far, TC!Result(ok, error, n, b))
           /\ TC!Result(ok, error, n, b).error = error
           /\ ~TC!Result(ok, error, n, b).truncated
           /\ "raised" \notin DOMAIN TC!Result(ok, error, n, b)
BY DEF Honest, TC!Result, Results

\* An executor raises or tells honestly what the far side says.
Tells(t, far, r) ==
    \/ r = TC!Raised /\ ~(t.type \in {"REST", "MCP"} /\ SaysDone(t, far))
    \/ /\ Honest(t, far, r) /\ "raised" \notin DOMAIN r /\ ~r.truncated
       /\ TC!Valid(t) => r.error \notin Unrunnable

LEMMA FailureTells ==
    ASSUME NEW t, NEW far, NEW error \in Errors, error # "none",
           t.type \in {"REST", "MCP"} /\ t.endpoint # "none" => ~SaysDone(t, far),
           TC!Valid(t) => error \notin Unrunnable
    PROVE  Tells(t, far, TC!Failed(error))
BY FailureIsHonest, FailedIs DEF Tells

LEMMA AnswerTells ==
    ASSUME NEW t, NEW far, NEW ok \in BOOLEAN, NEW error \in Errors, NEW n \in Nat,
           NEW b \in BOOLEAN, ok <=> error = "none", ok <=> SaysDone(t, far),
           error \notin Unrunnable
    PROVE  Tells(t, far, TC!Result(ok, error, n, b))
BY AnswerIsHonest DEF Tells

LEMMA FarSideIs ==
    ASSUME NEW far \in FarSide
    PROVE  /\ far.kind \in {"silent", "raises", "replies"}
           /\ far.kind = "replies" =>
                /\ far.status \in Nat
                /\ far.body.form \in {"text", "list", "object"}
                /\ far.body.length \in Nat
                /\ far.body.form = "object" => /\ far.body.error \in {"none", "object", "other"}
                                               /\ far.body.result \in {"object", "other"}
                                               /\ far.body.isError \in BOOLEAN
                                               /\ far.body.blocks \in Nat
<1>1. far.kind \in {"silent", "raises", "replies"}
  BY DEF FarSide
<1>2. ASSUME far.kind = "replies" PROVE far.status \in Nat /\ far.body \in Body
  BY <1>2 DEF FarSide
<1> QED
  BY <1>1, <1>2 DEF Body

LEMMA RestTells ==
    ASSUME NEW Ids, NEW Rights, NEW t \in ToolOf(Ids, Rights), NEW far \in FarSide,
           t.type = "REST"
    PROVE  Tells(t, far, TC!Rest(TC!Definition(t), far))
<1> DEFINE d == TC!Definition(t)
<1>1. d.endpoint = t.endpoint
  BY DefinitionKeeps
<1>2. CASE t.endpoint = "none"
  <2>1. TC!Rest(d, far) = TC!Failed("no_endpoint")
    BY <1>1, <1>2 DEF TC!Rest
  <2>2. ~TC!Valid(t)
    BY <1>2 DEF TC!Valid
  <2> QED
    BY <1>2, <2>1, <2>2, FailureTells DEF Errors
<1>3. CASE t.endpoint # "none" /\ far.kind = "silent"
  <2>1. TC!Rest(d, far) = TC!Failed("unreachable")
    BY <1>1, <1>3 DEF TC!Rest
  <2>2. ~SaysDone(t, far)
    BY <1>3 DEF SaysDone
  <2> QED
    BY <2>1, <2>2, FailureTells DEF Unrunnable, Errors
<1>4. CASE t.endpoint # "none" /\ far.kind = "raises"
  BY <1>1, <1>4 DEF TC!Rest, SaysDone, Tells
<1>5. CASE t.endpoint # "none" /\ far.kind = "replies"
  <2>1. far.body.length \in Nat /\ TC!Decoded(far.body) \in BOOLEAN /\ far.status \in Nat
    BY <1>5, FarSideIs DEF TC!Decoded
  <2>2. SaysDone(t, far) <=> ~(far.status >= 400)
    BY <1>5, <2>1 DEF SaysDone
  <2>3. CASE far.status >= 400
    <3>1. TC!Rest(d, far) = TC!Result(FALSE, "http", far.body.length, TC!Decoded(far.body))
      BY <1>1, <1>5, <2>3 DEF TC!Rest
    <3> QED
      BY <2>1, <2>2, <2>3, <3>1, AnswerTells DEF Unrunnable, Errors
  <2>4. CASE ~(far.status >= 400)
    <3>1. TC!Rest(d, far) = TC!Result(TRUE, "none", far.body.length, TC!Decoded(far.body))
      BY <1>1, <1>5, <2>4 DEF TC!Rest
    <3> QED
      BY <2>1, <2>2, <2>4, <3>1, AnswerTells DEF Unrunnable, Errors
  <2> QED
    BY <2>3, <2>4
<1> QED
  BY <1>2, <1>3, <1>4, <1>5, FarSideIs

LEMMA McpTells ==
    ASSUME NEW Ids, NEW Rights, NEW t \in ToolOf(Ids, Rights), NEW far \in FarSide,
           t.type = "MCP"
    PROVE  Tells(t, far, TC!Mcp(TC!Definition(t), far))
<1> DEFINE d == TC!Definition(t)
<1>1. d.endpoint = t.endpoint
  BY DefinitionKeeps
<1>2. CASE t.endpoint = "none"
  <2>1. TC!Mcp(d, far) = TC!Failed("no_endpoint")
    BY <1>1, <1>2 DEF TC!Mcp
  <2>2. ~TC!Valid(t)
    BY <1>2 DEF TC!Valid
  <2> QED
    BY <1>2, <2>1, <2>2, FailureTells DEF Errors
<1>3. CASE t.endpoint # "none" /\ TC!CallMcp(far) = "mcp_error"
  <2>1. TC!Mcp(d, far) = TC!Failed("mcp_error")
    BY <1>1, <1>3 DEF TC!Mcp
  <2>2. ~SaysDone(t, far)
    BY <1>3, FarSideIs, SMTT(30) DEF TC!CallMcp, SaysDone
  <2> QED
    BY <2>1, <2>2, FailureTells DEF Unrunnable, Errors
<1>4. CASE t.endpoint # "none" /\ TC!CallMcp(far) = "raises"
  <2>1. TC!Mcp(d, far) = TC!Raised
    BY <1>1, <1>4 DEF TC!Mcp
  <2>2. ~SaysDone(t, far)
    BY <1>4, FarSideIs, SMTT(30) DEF TC!CallMcp, SaysDone
  <2> QED
    BY <2>1, <2>2 DEF Tells
<1>5. CASE t.endpoint # "none" /\ TC!CallMcp(far) = "payload"
  <2>1. /\ far.kind = "replies" /\ far.status < 400 /\ far.body.form = "object"
        /\ far.body.error = "none" /\ far.body.result = "object"
    BY <1>5, FarSideIs, SMTT(30) DEF TC!CallMcp
  <2>2. TC!Mcp(d, far) =
           TC!Result(~far.body.isError, IF far.body.isError THEN "mcp_tool_error" ELSE "none",
                     TC!McpLength(far.body), TRUE)
    BY <1>1, <1>5 DEF TC!Mcp
  <2>3. TC!McpLength(far.body) \in Nat /\ far.body.isError \in BOOLEAN
    BY <2>1, FarSideIs DEF TC!McpLength
  <2>4. SaysDone(t, far) <=> ~far.body.isError
    BY <2>1 DEF SaysDone
  <2> DEFINE ok == ~far.body.isError
             error == IF far.body.isError THEN "mcp_tool_error" ELSE "none"
  <2>5. /\ ok \in BOOLEAN /\ error \in Errors
        /\ ok <=> error = "none"
        /\ ok <=> SaysDone(t, far)
        /\ error \notin Unrunnable
    BY <2>3, <2>4 DEF Unrunnable, Errors
  <2>6. TC!Mcp(d, far) = TC!Result(ok, error, TC!McpLength(far.body), TRUE)
    BY <2>2
  <2> HIDE DEF ok, error
  <2> QED
    BY <2>3, <2>5, <2>6, AnswerTells
<1>6. TC!CallMcp(far) \in {"mcp_error", "raises", "payload"}
  BY FarSideIs DEF TC!CallMcp
<1> QED
  BY <1>2, <1>3, <1>4, <1>5, <1>6

LEMMA InternalTells ==
    ASSUME NEW Ids, NEW Rights, NEW t \in ToolOf(Ids, Rights), NEW far \in FarSide,
           t.type = "INTERNAL"
    PROVE  Tells(t, far, TC!Internal(TC!Definition(t), far))
<1> DEFINE d == TC!Definition(t)
<1>1. d.handler = t.handler
  BY DefinitionKeeps
<1>2. CASE ~t.handler
  <2>1. TC!Internal(d, far) = TC!Failed("no_handler")
    BY <1>1, <1>2 DEF TC!Internal
  <2>2. ~TC!Valid(t)
    BY <1>2 DEF TC!Valid
  <2> QED
    BY <2>1, <2>2, FailureTells DEF Errors
<1>3. CASE t.handler /\ far.kind # "replies"
  <2>1. TC!Internal(d, far) = TC!Failed("handler")
    BY <1>1, <1>3 DEF TC!Internal
  <2> QED
    BY <2>1, FailureTells DEF Unrunnable, Errors
<1>4. CASE t.handler /\ far.kind = "replies"
  <2>1. TC!Internal(d, far) = TC!Result(TRUE, "none", far.body.length, FALSE)
    BY <1>1, <1>4 DEF TC!Internal
  <2>2. SaysDone(t, far) /\ far.body.length \in Nat
    BY <1>4, FarSideIs DEF SaysDone
  <2> QED
    BY <2>1, <2>2, AnswerTells DEF Unrunnable, Errors
<1> QED
  BY <1>2, <1>3, <1>4

LEMMA ExecuteTells ==
    ASSUME NEW Ids, NEW Rights, NEW t \in ToolOf(Ids, Rights), NEW far \in FarSide
    PROVE  Tells(t, far, TC!Execute(TC!Definition(t), far))
<1>1. TC!Definition(t).type = t.type
  BY DefinitionKeeps
<1>2. CASE t.type = "REST"
  BY <1>1, <1>2, RestTells DEF TC!Execute
<1>3. CASE t.type = "MCP"
  BY <1>1, <1>3, McpTells DEF TC!Execute
<1>4. CASE t.type = "INTERNAL"
  BY <1>1, <1>4, InternalTells DEF TC!Execute
<1>5. CASE t.type \notin {"REST", "MCP", "INTERNAL"}
  <2>1. TC!Execute(TC!Definition(t), far) = TC!Failed("not_implemented")
    BY <1>1, <1>5 DEF TC!Execute
  <2>2. ~TC!Valid(t)
    BY <1>5 DEF TC!Valid
  <2> QED
    BY <1>5, <2>1, <2>2, FailureTells DEF Errors
<1> QED
  BY <1>2, <1>3, <1>4, <1>5

\* Whatever the executor did, what comes out of it is an honest result, cut to size.
LEMMA RanIs ==
    ASSUME MaxChars \in Nat \ {0},
           NEW Ids, NEW Rights, NEW t \in ToolOf(Ids, Rights), NEW far \in FarSide
    PROVE  /\ Honest(t, far, TC!Ran(t, far)) \/ t.type \notin TC!Executable
           /\ TC!Ran(t, far) \in Results
           /\ t.type \notin TC!Executable => ~TC!Ran(t, far).success
           /\ TC!Ran(t, far).success <=> TC!Ran(t, far).error = "none"
           /\ TC!Ran(t, far).truncated <=> TC!Ran(t, far).length > MaxChars
           /\ TC!Valid(t) => TC!Ran(t, far).error \notin Unrunnable
<1> DEFINE x == TC!Execute(TC!Definition(t), far)
           r == IF "raised" \in DOMAIN x THEN TC!Failed("raised") ELSE x
<1>1. Tells(t, far, x)
  BY ExecuteTells
<1>2. CASE t.type \notin TC!Executable
  <2>1. TC!Ran(t, far) = TC!Failed("no_executor")
    BY <1>2 DEF TC!Ran
  <2>2. ~TC!Valid(t)
    BY <1>2 DEF TC!Valid, TC!Executable
  <2> QED
    BY <1>2, <2>1, <2>2, FailedIs DEF Errors
<1>3. CASE t.type \in TC!Executable
  <2>1. TC!Ran(t, far) = TC!Truncate(r)
    BY <1>3 DEF TC!Ran
  <2>2. Honest(t, far, r) /\ ~r.truncated /\ (TC!Valid(t) => r.error \notin Unrunnable)
    <3>1. CASE x = TC!Raised
      <4>1. r = TC!Failed("raised")
        BY <3>1 DEF TC!Raised
      <4>2. t.type \in {"REST", "MCP"} => ~SaysDone(t, far)
        BY <1>1, <3>1 DEF Tells, TC!Raised
      <4>3. "raised" \in Errors /\ "raised" \notin Unrunnable /\ "raised" # "none"
        BY DEF Errors, Unrunnable
      <4> QED
        BY <4>1, <4>2, <4>3, FailureIsHonest, FailedIs
    <3>2. CASE x # TC!Raised
      BY <1>1, <3>2 DEF Tells
    <3> QED
      BY <3>1, <3>2
  <2> HIDE DEF r
  <2>3. r \in Results
    BY <2>2 DEF Honest
  <2>4. r.length \in Nat
    BY <2>3 DEF Results
  <2>5. /\ TC!Truncate(r) \in Results
        /\ TC!Truncate(r).success = r.success /\ TC!Truncate(r).error = r.error
        /\ TC!Truncate(r).truncated <=> TC!Truncate(r).length > MaxChars
    <3>1. CASE r.length <= MaxChars
      BY <2>2, <2>3, <2>4, <3>1, TruncateIs
    <3>2. CASE r.length > MaxChars
      BY <2>3, <2>4, <3>2, TruncateIs
    <3> QED
      BY <2>4, <3>1, <3>2
  <2>6. Honest(t, far, TC!Truncate(r))
    BY <2>2, <2>5 DEF Honest
  <2> QED
    BY <1>3, <2>1, <2>2, <2>5, <2>6 DEF Honest
<1> QED
  BY <1>2, <1>3

LEMMA RowIs ==
    ASSUME NEW approval, NEW row, row = [TC!NewRow EXCEPT !.approval = approval]
    PROVE  row = [approval |-> approval, success |-> {}, error |-> "none", length |-> 0,
                  truncated |-> FALSE]
BY DEF TC!NewRow

\* A row that is finished says what the model is told, and keeps no more of it than fits.
LEMMA FinishIs ==
    ASSUME MaxChars \in Nat \ {0}, NEW r \in Results, NEW approval,
           NEW row, row = [TC!NewRow EXCEPT !.approval = approval]
    PROVE  TC!Finish(row, r) =
              [approval |-> approval, success |-> {r.success}, error |-> r.error,
               length |-> IF r.length > MaxChars THEN MaxChars ELSE r.length,
               truncated |-> r.truncated]
<1>1. row = [approval |-> approval, success |-> {}, error |-> "none", length |-> 0,
             truncated |-> FALSE]
  BY RowIs
<1> DEFINE n == IF r.length > MaxChars THEN MaxChars ELSE r.length
<1>2. TC!Finish(row, r) = [row EXCEPT !.success = {r.success}, !.error = r.error,
                                      !.length = n, !.truncated = r.truncated]
  BY DEF TC!Finish
<1> HIDE DEF n
<1>3. TC!Finish(row, r) = [approval |-> approval, success |-> {r.success}, error |-> r.error,
                           length |-> n, truncated |-> r.truncated]
  BY <1>1, <1>2
<1> QED
  BY <1>3 DEF n

\* invoke, _deny: a call that is refused, held or has no executor is answered without the
\* far side, whatever it would have said, and is no success.
THEOREM RefusedRunsNothing ==
    ASSUME NEW Ids, NEW Rights, NEW c, NEW t \in ToolOf(Ids, Rights), NEW far, NEW other,
           ~LetThrough(c, t) \/ t.type \notin TC!Executable
    PROVE  /\ TC!Invoke(c, t, far) = TC!Invoke(c, t, other)
           /\ TC!Invoke(c, t, far).row.success # {TRUE}
           /\ ~LetThrough(c, t) => TC!Invoke(c, t, far).result = {}
<1>1. CASE TC!Denial(c, t) # "none"
  BY <1>1 DEF TC!Invoke, TC!Deny, TC!NewRow, LetThrough
<1>2. CASE TC!Denial(c, t) = "none" /\ TC!NeedsApproval(t)
  BY <1>2 DEF TC!Invoke, TC!NewRow, LetThrough
<1>3. CASE LetThrough(c, t)
  <2>1. \A f : TC!Ran(t, f) = TC!Failed("no_executor")
    BY <1>3 DEF TC!Ran
  <2>2. \A f : TC!Invoke(c, t, f) =
               TC!ExecuteApproved([TC!NewRow EXCEPT !.approval = "NOT_REQUIRED"], t, f)
    BY <1>3 DEF TC!Invoke, LetThrough
  <2>3. \A f : TC!Invoke(c, t, f) = TC!Invoke(c, t, other)
    BY <2>1, <2>2 DEF TC!ExecuteApproved
  <2>4. TC!Invoke(c, t, far).row.success = {FALSE}
    <3> DEFINE row == [TC!NewRow EXCEPT !.approval = "NOT_REQUIRED"]
    <3>1. TC!Invoke(c, t, far).row = TC!Finish(row, TC!Failed("no_executor"))
      BY <2>1, <2>2 DEF TC!ExecuteApproved
    <3>2. TC!Failed("no_executor").success = FALSE
      BY DEF TC!Failed, TC!Result
    <3>3. row = [approval |-> "NOT_REQUIRED", success |-> {}, error |-> "none", length |-> 0,
                 truncated |-> FALSE]
      BY RowIs
    <3> HIDE DEF row
    <3> QED
      BY <3>1, <3>2, <3>3 DEF TC!Finish
  <2> QED
    BY <1>3, <2>3, <2>4
<1> QED
  BY <1>1, <1>2, <1>3 DEF LetThrough

\* execute_approved, _finish: what the model is told is a success only if the far side says
\* it was done, and of a request that went out always then; the row and the audit record
\* say the same, and a failure names its reason.
THEOREM SuccessIsSaid ==
    ASSUME MaxChars \in Nat \ {0}, NEW Ids, NEW Rights, NEW c, NEW t \in ToolOf(Ids, Rights),
           NEW far \in FarSide, NEW r \in TC!Invoke(c, t, far).result
    PROVE  LET o == TC!Invoke(c, t, far) IN
           /\ o.told = "result" /\ LetThrough(c, t)
           /\ r.success => SaysDone(t, far) /\ t.type \in TC!Executable
           /\ t.type \in {"REST", "MCP"} /\ t.endpoint # "none" /\ SaysDone(t, far) => r.success
           /\ r.success <=> r.error = "none"
           /\ r.success <=> o.audit = <<"TOOL_EXECUTED", "SUCCESS">>
           /\ o.row.success = {r.success} /\ o.row.error = r.error
           /\ o.row.length <= MaxChars
           /\ o.row.truncated <=> r.length > MaxChars
<1> DEFINE o == TC!Invoke(c, t, far)
           row == [TC!NewRow EXCEPT !.approval = "NOT_REQUIRED"]
<1>1. LetThrough(c, t)
  <2>1. ASSUME ~LetThrough(c, t) PROVE o.result = {}
    BY <2>1, RefusedRunsNothing
  <2> QED
    BY <2>1
<1>2. o = TC!ExecuteApproved(row, t, far)
  BY <1>1 DEF TC!Invoke, LetThrough
<1>3. /\ o.told = "result" /\ r = TC!Ran(t, far)
      /\ o.row = TC!Finish(row, TC!Ran(t, far))
      /\ o.audit = <<"TOOL_EXECUTED", IF TC!Ran(t, far).success THEN "SUCCESS" ELSE "FAILURE">>
  BY <1>2 DEF TC!ExecuteApproved
<1>4. r \in Results /\ (r.success <=> r.error = "none") /\ (r.truncated <=> r.length > MaxChars)
  BY <1>3, RanIs
<1>5. t.type \notin TC!Executable => ~r.success
  BY <1>3, RanIs
<1>6. t.type \in TC!Executable => Honest(t, far, r)
  BY <1>3, RanIs
<1>7. {"REST", "MCP"} \subseteq TC!Executable
  BY DEF TC!Executable
<1>8. o.row = [approval |-> "NOT_REQUIRED", success |-> {r.success}, error |-> r.error,
               length |-> IF r.length > MaxChars THEN MaxChars ELSE r.length,
               truncated |-> r.truncated]
  BY <1>3, <1>4, FinishIs
<1>9. r.length \in Nat /\ r.success \in BOOLEAN
  BY <1>4 DEF Results
<1>10. o.row.length <= MaxChars
  BY <1>8, <1>9
<1>11. r.success <=> o.audit = <<"TOOL_EXECUTED", "SUCCESS">>
  BY <1>3, <1>9
<1> HIDE DEF o
<1>12. /\ r.success => SaysDone(t, far) /\ t.type \in TC!Executable
       /\ t.type \in {"REST", "MCP"} /\ t.endpoint # "none" /\ SaysDone(t, far) => r.success
  BY <1>5, <1>6, <1>7 DEF Honest
<1> QED
  BY <1>1, <1>3, <1>4, <1>8, <1>10, <1>11, <1>12 DEF o

\* _resume: a held call that is approved ends as it would have without the hold, but for
\* the approval itself, if the far side says the same then.
THEOREM ApprovedAsUnheld ==
    ASSUME MaxChars \in Nat \ {0}, NEW Ids, NEW Rights, NEW c, NEW t \in ToolOf(Ids, Rights),
           NEW far \in FarSide, NEW low \in STRING, low \notin Risky,
           TC!Invoke(c, t, far).told = "pending"
    PROVE  LET done == TC!Resume(TC!Invoke(c, t, far).row, t, far)
               free == TC!Invoke(c, [t EXCEPT !.risk = low], far) IN
           /\ free.told = "result" /\ done.told = "result"
           /\ done.result = free.result /\ done.audit = free.audit
           /\ done.row = [free.row EXCEPT !.approval = "APPROVED"]
<1> DEFINE u == [t EXCEPT !.risk = low]
           waits == [TC!NewRow EXCEPT !.approval = "PENDING"]
           freed == [TC!NewRow EXCEPT !.approval = "NOT_REQUIRED"]
           approved == [TC!NewRow EXCEPT !.approval = "APPROVED"]
           r == TC!Ran(t, far)
<1>1. /\ u.type = t.type /\ u.endpoint = t.endpoint /\ u.handler = t.handler /\ u.risk = low
      /\ u.enabled = t.enabled /\ u.id = t.id /\ u.needs = t.needs /\ u \in ToolOf(Ids, Rights)
  BY DEF ToolOf
<1> HIDE DEF u
<1>2. TC!Denial(c, t) = "none" /\ TC!NeedsApproval(t) /\ TC!Invoke(c, t, far).row = waits
  BY DEF TC!Invoke, TC!Deny, TC!ExecuteApproved
<1>3. TC!Denial(c, u) = "none" /\ ~TC!NeedsApproval(u)
  BY <1>1, <1>2 DEF TC!Denial, TC!NeedsApproval
<1>4. TC!Ran(u, far) = TC!Ran(t, far)
  <2>1. /\ TC!Definition(u).type = TC!Definition(t).type
        /\ TC!Definition(u).endpoint = TC!Definition(t).endpoint
        /\ TC!Definition(u).handler = TC!Definition(t).handler
    BY <1>1, DefinitionKeeps
  <2>2. TC!Execute(TC!Definition(u), far) = TC!Execute(TC!Definition(t), far)
    BY <2>1 DEF TC!Execute, TC!Rest, TC!Mcp, TC!Internal
  <2> QED
    BY <1>1, <2>2 DEF TC!Ran
<1>5. TC!Invoke(c, u, far) = TC!ExecuteApproved(freed, t, far)
  BY <1>3, <1>4 DEF TC!Invoke, TC!ExecuteApproved
<1>6. [waits EXCEPT !.approval = "APPROVED"] = approved
  BY DEF TC!NewRow
<1>7. TC!Resume(TC!Invoke(c, t, far).row, t, far) = TC!ExecuteApproved(approved, t, far)
  BY <1>2, <1>6 DEF TC!Resume
<1>8. TC!Finish(approved, r) = [TC!Finish(freed, r) EXCEPT !.approval = "APPROVED"]
  <2>1. r \in Results
    BY RanIs
  <2> HIDE DEF r
  <2>2. \A approval : TC!Finish([TC!NewRow EXCEPT !.approval = approval], r) =
              [approval |-> approval, success |-> {r.success}, error |-> r.error,
               length |-> IF r.length > MaxChars THEN MaxChars ELSE r.length,
               truncated |-> r.truncated]
    BY <2>1, FinishIs
  <2>3. TC!Finish(freed, r) =
              [approval |-> "NOT_REQUIRED", success |-> {r.success}, error |-> r.error,
               length |-> IF r.length > MaxChars THEN MaxChars ELSE r.length,
               truncated |-> r.truncated]
    BY <2>2
  <2> HIDE DEF freed
  <2> QED
    BY <2>2, <2>3
<1> QED
  BY <1>5, <1>7, <1>8 DEF TC!ExecuteApproved, u

\* validate and execute: a tool that registration let through never fails for what
\* registration could have seen.
THEOREM ValidIsRunnable ==
    ASSUME MaxChars \in Nat \ {0}, NEW Ids, NEW Rights, NEW c, NEW t \in ToolOf(Ids, Rights),
           NEW far \in FarSide, TC!Valid(t), NEW r \in TC!Invoke(c, t, far).result
    PROVE  r.error \notin Unrunnable
<1>1. LetThrough(c, t)
  <2>1. ASSUME ~LetThrough(c, t) PROVE TC!Invoke(c, t, far).result = {}
    BY <2>1, RefusedRunsNothing
  <2> QED
    BY <2>1
<1>2. r = TC!Ran(t, far)
  BY <1>1 DEF TC!Invoke, LetThrough, TC!ExecuteApproved
<1> QED
  BY <1>2, RanIs

\* _auth_headers, _definition: arguments travel in one place at most, and no call that a
\* run makes carries the credential of its tool.
THEOREM CredentialStaysBehind ==
    ASSUME NEW Ids, NEW Rights, NEW t \in ToolOf(Ids, Rights), NEW args
    PROVE  LET s == TC!Sent(TC!Definition(t), args) IN
           s.header = {} /\ s.body \cap s.query = {} /\ s.body \cup s.query \subseteq args
<1>1. TC!Definition(t).cred = "none"
  BY DefinitionKeeps
<1>2. TC!Header(TC!Definition(t)) = {}
  BY <1>1 DEF TC!Header
<1>3. ~(TC!Definition(t).method \in {"POST", "PUT", "PATCH"} /\ TC!Definition(t).method = "GET")
  OBVIOUS
<1> QED
  BY <1>2, <1>3 DEF TC!Sent

-----------------------------------------------------------------------------
(* What becomes of the trace of a run in memory.                           *)

CONSTANTS MaxQueued, BatchSize

TR == INSTANCE Tracing

In(e, q) == \E i \in DOMAIN q : q[i] = e

\* An event of an earlier run, or the trace that a generation belongs to.
Ahead(a, b) == a[1] < b[1] \/ (a[1] = b[1] /\ a[2] = "trace" /\ b[2] = "generation")

Rising(q) == \A i, j \in DOMAIN q : i < j => Ahead(q[i], q[j])
Before(q, r) == \A i \in DOMAIN q, j \in DOMAIN r : Ahead(q[i], r[j])

\* The events of the first n runs.
EventOf(n) == (1 .. n) \X {"trace", "generation"}

InPipe(c, e) == In(e, c.posted) \/ In(e, c.taken) \/ In(e, c.queue)

\* The events S have one fate each: in the pipe, in the order they were recorded in, lost
\* with a batch, or dropped.
Fated(c, S) ==
    /\ c = [task |-> c.task, open |-> c.open, queue |-> c.queue, taken |-> c.taken,
            posted |-> c.posted, lost |-> c.lost, dropped |-> c.dropped]
    /\ c.queue \in Seq(S) /\ c.taken \in Seq(S) /\ c.posted \in Seq(S)
    /\ Rising(c.queue) /\ Rising(c.taken) /\ Rising(c.posted)
    /\ Before(c.posted, c.taken) /\ Before(c.posted, c.queue) /\ Before(c.taken, c.queue)
    /\ c.lost \subseteq S /\ c.dropped \subseteq S
    /\ \A e \in S : InPipe(c, e) \/ e \in c.lost \/ e \in c.dropped
    /\ \A e \in S : InPipe(c, e) => e \notin c.lost /\ e \notin c.dropped
    /\ \A e \in S : e \in c.lost => e \notin c.dropped
    /\ Len(c.queue) <= MaxQueued /\ Len(c.taken) <= BatchSize

\* A batch is under way only while there is a task, and a task only while there is a
\* transport.
Attended(c) == (c.taken # <<>> => c.task = "sleeps") /\ (c.task = "sleeps" => c.open)

LEMMA InIs ==
    ASSUME NEW S, NEW q \in Seq(S), NEW e
    PROVE  /\ In(e, q) <=> \E i \in 1 .. Len(q) : q[i] = e
           /\ In(e, q) => e \in S
           /\ Len(q) \in Nat /\ DOMAIN q = 1 .. Len(q) /\ \A i \in 1 .. Len(q) : q[i] \in S
BY LenProperties DEF In

\* A new event at the end of the queue, which is after all that were recorded, or nowhere.
Grew(c, d, e) ==
    /\ d.task = c.task /\ d.open = c.open /\ d.posted = c.posted /\ d.taken = c.taken
    /\ d.lost = c.lost
    /\ \/ Len(c.queue) < MaxQueued /\ d.queue = Append(c.queue, e) /\ d.dropped = c.dropped
       \/ Len(c.queue) = MaxQueued /\ d.queue = c.queue /\ d.dropped = c.dropped \cup {e}

LEMMA PutIs ==
    ASSUME MaxQueued \in Nat, NEW S, NEW c, Fated(c, S), NEW e, e \notin S,
           \A x \in S : Ahead(x, e)
    PROVE  Fated(TR!Put(c, e), S \cup {e}) /\ Grew(c, TR!Put(c, e), e)
<1> DEFINE d == TR!Put(c, e)
           T == S \cup {e}
<1>1. c.queue \in Seq(T) /\ c.taken \in Seq(T) /\ c.posted \in Seq(T)
  <2>1. \A q \in Seq(S) : q \in Seq(T)
    OBVIOUS
  <2> QED
    BY <2>1 DEF Fated
<1>2. ~InPipe(c, e) /\ e \notin c.lost /\ e \notin c.dropped
  BY InIs DEF InPipe, Fated
<1>3. CASE Len(c.queue) < MaxQueued
  <2> DEFINE q == Append(c.queue, e)
  <2>1. d = [c EXCEPT !.queue = q]
    BY <1>3 DEF TR!Put, Fated
  <2>2. q \in Seq(T) /\ Len(q) = Len(c.queue) + 1 /\ Len(c.queue) \in Nat
        /\ (\A i \in 1 .. Len(c.queue) : q[i] = c.queue[i]) /\ q[Len(c.queue) + 1] = e
    BY <1>1, AppendProperties, LenProperties
  <2> HIDE DEF q, d
  <2>3. /\ d = [task |-> c.task, open |-> c.open, queue |-> q, taken |-> c.taken,
                posted |-> c.posted, lost |-> c.lost, dropped |-> c.dropped]
    BY <2>1 DEF Fated
  <2>4. /\ d.queue = q /\ d.taken = c.taken /\ d.posted = c.posted /\ d.lost = c.lost
        /\ d.dropped = c.dropped /\ d.task = c.task /\ d.open = c.open
        /\ d = [task |-> d.task, open |-> d.open, queue |-> d.queue, taken |-> d.taken,
                posted |-> d.posted, lost |-> d.lost, dropped |-> d.dropped]
    BY <2>3
  <2>5. DOMAIN q = 1 .. Len(c.queue) + 1 /\ DOMAIN c.queue = 1 .. Len(c.queue)
        /\ \A i \in DOMAIN c.queue : c.queue[i] \in S
    BY <2>2, LenProperties DEF Fated
  <2>6. Rising(q)
    <3> SUFFICES ASSUME NEW i \in DOMAIN q, NEW j \in DOMAIN q, i < j
                 PROVE  Ahead(q[i], q[j])
      BY DEF Rising
    <3>1. i \in DOMAIN c.queue /\ q[i] = c.queue[i] /\ c.queue[i] \in S
      BY <2>2, <2>5
    <3>2. CASE j \in DOMAIN c.queue
      <4>1. q[j] = c.queue[j]
        BY <2>2, <2>5, <3>2
      <4> QED
        BY <3>1, <3>2, <4>1 DEF Rising, Fated
    <3>3. CASE j \notin DOMAIN c.queue
      <4>1. q[j] = e
        BY <2>2, <2>5, <3>3
      <4> QED
        BY <3>1, <4>1
    <3> QED
      BY <3>2, <3>3
  <2>7. \A r : r \in Seq(S) /\ Before(r, c.queue) => Before(r, q)
    BY <2>2, <2>5, LenProperties DEF Before
  <2>8. \A x : In(x, q) <=> In(x, c.queue) \/ x = e
    BY <2>2, <2>5 DEF In
  <2>9. \A x : InPipe(d, x) <=> InPipe(c, x) \/ x = e
    BY <2>4, <2>8 DEF InPipe
  <2>10. Before(d.posted, d.queue) /\ Before(d.taken, d.queue)
    BY <2>4, <2>7 DEF Fated
  <2>11. Len(q) <= MaxQueued
    BY <1>3, <2>2
  <2>12. Fated(d, T)
    BY <1>1, <1>2, <2>2, <2>4, <2>6, <2>9, <2>10, <2>11 DEF Fated
  <2> QED
    BY <1>3, <2>4, <2>12 DEF d, q, Grew
<1>4. CASE ~(Len(c.queue) < MaxQueued)
  <2>1. d = [c EXCEPT !.dropped = c.dropped \cup {e}]
    BY <1>4 DEF TR!Put, Fated
  <2> HIDE DEF d
  <2>2. /\ d = [task |-> c.task, open |-> c.open, queue |-> c.queue, taken |-> c.taken,
                posted |-> c.posted, lost |-> c.lost, dropped |-> c.dropped \cup {e}]
    BY <2>1 DEF Fated
  <2>3. /\ d.queue = c.queue /\ d.taken = c.taken /\ d.posted = c.posted /\ d.lost = c.lost
        /\ d.dropped = c.dropped \cup {e} /\ d.task = c.task /\ d.open = c.open
        /\ d = [task |-> d.task, open |-> d.open, queue |-> d.queue, taken |-> d.taken,
                posted |-> d.posted, lost |-> d.lost, dropped |-> d.dropped]
    BY <2>2
  <2>4. \A x : InPipe(d, x) <=> InPipe(c, x)
    BY <2>3 DEF InPipe
  <2>5. Fated(d, T)
    BY <1>1, <1>2, <2>3, <2>4 DEF Fated
  <2>6. Len(c.queue) = MaxQueued
    BY <1>4, LenProperties DEF Fated
  <2> QED
    BY <2>3, <2>5, <2>6 DEF d, Grew
<1> QED
  BY <1>3, <1>4

\* A batch leaves the queue in its order, and is posted in it.
LEMMA TakeIs ==
    ASSUME MaxQueued \in Nat, BatchSize \in Nat, NEW S, NEW c, Fated(c, S), c.taken = <<>>
    PROVE  /\ Fated(TR!Take(c), S)
           /\ TR!Take(c).task = c.task /\ TR!Take(c).open = c.open
           /\ TR!Take(c).dropped = c.dropped
           /\ TR!Take(c).taken # <<>> => c.queue # <<>>
<1> DEFINE n == Len(c.queue)
           k == IF n < BatchSize THEN n ELSE BatchSize
           b == SubSeq(c.queue, 1, k)
           r == SubSeq(c.queue, k + 1, n)
           d == TR!Take(c)
<1>1. CASE c.queue = <<>>
  <2>1. d = c
    BY <1>1 DEF TR!Take
  <2> QED
    BY <2>1
<1>2. CASE c.queue # <<>>
  <2>1. c.queue \in Seq(S) /\ n \in Nat /\ DOMAIN c.queue = 1 .. n
        /\ \A i \in 1 .. n : c.queue[i] \in S
    BY LenProperties DEF Fated
  <2>2. k \in 0 .. n /\ k <= BatchSize
    BY <2>1
  <2>3. TR!Batch(c) = b
    BY DEF TR!Batch
  <2> HIDE DEF k
  <2>4. b \in Seq(S) /\ Len(b) = k /\ \A i \in 1 .. k : b[i] = c.queue[i]
    <3>1. \A i \in 1 .. k : c.queue[i] \in S
      BY <2>1, <2>2
    <3>2. /\ b \in Seq(S) /\ Len(b) = IF 1 <= k THEN k - 1 + 1 ELSE 0
          /\ \A i \in 1 .. k - 1 + 1 : b[i] = c.queue[1 + i - 1]
      BY <2>2, <3>1, SubSeqProperties
    <3> QED
      BY <2>2, <3>2
  <2>5. r \in Seq(S) /\ Len(r) = n - k /\ \A i \in 1 .. n - k : r[i] = c.queue[k + i]
    <3>1. \A i \in k + 1 .. n : c.queue[i] \in S
      BY <2>1, <2>2
    <3>2. /\ r \in Seq(S) /\ Len(r) = IF k + 1 <= n THEN n - (k + 1) + 1 ELSE 0
          /\ \A i \in 1 .. n - (k + 1) + 1 : r[i] = c.queue[k + 1 + i - 1]
      BY <2>1, <2>2, <3>1, SubSeqProperties
    <3> QED
      BY <2>1, <2>2, <3>2
  <2>6. d = [c EXCEPT !.taken = b, !.queue = r]
    BY <1>2, <2>3, <2>4 DEF TR!Take, Fated
  <2> HIDE DEF b, r, d, n
  <2>7. d = [task |-> c.task, open |-> c.open, queue |-> r, taken |-> b,
             posted |-> c.posted, lost |-> c.lost, dropped |-> c.dropped]
    BY <2>6 DEF Fated
  <2>8. /\ d.queue = r /\ d.taken = b /\ d.posted = c.posted /\ d.lost = c.lost
        /\ d.dropped = c.dropped /\ d.task = c.task /\ d.open = c.open
        /\ d = [task |-> d.task, open |-> d.open, queue |-> d.queue, taken |-> d.taken,
                posted |-> d.posted, lost |-> d.lost, dropped |-> d.dropped]
    BY <2>7
  <2>9. DOMAIN b = 1 .. k /\ DOMAIN r = 1 .. n - k
    BY <2>4, <2>5, LenProperties
  <2>10. \A i, j \in 1 .. n : i < j => Ahead(c.queue[i], c.queue[j])
    BY <2>1 DEF Fated, Rising
  <2>11. Rising(b)
    BY <2>1, <2>2, <2>4, <2>9, <2>10 DEF Rising
  <2>12. Rising(r)
    <3> SUFFICES ASSUME NEW i \in 1 .. n - k, NEW j \in 1 .. n - k, i < j
                 PROVE  Ahead(r[i], r[j])
      BY <2>9 DEF Rising
    <3>1. k + i \in 1 .. n /\ k + j \in 1 .. n /\ k + i < k + j
      BY <2>1, <2>2
    <3> QED
      BY <2>5, <2>10, <3>1
  <2>13. Before(b, r)
    <3> SUFFICES ASSUME NEW i \in 1 .. k, NEW j \in 1 .. n - k
                 PROVE  Ahead(b[i], r[j])
      BY <2>9 DEF Before
    <3>1. i \in 1 .. n /\ k + j \in 1 .. n /\ i < k + j
      BY <2>1, <2>2
    <3> QED
      BY <2>4, <2>5, <2>10, <3>1
  <2>14. /\ \A i \in DOMAIN b : \E j \in 1 .. n : b[i] = c.queue[j]
         /\ \A i \in DOMAIN r : \E j \in 1 .. n : r[i] = c.queue[j]
    <3>1. \A i \in 1 .. k : i \in 1 .. n
      BY <2>1, <2>2
    <3>2. \A i \in 1 .. n - k : k + i \in 1 .. n
      BY <2>1, <2>2
    <3> QED
      BY <2>4, <2>5, <2>9, <3>1, <3>2
  <2>15. Before(c.posted, b) /\ Before(c.posted, r)
    BY <2>1, <2>14 DEF Before, Fated
  <2>16. \A e : In(e, c.queue) <=> In(e, b) \/ In(e, r)
    <3> SUFFICES ASSUME NEW e PROVE In(e, c.queue) <=> In(e, b) \/ In(e, r)
      OBVIOUS
    <3>1. In(e, b) \/ In(e, r) => In(e, c.queue)
      BY <2>1, <2>14 DEF In
    <3>2. ASSUME NEW i \in 1 .. n, c.queue[i] = e PROVE In(e, b) \/ In(e, r)
      <4>1. CASE i <= k
        <5>1. i \in 1 .. k
          BY <2>2, <4>1
        <5> QED
          BY <2>4, <2>9, <3>2, <5>1 DEF In
      <4>2. CASE ~(i <= k)
        <5>1. i - k \in 1 .. n - k /\ k + (i - k) = i
          BY <2>1, <2>2, <4>2
        <5> QED
          BY <2>5, <2>9, <3>2, <5>1 DEF In
      <4> QED
        BY <4>1, <4>2
    <3> QED
      BY <2>1, <3>1, <3>2 DEF In
  <2>17. \A e : ~In(e, c.taken)
    BY DEF In
  <2>18. \A e : InPipe(d, e) <=> InPipe(c, e)
    BY <2>8, <2>16, <2>17 DEF InPipe
  <2>19. Len(r) <= MaxQueued
    BY <2>1, <2>2, <2>5 DEF Fated, n
  <2>20. Fated(d, S)
    BY <2>2, <2>4, <2>5, <2>8, <2>11, <2>12, <2>13, <2>15, <2>18, <2>19 DEF Fated
  <2> QED
    BY <1>2, <2>8, <2>20 DEF d
<1> QED
  BY <1>1, <1>2

\* What the collector answers, or not: the batch is at its end, or lost for good.
LEMMA AnsweredIs ==
    ASSUME NEW S, \A e \in S : ~Ahead(e, e), NEW c, Fated(c, S), NEW arrived \in BOOLEAN,
           BatchSize \in Nat
    PROVE  /\ Fated(TR!Answered(c, arrived), S)
           /\ TR!Answered(c, arrived).task = c.task /\ TR!Answered(c, arrived).open = c.open
           /\ TR!Answered(c, arrived).dropped = c.dropped
           /\ TR!Answered(c, arrived).taken = <<>>
<1> DEFINE d == TR!Answered(c, arrived)
           p == c.posted \o c.taken
           l == c.lost \cup TR!ToSet(c.taken)
<1>1. /\ c.posted \in Seq(S) /\ DOMAIN c.posted = 1 .. Len(c.posted) /\ Len(c.posted) \in Nat
      /\ c.taken \in Seq(S) /\ DOMAIN c.taken = 1 .. Len(c.taken) /\ Len(c.taken) \in Nat
  BY LenProperties DEF Fated
<1>2. <<>> \in Seq(S) /\ Len(<<>>) = 0 /\ DOMAIN <<>> = {} /\ (\A e : ~In(e, <<>>))
      /\ Rising(<<>>) /\ (\A q : Before(q, <<>>) /\ Before(<<>>, q))
  BY DEF In, Rising, Before
<1>3. CASE arrived
  <2>1. d = [c EXCEPT !.taken = <<>>, !.posted = p, !.lost = c.lost]
    BY <1>3 DEF TR!Answered, Fated
  <2>2. p \in Seq(S)
    BY <1>1, ConcatProperties
  <2>3. PICK a \in Nat, b \in Nat :
           /\ DOMAIN c.posted = 1 .. a /\ DOMAIN c.taken = 1 .. b /\ DOMAIN p = 1 .. a + b
           /\ \A i \in 1 .. a + b : p[i] = IF i <= a THEN c.posted[i] ELSE c.taken[i - a]
    <3>1. /\ Len(p) = Len(c.posted) + Len(c.taken)
          /\ \A i \in 1 .. Len(c.posted) + Len(c.taken) :
                p[i] = IF i <= Len(c.posted) THEN c.posted[i] ELSE c.taken[i - Len(c.posted)]
      BY <1>1, ConcatProperties
    <3>2. DOMAIN p = 1 .. Len(p)
      BY <2>2, LenProperties
    <3> HIDE DEF p
    <3> QED
      BY <1>1, <3>1, <3>2
  <2> HIDE DEF p, d
  <2>4. d = [task |-> c.task, open |-> c.open, queue |-> c.queue, taken |-> <<>>,
             posted |-> p, lost |-> c.lost, dropped |-> c.dropped]
    BY <2>1 DEF Fated
  <2>5. /\ d.queue = c.queue /\ d.taken = <<>> /\ d.posted = p /\ d.lost = c.lost
        /\ d.dropped = c.dropped /\ d.task = c.task /\ d.open = c.open
        /\ d = [task |-> d.task, open |-> d.open, queue |-> d.queue, taken |-> d.taken,
                posted |-> d.posted, lost |-> d.lost, dropped |-> d.dropped]
    BY <2>4
  <2>6. \A i \in DOMAIN p :
           \/ i \in DOMAIN c.posted /\ p[i] = c.posted[i]
           \/ /\ ~(i <= a) /\ i - a \in DOMAIN c.taken
              /\ p[i] = c.taken[i - a]
    BY <2>3
  <2>7. Rising(p)
    <3> SUFFICES ASSUME NEW i \in DOMAIN p, NEW j \in DOMAIN p, i < j
                 PROVE  Ahead(p[i], p[j])
      BY DEF Rising
    <3>1. CASE i \in DOMAIN c.posted /\ j \in DOMAIN c.posted
      <4>1. p[i] = c.posted[i] /\ p[j] = c.posted[j]
        BY <2>3, <3>1
      <4> QED
        BY <3>1, <4>1 DEF Fated, Rising
    <3>2. CASE i \in DOMAIN c.posted /\ j \notin DOMAIN c.posted
      <4>1. p[i] = c.posted[i] /\ p[j] = c.taken[j - a]
            /\ j - a \in DOMAIN c.taken
        BY <2>3, <3>2
      <4> QED
        BY <3>2, <4>1 DEF Fated, Before
    <3>3. CASE i \notin DOMAIN c.posted
      <4>1. /\ p[i] = c.taken[i - a] /\ i - a \in DOMAIN c.taken
            /\ p[j] = c.taken[j - a] /\ j - a \in DOMAIN c.taken
            /\ i - a < j - a
        BY <2>3, <3>3
      <4> QED
        BY <4>1 DEF Fated, Rising
    <3> QED
      BY <3>1, <3>2, <3>3
  <2>8. Before(p, c.queue)
    BY <2>6 DEF Fated, Before
  <2>9. \A e : In(e, p) <=> In(e, c.posted) \/ In(e, c.taken)
    <3> SUFFICES ASSUME NEW e PROVE In(e, p) <=> In(e, c.posted) \/ In(e, c.taken)
      OBVIOUS
    <3>1. In(e, p) => In(e, c.posted) \/ In(e, c.taken)
      BY <2>6 DEF In
    <3>2. In(e, c.posted) => In(e, p)
      BY <2>3 DEF In
    <3>3. ASSUME NEW i \in 1 .. b, c.taken[i] = e PROVE In(e, p)
      <4>1. i + a \in DOMAIN p /\ ~(i + a <= a)
            /\ i + a - a = i
        BY <2>3
      <4>2. p[i + a] = c.taken[i + a - a]
        BY <2>3, <4>1
      <4> QED
        BY <3>3, <4>1, <4>2 DEF In
    <3> QED
      BY <2>3, <3>1, <3>2, <3>3 DEF In
  <2>10. \A e : InPipe(d, e) <=> InPipe(c, e)
    BY <1>2, <2>5, <2>9 DEF InPipe
  <2>11. Fated(d, S)
    BY <1>2, <2>2, <2>5, <2>7, <2>8, <2>10 DEF Fated
  <2> QED
    BY <2>5, <2>11 DEF d
<1>4. CASE ~arrived
  <2>1. d = [c EXCEPT !.taken = <<>>, !.posted = c.posted, !.lost = l]
    BY <1>4 DEF TR!Answered, Fated
  <2>2. \A e : e \in l <=> e \in c.lost \/ In(e, c.taken)
    BY DEF TR!ToSet, In
  <2> HIDE DEF l, d
  <2>3. d = [task |-> c.task, open |-> c.open, queue |-> c.queue, taken |-> <<>>,
             posted |-> c.posted, lost |-> l, dropped |-> c.dropped]
    BY <2>1 DEF Fated
  <2>4. /\ d.queue = c.queue /\ d.taken = <<>> /\ d.posted = c.posted /\ d.lost = l
        /\ d.dropped = c.dropped /\ d.task = c.task /\ d.open = c.open
        /\ d = [task |-> d.task, open |-> d.open, queue |-> d.queue, taken |-> d.taken,
                posted |-> d.posted, lost |-> d.lost, dropped |-> d.dropped]
    BY <2>3
  <2>5. \A e \in S : In(e, c.taken) => ~In(e, c.posted) /\ ~In(e, c.queue)
    BY DEF In, Fated, Before
  <2>6. \A e : InPipe(d, e) <=> In(e, c.posted) \/ In(e, c.queue)
    BY <1>2, <2>4 DEF InPipe
  <2>7. \A e : In(e, c.taken) => e \in S
    BY <1>1, InIs
  <2>8. l \subseteq S
    BY <2>2, <2>7 DEF Fated
  <2>9. \A e \in S : InPipe(d, e) \/ e \in d.lost \/ e \in d.dropped
    BY <2>2, <2>4, <2>6 DEF Fated, InPipe
  <2>10. \A e \in S : InPipe(d, e) => e \notin d.lost /\ e \notin d.dropped
    BY <2>2, <2>4, <2>5, <2>6 DEF Fated, InPipe
  <2>11. \A e \in S : e \in d.lost => e \notin d.dropped
    BY <2>2, <2>4 DEF Fated, InPipe
  <2>12. Fated(d, S)
    BY <1>2, <2>4, <2>8, <2>9, <2>10, <2>11 DEF Fated
  <2> QED
    BY <2>4, <2>12 DEF d
<1> QED
  BY <1>3, <1>4

\* A run whose trace found no room has no generation in the queue either.
Paired(c) == \A r : <<r, "trace">> \in c.dropped => <<r, "generation">> \in c.dropped

Traced(c, n) ==
    Fated(c, EventOf(n)) /\ Attended(c) /\ Paired(c) /\ c.task \in {"none", "sleeps"}

LEMMA RecordIs ==
    ASSUME MaxQueued \in Nat, NEW n \in Nat, NEW c, Traced(c, n)
    PROVE  Traced(TR!Record(c, n + 1), n + 1)
<1> DEFINE S == EventOf(n)
           e == <<n + 1, "trace">>
           f == <<n + 1, "generation">>
           c1 == TR!Put(c, e)
           c2 == TR!Put(c1, f)
<1>1. /\ e \notin S /\ \A x \in S : Ahead(x, e)
      /\ f \notin S \cup {e} /\ \A x \in S \cup {e} : Ahead(x, f)
      /\ (S \cup {e}) \cup {f} = EventOf(n + 1)
  <2>1. e \notin S /\ f \notin S /\ e # f
    BY DEF EventOf
  <2>2. \A x \in S : Ahead(x, e) /\ Ahead(x, f)
    BY DEF EventOf, Ahead
  <2>3. Ahead(e, f)
    BY DEF Ahead
  <2>4. (S \cup {e}) \cup {f} = EventOf(n + 1)
    BY DEF EventOf
  <2> HIDE DEF e, f, S
  <2> QED
    BY <2>1, <2>2, <2>3, <2>4
<1>2. TR!Record(c, n + 1) = c2
  BY DEF TR!Record
<1> HIDE DEF S, c1
<1>3. Fated(c, S)
  BY DEF Traced, S
<1>4. Fated(c1, S \cup {e}) /\ Grew(c, c1, e)
  <2> HIDE DEF e
  <2> QED
    BY <1>1, <1>3, PutIs DEF c1
<1>5. Fated(c2, (S \cup {e}) \cup {f}) /\ Grew(c1, c2, f)
  <2> HIDE DEF e, f
  <2> QED
    BY <1>1, <1>4, PutIs
<1> HIDE DEF c2
<1>6. /\ c2.task = c.task /\ c2.open = c.open /\ c2.taken = c.taken
      /\ c.dropped \subseteq c1.dropped /\ c1.dropped \subseteq c2.dropped
      /\ \A x \in c2.dropped : x \in c.dropped \/ x = e \/ x = f
      /\ e \in c2.dropped => f \in c2.dropped
  <2>1. e \notin c.dropped
    BY <1>1, <1>3 DEF Fated
  <2>2. e # f
    OBVIOUS
  <2> HIDE DEF e, f
  <2> QED
    BY <1>4, <1>5, <2>1, <2>2 DEF Grew
<1>7. Paired(c2)
  <2> SUFFICES ASSUME NEW r, <<r, "trace">> \in c2.dropped
               PROVE  <<r, "generation">> \in c2.dropped
    BY DEF Paired
  <2>1. CASE <<r, "trace">> \in c.dropped
    BY <1>6, <2>1 DEF Traced, Paired
  <2>2. CASE <<r, "trace">> \notin c.dropped
    <3>1. <<r, "trace">> = e
      BY <1>6, <2>2
    <3>2. r = n + 1
      BY <3>1
    <3> QED
      BY <1>6, <3>1, <3>2
  <2> QED
    BY <2>1, <2>2
<1>8. Attended(c2) /\ c2.task \in {"none", "sleeps"}
  BY <1>6 DEF Traced, Attended
<1> QED
  BY <1>1, <1>2, <1>5, <1>7, <1>8 DEF Traced

\* record_run, _flush, _drain_forever, stop: every event of every run recorded has one fate:
\* it is at the collector, in a batch under way, queued, lost with a batch, or was dropped;
\* what is in the pipe is there in the order it was recorded in; queue and batch keep their
\* bounds, and a batch is under way only while there is a task and a transport.
THEOREM EventsHaveOneFate ==
    ASSUME MaxQueued \in Nat, BatchSize \in Nat, NEW n \in Nat
    PROVE  /\ Traced(TR!New, 0)
           /\ \A c : Traced(c, n) =>
                 /\ Traced(TR!Record(c, n + 1), n + 1)
                 /\ c.open => Traced(TR!Start(c), n)
                 /\ \A d \in TR!Drains(c) \cup TR!Stop(c) : Traced(d, n)
<1> DEFINE S == EventOf(n)
<1>1. \A e \in S : ~Ahead(e, e)
  BY DEF EventOf, Ahead
<1>2. Traced(TR!New, 0)
  <2> DEFINE c == TR!New
  <2>1. /\ c.queue = <<>> /\ c.taken = <<>> /\ c.posted = <<>> /\ c.lost = {} /\ c.dropped = {}
        /\ c.task = "none" /\ c.open = TRUE
        /\ c = [task |-> c.task, open |-> c.open, queue |-> c.queue, taken |-> c.taken,
                posted |-> c.posted, lost |-> c.lost, dropped |-> c.dropped]
    BY DEF TR!New
  <2> HIDE DEF c
  <2>2. EventOf(0) = {}
    BY DEF EventOf
  <2>3. /\ <<>> \in Seq(EventOf(0)) /\ Len(<<>>) = 0
        /\ Rising(<<>>) /\ Before(<<>>, <<>>)
    BY DEF Rising, Before
  <2>4. Fated(c, EventOf(0))
    BY <2>1, <2>2, <2>3 DEF Fated
  <2>5. Traced(c, 0)
    BY <2>1, <2>4 DEF Traced, Attended, Paired
  <2> QED
    BY <2>5 DEF c
<1>3. ASSUME NEW c, Traced(c, n), c.open PROVE Traced(TR!Start(c), n)
  <2>1. CASE c.task # "none"
    BY <1>3, <2>1 DEF TR!Start
  <2>2. CASE c.task = "none"
    <3> DEFINE d == TR!Start(c)
    <3>1. d = [c EXCEPT !.task = "sleeps"]
      BY <2>2 DEF TR!Start
    <3> HIDE DEF d
    <3>2. d = [task |-> "sleeps", open |-> c.open, queue |-> c.queue, taken |-> c.taken,
               posted |-> c.posted, lost |-> c.lost, dropped |-> c.dropped]
      BY <1>3, <3>1 DEF Traced, Fated
    <3>3. /\ d.queue = c.queue /\ d.taken = c.taken /\ d.posted = c.posted /\ d.lost = c.lost
          /\ d.dropped = c.dropped /\ d.task = "sleeps" /\ d.open = c.open
          /\ d = [task |-> d.task, open |-> d.open, queue |-> d.queue, taken |-> d.taken,
                  posted |-> d.posted, lost |-> d.lost, dropped |-> d.dropped]
      BY <3>2
    <3>4. Fated(d, S)
      BY <1>3, <3>3 DEF Traced, Fated, InPipe
    <3>5. Traced(d, n)
      BY <1>3, <3>3, <3>4 DEF Traced, Attended, Paired
    <3> QED
      BY <3>5 DEF d
  <2> QED
    BY <2>1, <2>2
<1> HIDE DEF S
<1>4. ASSUME NEW c, Traced(c, n), NEW d \in TR!Drains(c) PROVE Traced(d, n)
  <2>1. c.task = "sleeps"
    BY <1>4 DEF TR!Drains
  <2>2. CASE c.taken = <<>>
    <3>1. d = TR!Take(c)
      BY <1>4, <2>1, <2>2 DEF TR!Drains
    <3>2. Fated(d, S) /\ d.task = c.task /\ d.open = c.open /\ d.dropped = c.dropped
      BY <1>4, <2>2, <3>1, TakeIs DEF Traced, S
    <3> QED
      BY <1>4, <2>1, <3>2 DEF Traced, Attended, Paired, S
  <2>3. CASE c.taken # <<>>
    <3>1. PICK a \in BOOLEAN : d = TR!Answered(c, a)
      BY <1>4, <2>1, <2>3 DEF TR!Drains
    <3>2. /\ Fated(d, S) /\ d.task = c.task /\ d.open = c.open /\ d.dropped = c.dropped
          /\ d.taken = <<>>
      BY <1>1, <1>4, <3>1, AnsweredIs DEF Traced, S
    <3> QED
      BY <1>4, <3>2 DEF Traced, Attended, Paired, S
  <2> QED
    BY <2>2, <2>3
<1>5. ASSUME NEW c, Traced(c, n), NEW d \in TR!Stop(c) PROVE Traced(d, n)
  <2>1. CASE c.task = "none"
    BY <1>5, <2>1 DEF TR!Stop
  <2>2. CASE c.task # "none"
    <3>1. PICK a \in BOOLEAN, b \in BOOLEAN : d = TR!Answered(TR!Take(TR!Ended(c, a)), b)
      BY <1>5, <2>2 DEF TR!Stop
    <3> DEFINE x == TR!Answered(c, a)
               y == TR!Ended(c, a)
               z == TR!Take(y)
    <3>2. Fated(x, S) /\ x.dropped = c.dropped /\ x.taken = <<>>
      BY <1>1, <1>5, AnsweredIs DEF Traced, S
    <3>3. y = [x EXCEPT !.task = "none", !.open = FALSE]
      BY DEF TR!Ended
    <3> HIDE DEF x, y
    <3>4. y = [task |-> "none", open |-> FALSE, queue |-> x.queue, taken |-> x.taken,
               posted |-> x.posted, lost |-> x.lost, dropped |-> x.dropped]
      BY <3>2, <3>3 DEF Fated
    <3>5. /\ y.queue = x.queue /\ y.taken = x.taken /\ y.posted = x.posted /\ y.lost = x.lost
          /\ y.dropped = x.dropped /\ y.task = "none" /\ y.open = FALSE
          /\ y = [task |-> y.task, open |-> y.open, queue |-> y.queue, taken |-> y.taken,
                  posted |-> y.posted, lost |-> y.lost, dropped |-> y.dropped]
      BY <3>4
    <3>6. Fated(y, S)
      BY <3>2, <3>5 DEF Fated, InPipe
    <3>7. Fated(z, S) /\ z.task = "none" /\ z.dropped = c.dropped
      BY <3>2, <3>5, <3>6, TakeIs
    <3>8. d = TR!Answered(z, b)
      BY <3>1 DEF y
    <3> HIDE DEF z
    <3>9. Fated(d, S) /\ d.task = "none" /\ d.dropped = c.dropped /\ d.taken = <<>>
      BY <1>1, <3>7, <3>8, AnsweredIs
    <3> QED
      BY <1>5, <3>9 DEF Traced, Attended, Paired, S
  <2> QED
    BY <2>1, <2>2
<1>6. ASSUME NEW c, Traced(c, n) PROVE Traced(TR!Record(c, n + 1), n + 1)
  BY <1>6, RecordIs
<1> QED
  BY <1>2, <1>3, <1>4, <1>5, <1>6

\* record_run, _flush: the collector has a generation without its trace only if a batch was
\* lost.
THEOREM GenerationsHaveTraces ==
    ASSUME NEW n \in Nat, NEW c, Traced(c, n), c.lost = {}, NEW r,
           In(<<r, "generation">>, c.posted)
    PROVE  In(<<r, "trace">>, c.posted)
<1> DEFINE S == EventOf(n)
           e == <<r, "trace">>
           f == <<r, "generation">>
<1>1. c.posted \in Seq(S) /\ Fated(c, S)
  BY DEF Traced, Fated
<1>2. f \in S
  BY <1>1, InIs
<1>3. e \in S /\ r \in Nat
  BY <1>2 DEF EventOf
<1>4. f \notin c.dropped
  BY <1>1, <1>2 DEF Fated, InPipe
<1>5. e \notin c.dropped
  BY <1>4 DEF Traced, Paired
<1>6. ~Ahead(f, e)
  BY <1>3 DEF Ahead
<1> HIDE DEF e, f, S
<1>7. ~In(e, c.taken) /\ ~In(e, c.queue)
  BY <1>1, <1>6 DEF Fated, Before, In, f
<1>8. InPipe(c, e)
  BY <1>1, <1>3, <1>5 DEF Fated
<1> QED
  BY <1>7, <1>8 DEF InPipe, e
=============================================================================
