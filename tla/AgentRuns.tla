----------------------------- MODULE AgentRuns -----------------------------
(***************************************************************************)
(* One agent run and the people around it (services/agent_runs.py,         *)
(* services/agent_runtime.py, services/tool_pipeline.py): the request that *)
(* starts it, requests that answer its pending tool call, requests that    *)
(* cancel it, over the registry the run is assembled from.                 *)
(* Each request works in its own database session.  The run row, its       *)
(* events and its tool executions become visible at the commit, after the  *)
(* response; a row loaded once is never loaded again; nothing checks       *)
(* versions.  What orders two sessions is the locks an UPDATE takes and    *)
(* the unique index on (run_id, sequence).                                 *)
(* Left out: texts, token counts, traces, what was retrieved, other runs.       *)
(* TOOL_REQUESTED is committed with the outcome of its call, LLM_RESPONSE  *)
(* with the request it answers.  A call that needs nobody's approval is    *)
(* known by its event; a call held for approval has its row here.          *)
(***************************************************************************)
EXTENDS AgentRegistry

CONSTANTS
    MaxIter,     \* spec.max_iterations
    MaxCalls,    \* bound on the tool calls of one response
    Ops          \* the registry's operations an instance takes

ASSUME RunAssumption == MaxIter \in Nat /\ MaxCalls \in Nat

VARIABLES
    run,         \* committed row of agent_runs, or None
    trace,       \* committed rows of agent_run_events
    held,        \* committed rows of tool_executions that needed approval
    work         \* [Sess -> what a request holds, uncommitted]

runvars == <<run, trace, held, work>>
vars == <<regvars, runvars>>

RunState == {"RUNNING", "WAITING", "COMPLETED", "FAILED", "CANCELLED"}
Terminal == {"COMPLETED", "FAILED", "CANCELLED"}

\* seq and iter are the checkpoint, granted its frozen spec, may the frozen
\* permission of the invoking user.
RunRow == [st: RunState, seq: Nat, iter: Nat, granted: SUBSET Tool, may: BOOLEAN]

ASSUME NoneAssumption == None \notin RunRow /\ None \notin RunState

Kind == {"ask", "step", "ran", "end"}
Event == [seq: Nat, kind: Kind]

\* ran counts the effects of the tool on the world outside.
Call == [asked: Tool, st: {"PENDING", "APPROVED", "REJECTED", "EXPIRED"}, ran: Nat]

\* The calls of a session that starts or resumes: row, what it added, where
\* the loop is, and the decision it carries.  cut: the client has gone.
Work == [pc: {"idle", "loop", "calls", "answer", "closing", "commit",
              "read", "found", "decided", "reads", "cancel"},
         row: RunRow \cup {None}, add: Seq(Event), new: Seq(Call),
         left: Nat, verdict: RunState \cup {None},
         e: Nat, does: {"none", "APPROVED", "REJECTED", "EXPIRED"}, ran: BOOLEAN,
         locks: SUBSET {"run", "call"}, starts: BOOLEAN]

NoWork == [pc |-> "idle", row |-> None, add |-> <<>>, new |-> <<>>, left |-> 0,
           verdict |-> None, e |-> 0, does |-> "none", ran |-> FALSE,
           locks |-> {}, starts |-> FALSE]

Init ==
    /\ RegInit
    /\ run = None
    /\ trace = <<>>
    /\ held = <<>>
    /\ work = [s \in Sess |-> NoWork]

\* A session serves one request at a time.
Free(s) == work[s] = NoWork /\ edit[s] = NoEdit

Goes(s, w) == work' = [work EXCEPT ![s] = w]

Stored == UNCHANGED <<regvars, run, trace, held>>

\* The number of the next event this session writes.
NextSeq(w) == w.row.seq + Len(w.add)

Emit(w, ks) ==
    w.add \o [i \in 1 .. Len(ks) |-> [seq |-> NextSeq(w) + i - 1, kind |-> ks[i]]]

\* PendingCall: pending_for_run as another session sees it, 0 when there is none.
PendingCall ==
    LET P == {i \in DOMAIN held : held[i].st = "PENDING"}
    IN  IF P = {} THEN 0 ELSE CHOOSE i \in P : TRUE

\* Rows an uncommitted UPDATE has locked.
RunFree(s) == \A r \in Sess \ {s} : "run" \notin work[r].locks
CallFree(s, e) == \A r \in Sess \ {s} : ~("call" \in work[r].locks /\ work[r].e = e)

\* Whether an INSERT of event n meets a row, committed or still in flight.
SeqTaken(n) == \E i \in DOMAIN trace : trace[i].seq = n
SeqInFlight(s, n) ==
    \E r \in Sess \ {s} : \E i \in DOMAIN work[r].add : work[r].add[i].seq = n

\* Mutant: no unique index.
AdmittedAlways(s, n) == TRUE

\* A flush that inserts event n: it waits for one in flight, then is admitted
\* unless one has committed (uq on run_id, sequence).
Admitted(s, n) == ~SeqInFlight(s, n) /\ ~SeqTaken(n)

----------------------------------------------------------------------------
(* Starting.                                                               *)

\* build_spec: the grants of the current version whose tool is enabled.
Spec0(m) ==
    [st |-> "RUNNING", seq |-> 1, iter |-> 0, may |-> m,
     granted |-> {t \in versions[current].tools : t \in Here /\ tool[t].on}]

\* The events of _retrieve: RAG_SEARCH if the version's bases were searched,
\* MEMORY_READ if memories were recalled; a failed search is no event.
Retrieved == IF "retrieve" \in Ops THEN 0 .. 2 ELSE {0}

\* start: the row is flushed, and the stream opens with RUN_STARTED and with what
\* was retrieved.
Start(s, m) ==
    /\ run = None
    /\ Free(s)
    /\ \A r \in Sess : ~work[r].starts
    /\ \E found \in Retrieved :
          Goes(s, [NoWork EXCEPT !.pc = "loop", !.row = Spec0(m),
                      !.add = [i \in 1 .. 1 + found |-> [seq |-> i, kind |-> "step"]],
                      !.starts = TRUE, !.locks = {"run"}])
    /\ Stored

----------------------------------------------------------------------------
(* The loop of _run, for a session that starts or resumes.                 *)

\* A first flush of the loop writes the row, and waits for who has it locked.
Runs(s) == work[s].pc = "loop" /\ RunFree(s)

\* The last event is on its way to the client; the row is settled after it.
Closes(s, w, ks, verdict) ==
    Goes(s, [w EXCEPT !.pc = "closing", !.add = Emit(w, ks), !.verdict = verdict,
                      !.locks = @ \cup {"run"}])

\* The model is not serving when the session begins, or stops answering.
ModelFails(s) ==
    /\ Runs(s)
    /\ LET w == work[s] IN
          \/ /\ \A i \in DOMAIN w.add : w.add[i].kind # "ask"
             /\ Closes(s, w, <<"end">>, "FAILED")
          \/ /\ w.row.iter < MaxIter
             /\ Closes(s, [w EXCEPT !.row.iter = @ + 1], <<"ask", "end">>, "FAILED")
    /\ Stored

\* A request to the model and its response, with c tool calls.
Ask(s, c) ==
    /\ Runs(s)
    /\ work[s].row.iter < MaxIter
    /\ Goes(s, [work[s] EXCEPT !.row.iter = @ + 1, !.left = c,
                   !.pc = IF c = 0 THEN "answer" ELSE "calls",
                   !.add = Emit(work[s], <<"ask", "step">>),
                   !.locks = @ \cup {"run"}])
    /\ Stored

Answer(s) ==
    /\ work[s].pc = "answer"
    /\ Closes(s, work[s], <<"end">>, "COMPLETED")
    /\ Stored

\* Stopped after max_iterations: a failure, not a quiet truncation.

Exhausted(w) == w.row.iter >= MaxIter

RunOut(s) ==
    /\ Runs(s)
    /\ Exhausted(work[s])
    /\ Closes(s, work[s], <<"end">>, "FAILED")
    /\ Stored

\* After a call: the next one of the response, or the top of the loop.
NextCall(w) == [w EXCEPT !.left = @ - 1, !.pc = IF w.left = 1 THEN "loop" ELSE "calls"]

Calling(s) == work[s].pc = "calls"

\* The model made up a tool, or named one deleted since, whatever others there are.
CallUnknown(s) ==
    /\ Calling(s)
    /\ Goes(s, NextCall([work[s] EXCEPT !.add = Emit(work[s], <<"step">>)]))
    /\ Stored

\* _authorise: enabled now, granted to the version that started, permitted to
\* the user who started it.
Authorised(w, t) == tool[t].on /\ t \in w.row.granted /\ w.row.may

CallDenied(s, t) ==
    /\ Calling(s)
    /\ ByName(t)
    /\ ~Authorised(work[s], t)
    /\ Goes(s, NextCall([work[s] EXCEPT !.add = Emit(work[s], <<"step", "step">>)]))
    /\ Stored

CallRuns(s, t) ==
    /\ Calling(s)
    /\ ByName(t)
    /\ Authorised(work[s], t)
    /\ ~tool[t].risky
    /\ Goes(s, NextCall([work[s] EXCEPT !.add = Emit(work[s], <<"step", "ran">>)]))
    /\ Stored

\* _suspend: the checkpoint is taken one past the event that asks for approval;
\* the calls of the response not yet made are dropped.
Suspended(w) ==
    [w EXCEPT !.pc = "commit", !.left = 0, !.verdict = "WAITING",
              !.add = Emit(w, <<"step", "step">>)]

CallHeld(s, t) ==
    /\ Calling(s)
    /\ ByName(t)
    /\ Authorised(work[s], t)
    /\ tool[t].risky
    /\ Goes(s, [Suspended(work[s]) EXCEPT
                  !.new = Append(@, [asked |-> t, st |-> "PENDING", ran |-> 0])])
    /\ Stored

\* _complete, _fail: after the stream has taken the last event.
Settle(s) ==
    /\ work[s].pc = "closing"
    /\ Goes(s, [work[s] EXCEPT !.pc = "commit"])
    /\ Stored

\* A client of a streamed start leaves: what was flushed is committed as it is,
\* and the generator is never resumed.
Disconnect(s) ==
    /\ work[s].starts
    /\ work[s].pc \in {"loop", "calls", "answer", "closing"}
    /\ Goes(s, [work[s] EXCEPT !.pc = "commit", !.verdict = "RUNNING"])
    /\ Stored

----------------------------------------------------------------------------
(* Answering a pending call.                                               *)

\* approve: the run as it is read once, and never again; its owner and users
\* without tool.approve are turned away before.
ReadRun(s) ==
    /\ Free(s)
    /\ run # None
    /\ run.st = "WAITING"
    /\ Goes(s, [NoWork EXCEPT !.pc = "read", !.row = run])
    /\ Stored

\* The pending call, read by approve and again by _resume.  None at the first:
\* 409.  None at the second: RUN_FAILED is recorded at the checkpoint, and the
\* row is left alone.
FindCall(s) ==
    /\ work[s].pc = "read"
    /\ \/ /\ PendingCall # 0
          /\ Goes(s, [work[s] EXCEPT !.pc = "found", !.e = PendingCall])
       \/ /\ PendingCall = 0
          /\ Goes(s, NoWork)
       \/ /\ PendingCall = 0
          /\ Admitted(s, work[s].row.seq)
          /\ Goes(s, [work[s] EXCEPT !.pc = "commit", !.add = Emit(work[s], <<"end">>)])
    /\ Stored

\* The decision and its event are flushed together: the call's row is locked,
\* the event takes the number of the checkpoint.
Decide(s, d) ==
    /\ work[s].pc = "found"
    /\ CallFree(s, work[s].e)
    /\ Admitted(s, work[s].row.seq)
    /\ Goes(s, [work[s] EXCEPT !.does = d, !.locks = {"call"},
                   !.pc = IF d = "APPROVED" THEN "decided" ELSE "loop",
                   !.add = Emit(work[s], <<"step">>)])
    /\ Stored

\* execute_approved runs whatever tool has the name now, or none has.
Apply(s) ==
    /\ work[s].pc = "decided"
    /\ \/ /\ Here # {}
          /\ Goes(s, [work[s] EXCEPT !.pc = "loop", !.ran = TRUE,
                         !.add = Emit(work[s], <<"ran">>)])
       \/ /\ Here = {}
          /\ Goes(s, [work[s] EXCEPT !.pc = "loop"])
    /\ Stored

----------------------------------------------------------------------------
(* Cancelling.                                                             *)

\* A run already ended is answered as it is.
ReadToCancel(s) ==
    /\ Free(s)
    /\ run # None
    /\ run.st \notin Terminal
    /\ Goes(s, [NoWork EXCEPT !.pc = "reads"])
    /\ Stored

Cancel(s) ==
    /\ work[s].pc = "reads"
    /\ Goes(s, [work[s] EXCEPT !.pc = "cancel", !.e = PendingCall,
                               !.does = IF PendingCall = 0 THEN "none" ELSE "EXPIRED"])
    /\ Stored

\* The flush at the commit updates the run and the call, in either order.
Updates(s) == {"run"} \cup (IF work[s].e = 0 THEN {} ELSE {"call"})

Lock(s, l) ==
    /\ work[s].pc = "cancel"
    /\ l \in Updates(s) \ work[s].locks
    /\ IF l = "run" THEN RunFree(s) ELSE CallFree(s, work[s].e)
    /\ Goes(s, [work[s] EXCEPT !.locks = @ \cup {l}])
    /\ Stored

----------------------------------------------------------------------------
(* The end of a session.                                                   *)

\* Mutant: the row of the call keeps its state.
DecidedNowhere(w) ==
    IF w.does = "none" THEN held
    ELSE [held EXCEPT ![w.e].ran = @ + (IF w.ran THEN 1 ELSE 0)]

\* The calls with a decision written over whatever they hold by now.
Decided(w) ==
    IF w.does = "none" THEN held
    ELSE [held EXCEPT ![w.e].st = w.does, ![w.e].ran = @ + (IF w.ran THEN 1 ELSE 0)]

\* Mutant: the checkpoint is the number of the event that asks.
LeftAtRequest(w) ==
    IF w.verdict = "WAITING" THEN [w.row EXCEPT !.st = "WAITING", !.seq = NextSeq(w) - 1]
    ELSE [w.row EXCEPT !.st = w.verdict]

\* The row as a session that drove the loop leaves it.
Left(w) ==
    IF w.verdict = "WAITING" THEN [w.row EXCEPT !.st = "WAITING", !.seq = NextSeq(w)]
    ELSE [w.row EXCEPT !.st = w.verdict]

Commit(s) ==
    /\ LET w == work[s] IN
          /\ \/ w.pc = "commit"
             \/ w.pc = "cancel" /\ w.locks = Updates(s)
          /\ run' = IF w.pc = "cancel" THEN [run EXCEPT !.st = "CANCELLED"]
                    ELSE IF w.verdict = None THEN run
                    ELSE Left(w)
          /\ trace' = trace \o w.add
          /\ held' = Decided(w) \o w.new
          /\ Goes(s, NoWork)
    /\ UNCHANGED regvars

\* An exception or a stopped process: the session rolls back.  What the tool
\* did is not undone, and no row says that it was done.
Abort(s) ==
    /\ work[s].pc # "idle"
    /\ Goes(s, NoWork)
    /\ Stored

\* The insert that met a committed event: IntegrityError.
Conflict(s) ==
    /\ \/ work[s].pc = "found" /\ CallFree(s, work[s].e)
       \/ work[s].pc = "read" /\ PendingCall = 0
    /\ SeqTaken(work[s].row.seq)
    /\ Goes(s, NoWork)
    /\ Stored

WaitsForRun(s) ==
    \/ work[s].pc = "loop" /\ ~RunFree(s)
    \/ work[s].pc = "cancel" /\ "run" \notin work[s].locks /\ ~RunFree(s)
WaitsForCall(s) ==
    work[s].pc = "cancel" /\ "call" \in Updates(s) \ work[s].locks /\ ~CallFree(s, work[s].e)

\* Mutant: each waits for the other.
NeverDeadlocked(s, r) == FALSE

\* Two sessions wait for each other's row: PostgreSQL aborts either.
Deadlocked(s, r) ==
    /\ s # r
    /\ WaitsForRun(s) /\ "run" \in work[r].locks
    /\ WaitsForCall(r) /\ "call" \in work[s].locks /\ work[s].e = work[r].e

DetectDeadlock(s) ==
    /\ \E r \in Sess : Deadlocked(s, r) \/ Deadlocked(r, s)
    /\ Goes(s, NoWork)
    /\ Stored

----------------------------------------------------------------------------
LoopSteps(s) ==
    \/ ModelFails(s) \/ Answer(s) \/ RunOut(s) \/ CallUnknown(s) \/ Settle(s)
    \/ \E c \in 0 .. MaxCalls : Ask(s, c)
    \/ \E t \in Tool : CallDenied(s, t) \/ CallRuns(s, t) \/ CallHeld(s, t)

AnswerSteps(s) ==
    \/ FindCall(s) \/ Apply(s) \/ Conflict(s)
    \/ \E d \in {"APPROVED", "REJECTED"} : Decide(s, d)

Progress(s) ==
    \/ LoopSteps(s)
    \/ AnswerSteps(s)
    \/ Cancel(s)
    \/ \E l \in {"run", "call"} : Lock(s, l)
    \/ Commit(s)
    \/ DetectDeadlock(s)

Requests(s) ==
    \/ \E m \in BOOLEAN : Start(s, m)
    \/ ReadRun(s)
    \/ ReadToCancel(s)
    \/ Disconnect(s)
    \/ Abort(s)

Registry ==
    /\ UNCHANGED runvars
    /\ \/ "tools" \in Ops /\ (ToolSteps \/ ServerSteps)
       \/ "delete" \in Ops /\ \E t \in Tool : DeleteTool(t)
       \/ "edit" \in Ops /\ \E s \in Sess : work[s] = NoWork /\ Edits(s)

Next == Registry \/ \E s \in Sess : Progress(s) \/ Requests(s)

Spec == Init /\ [][Next]_vars

\* A session that can go on does.  Strong, because a lock it waits for may be
\* taken by others in between: PostgreSQL hands it over in the order of asking.
FairSpec == Spec /\ \A s \in Sess : SF_vars(Progress(s))

----------------------------------------------------------------------------
(* Properties.                                                             *)

TypeOK ==
    /\ RegTypeOK
    /\ run \in RunRow \cup {None}
    /\ trace \in Seq(Event)
    /\ held \in Seq(Call)
    /\ work \in [Sess -> Work]

\* Two people may answer one pending call at once, each from the checkpoint it
\* read (approve, _resume, _persisting): the committed trace still reads
\* 1, 2, 3 with nothing missing and nothing twice.
TraceGapless == \A i \in DOMAIN trace : trace[i].seq = i

\* The sessions that ran a held call and may still commit.
Running(e) == {s \in Sess : work[s].ran /\ work[s].e = e}

\* However many people approve it, and whoever cancels meanwhile, a held call
\* takes effect at most once for the sessions that survive, and never when it
\* was refused or while it is pending (execute_approved).
EffectAtMostOnce ==
    \A e \in DOMAIN held :
       /\ held[e].ran + Cardinality(Running(e)) <= 1
       /\ held[e].ran = 1 => held[e].st \in {"APPROVED", "EXPIRED"}

\* A run that waits can be answered (_suspend, _resume, cancel): it has exactly
\* one pending call, its checkpoint is where the trace stops, and the trace has
\* not ended.
WaitingIsAnswerable ==
    run # None /\ run.st = "WAITING" =>
       /\ Cardinality({e \in DOMAIN held : held[e].st = "PENDING"}) = 1
       /\ run.seq = Len(trace) + 1
       /\ \A i \in DOMAIN trace : trace[i].kind # "end"

\* RUN_COMPLETED and RUN_FAILED close the trace, and a run that says it
\* completed or failed has such an event.
EndIsLast ==
    /\ \A i \in DOMAIN trace : trace[i].kind = "end" => i = Len(trace)
    /\ run # None /\ run.st \in {"COMPLETED", "FAILED"} =>
          trace[Len(trace)].kind = "end"

\* Every request ends: nobody waits for a row of the run for ever, whichever
\* order a cancellation takes its locks in.
SessionsEnd == \A s \in Sess : work[s].pc # "idle" ~> work[s].pc = "idle"
=============================================================================
