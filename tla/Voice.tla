------------------------------- MODULE Voice -------------------------------
(***************************************************************************)
(* One voice session (api/voice_ws.py, services/voice.py): the sockets that*)
(* are opened on it, the turns they start, and the row and messages they   *)
(* share.  A socket reads one frame after another; a turn runs beside it   *)
(* in a task of its own, in two transactions: what was said and the run    *)
(* that answers it, then the spoken answer.  Each reads the session first  *)
(* and writes it later: from the first UPDATE on it holds the lock of the  *)
(* row, and `turns += 1` counts from the copy read before.                 *)
(* The states of a turn under way (TRANSCRIBING, TOOL_EXECUTION, SPEAKING) *)
(* are never committed; THINKING stands for what is left after the run.    *)
(* Speech, synthesis and the agent run are their outcomes; a failed        *)
(* synthesis records the answer all the same, and a frame that cannot be   *)
(* sent fails the turn (TurnFails).  Left out: voice_events, interruptions,*)
(* timings, retention, the check that the session is the caller's.         *)
(***************************************************************************)
EXTENDS Naturals, Sequences

CONSTANTS
    Sock,        \* connections, each used once
    Turn,        \* utterances, each used once
    Nil

ASSUME VoiceAssumption == Nil \notin Sock \cup Turn

VARIABLES
    row,         \* committed row of voice_sessions: its state and turns
    msgs,        \* committed rows of voice_messages
    sock,        \* [Sock -> handler of the connection]
    turn,        \* [Turn -> task of the turn]
    overlapped   \* two turns have run at a time (history)

vvars == <<row, msgs, sock, turn, overlapped>>

Open == {"CREATED", "LISTENING", "THINKING"}
Terminal == {"COMPLETED"}
Row == [st: Open \cup Terminal \cup {"none", "gone"}, turns: Nat]
Here == row.st \in Open \cup Terminal

Message == [seq: Nat, role: {"user", "assistant"}, of: Turn]

\* was: the state of the row as read; intr: the flag that stops what is spoken;
\* audio: something is in the buffer; cur: the latest turn.
Handler == [pc: {"new", "connecting", "open", "interrupt", "closing", "ending", "closed"},
            was: Open \cup Terminal \cup {Nil}, audio: BOOLEAN, intr: BOOLEAN,
            cur: Turn \cup {Nil}]
NewSock == [pc |-> "new", was |-> Nil, audio |-> FALSE, intr |-> FALSE, cur |-> Nil]

\* n: session.turns as read.
Task == [pc: {"new", "begun", "read", "heard", "agent", "answered",
              "asked", "reread", "speak", "spoken", "done"},
         on: Sock \cup {Nil}, n: Nat]
NewTurn == [pc |-> "new", on |-> Nil, n |-> 0]
Done == [pc |-> "done", on |-> Nil, n |-> 0]

VoiceInit ==
    /\ row = [st |-> "none", turns |-> 0]
    /\ msgs = <<>>
    /\ sock = [s \in Sock |-> NewSock]
    /\ turn = [t \in Turn |-> NewTurn]
    /\ overlapped = FALSE

Handles(s, h) == sock' = [sock EXCEPT ![s] = h]
Runs(t, w) == turn' = [turn EXCEPT ![t] = w]
Reaches(t, pc) == Runs(t, IF pc = "done" THEN Done ELSE [turn[t] EXCEPT !.pc = pc])
Leaves(s, pc) == Handles(s, [NewSock EXCEPT !.pc = pc])

Under(t) == turn[t].pc \notin {"new", "done"}

\* Mutant: the second transaction is opened inside the first.
HoldsAcross(t) ==
    turn[t].pc \in {"heard", "agent", "answered", "asked", "reread", "speak", "spoken"}

\* The turns whose transaction has locked the row.
Holds(t) == turn[t].pc \in {"heard", "agent", "answered", "speak", "spoken"}

LockFree == \A t \in Turn : ~Holds(t)

----------------------------------------------------------------------------
(* The session as a resource.                                              *)

Create ==
    /\ row.st = "none"
    /\ row' = [st |-> "CREATED", turns |-> 0]
    /\ UNCHANGED <<msgs, sock, turn, overlapped>>

\* Messages go by cascade; a turn that has written the row is waited for.
Delete ==
    /\ Here
    /\ LockFree
    /\ row' = [st |-> "gone", turns |-> 0]
    /\ msgs' = <<>>
    /\ UNCHANGED <<sock, turn, overlapped>>

----------------------------------------------------------------------------
(* A connection.                                                           *)

\* A session of any state is taken; one that is not there ends the connection.
Connect(s) ==
    /\ sock[s].pc = "new"
    /\ row.st # "none"
    /\ IF Here THEN Handles(s, [NewSock EXCEPT !.pc = "connecting", !.was = row.st])
       ELSE Leaves(s, "closed")
    /\ UNCHANGED <<row, msgs, turn, overlapped>>

\* set_state(LISTENING): the column is written if it was read as another; a row
\* gone meanwhile ends the connection.
Connected(s) ==
    /\ sock[s].pc = "connecting"
    /\ LockFree
    /\ row' = IF Here /\ sock[s].was # "LISTENING" THEN [row EXCEPT !.st = "LISTENING"] ELSE row
    /\ Handles(s, [sock[s] EXCEPT !.pc = IF Here THEN "open" ELSE "closing", !.was = Nil])
    /\ UNCHANGED <<msgs, turn, overlapped>>

\* Audio is buffered, or the buffer cleared when it would grow past the limit.
OnAudio(s) ==
    /\ sock[s].pc = "open"
    /\ \E a \in BOOLEAN : Handles(s, [sock[s] EXCEPT !.audio = a])
    /\ UNCHANGED <<row, msgs, turn, overlapped>>

AudioStart(s) ==
    /\ sock[s].pc = "open"
    /\ Handles(s, [sock[s] EXCEPT !.audio = FALSE, !.intr = FALSE])
    /\ UNCHANGED <<row, msgs, turn, overlapped>>

\* A turn starts, whether or not the one before has ended.
AudioEnd(s, t) ==
    /\ sock[s].pc = "open"
    /\ sock[s].audio
    /\ turn[t] = NewTurn
    /\ Handles(s, [sock[s] EXCEPT !.audio = FALSE, !.cur = t])
    /\ Runs(t, [pc |-> "begun", on |-> s, n |-> 0])
    /\ overlapped' = (overlapped \/ \E u \in Turn : Under(u))
    /\ UNCHANGED <<row, msgs>>

\* The latest turn is cancelled: its open transaction rolls back.
Cancelled(s) ==
    [t \in Turn |-> IF t = sock[s].cur /\ Under(t) THEN Done ELSE turn[t]]

Interrupt(s) ==
    /\ sock[s].pc = "open"
    /\ Handles(s, [sock[s] EXCEPT !.intr = TRUE, !.pc = "interrupt", !.cur = Nil])
    /\ turn' = Cancelled(s)
    /\ UNCHANGED <<row, msgs, overlapped>>

\* INTERRUPTED, then LISTENING, in a transaction of its own; the socket reads
\* nothing until it has the lock.  A row that is gone ends the connection.
Interrupted(s) ==
    /\ sock[s].pc = "interrupt"
    /\ LockFree
    /\ row' = IF Here THEN [row EXCEPT !.st = "LISTENING"] ELSE row
    /\ Handles(s, [sock[s] EXCEPT !.pc = IF Here THEN "open" ELSE "closing"])
    /\ UNCHANGED <<msgs, turn, overlapped>>

\* SESSION_END, a disconnect, an error.  The turn under way is left alone.
SocketEnds(s) ==
    /\ sock[s].pc \in {"connecting", "open", "interrupt"}
    /\ Leaves(s, "closing")
    /\ UNCHANGED <<row, msgs, turn, overlapped>>

\* end: nothing to do for a session already ended, or gone.
CloseRead(s) ==
    /\ sock[s].pc = "closing"
    /\ Leaves(s, IF row.st \in Open THEN "ending" ELSE "closed")
    /\ UNCHANGED <<row, msgs, turn, overlapped>>

CloseSession(s) ==
    /\ sock[s].pc = "ending"
    /\ LockFree
    /\ row' = IF Here THEN [row EXCEPT !.st = "COMPLETED"] ELSE row
    /\ Leaves(s, "closed")
    /\ UNCHANGED <<msgs, turn, overlapped>>

----------------------------------------------------------------------------
(* The first transaction of a turn.                                        *)

\* Mutant: the second transaction goes on with the copy of the first.
ReadsOnce(t, from, to) ==
    /\ turn[t].pc = from
    /\ Runs(t, IF Here
               THEN [turn[t] EXCEPT !.pc = to, !.n = IF from = "begun" THEN row.turns ELSE @]
               ELSE Done)
    /\ UNCHANGED <<row, msgs, sock, overlapped>>

\* Both transactions begin by reading the session.
Reads(t, from, to) ==
    /\ turn[t].pc = from
    /\ Runs(t, IF Here THEN [turn[t] EXCEPT !.pc = to, !.n = row.turns]
               ELSE Done)
    /\ UNCHANGED <<row, msgs, sock, overlapped>>

\* The first set_state takes the lock; an UPDATE of no row raises.
Locks(t, from, to) ==
    /\ turn[t].pc = from
    /\ LockFree
    /\ Reaches(t, IF Here THEN to ELSE "done")
    /\ UNCHANGED <<row, msgs, sock, overlapped>>

\* The transcript failed, or nothing was said.
NotHeard(t) ==
    /\ turn[t].pc = "heard"
    /\ row' = [row EXCEPT !.st = "LISTENING"]
    /\ Reaches(t, "done")
    /\ UNCHANGED <<msgs, sock, overlapped>>

Heard(t) ==
    /\ turn[t].pc = "heard"
    /\ Reaches(t, "agent")
    /\ UNCHANGED <<row, msgs, sock, overlapped>>

\* RUN_COMPLETED is read, unless the flag was set before it came.
AgentAnswers(t) ==
    /\ turn[t].pc = "agent"
    /\ ~sock[turn[t].on].intr
    /\ Reaches(t, "answered")
    /\ UNCHANGED <<row, msgs, sock, overlapped>>

\* record_message: turns += 1 on the copy, and the number of the message.
Counted(n) == n + 1

Recorded(t, role, st) ==
    /\ row' = [st |-> st, turns |-> Counted(turn[t].n)]
    /\ msgs' = Append(msgs, [seq |-> Counted(turn[t].n), role |-> role, of |-> t])

\* What was said, with the run.  A run that failed, waits for approval or was
\* interrupted has no answer to speak, and the session is left THINKING.
CommitQuestion(t) ==
    /\ turn[t].pc \in {"agent", "answered"}
    /\ Recorded(t, "user", "THINKING")
    /\ Reaches(t, IF turn[t].pc = "answered" THEN "asked" ELSE "done")
    /\ UNCHANGED <<sock, overlapped>>

----------------------------------------------------------------------------
(* The second.                                                             *)

\* Synthesis that fails leaves the answer as text; frames are sent until the flag
\* is set.
Speaks(t) ==
    /\ turn[t].pc = "speak"
    /\ Reaches(t, "spoken")
    /\ UNCHANGED <<row, msgs, sock, overlapped>>

\* The answer is recorded however much of it was heard.
CommitAnswer(t) ==
    /\ turn[t].pc = "spoken"
    /\ Recorded(t, "assistant", "LISTENING")
    /\ Reaches(t, "done")
    /\ UNCHANGED <<sock, overlapped>>

\* Something raises: the open transaction rolls back.
TurnFails(t) ==
    /\ Under(t)
    /\ Reaches(t, "done")
    /\ UNCHANGED <<row, msgs, sock, overlapped>>

\* The process stops: every socket and turn is gone, and nothing ends the session.
Crash ==
    /\ \E s \in Sock : sock[s].pc \notin {"new", "closed"}
    /\ sock' = [s \in Sock |-> IF sock[s].pc = "new" THEN sock[s]
                               ELSE [NewSock EXCEPT !.pc = "closed"]]
    /\ turn' = [t \in Turn |-> IF Under(t) THEN Done ELSE turn[t]]
    /\ UNCHANGED <<row, msgs, overlapped>>

----------------------------------------------------------------------------
TurnSteps(t) ==
    \/ Reads(t, "begun", "read") \/ Locks(t, "read", "heard")
    \/ NotHeard(t) \/ Heard(t) \/ AgentAnswers(t) \/ CommitQuestion(t)
    \/ Reads(t, "asked", "reread") \/ Locks(t, "reread", "speak")
    \/ Speaks(t) \/ CommitAnswer(t)

\* What a handler does without waiting for its client.
HandlerSteps(s) ==
    \/ Connected(s) \/ Interrupted(s) \/ CloseRead(s) \/ CloseSession(s)

ClientSteps(s) ==
    \/ Connect(s) \/ OnAudio(s) \/ AudioStart(s) \/ Interrupt(s) \/ SocketEnds(s)
    \/ \E t \in Turn : AudioEnd(s, t)

VoiceNext ==
    \/ Create \/ Delete \/ Crash
    \/ \E s \in Sock : ClientSteps(s) \/ HandlerSteps(s)
    \/ \E t \in Turn : TurnSteps(t) \/ TurnFails(t)

VoiceSpec == VoiceInit /\ [][VoiceNext]_vvars

\* Tasks run; speech, models and synthesis have timeouts.
FairVoiceSpec ==
    /\ VoiceSpec
    /\ \A t \in Turn : WF_vvars(TurnSteps(t))
    /\ \A s \in Sock : WF_vvars(HandlerSteps(s))

----------------------------------------------------------------------------
(* Properties.                                                             *)

VoiceTypeOK ==
    /\ row \in Row
    /\ msgs \in Seq(Message)
    /\ sock \in [Sock -> Handler]
    /\ turn \in [Turn -> Task]
    /\ overlapped \in BOOLEAN

\* The number of a message is counted on a copy read before the lock
\* (record_message): through interruptions, several sockets and crashes the
\* messages of a session read 1, 2, 3, unless a client has started a turn
\* before another had ended.
MessagesNumbered == ~overlapped => \A i \in DOMAIN msgs : msgs[i].seq = i

\* A turn and the socket that is interrupted or closes beside it take the same
\* lock (_handle_turn, _on_control, _close_session): each gets through.
NobodyHangs ==
    /\ \A t \in Turn : turn[t].pc = "begun" ~> turn[t].pc = "done"
    /\ \A s \in Sock : sock[s].pc \in {"interrupt", "closing"} ~>
                          sock[s].pc \in {"open", "closed"}
=============================================================================
