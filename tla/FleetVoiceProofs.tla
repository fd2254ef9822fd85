-------------------------- MODULE FleetVoiceProofs --------------------------
(***************************************************************************)
(* Proofs about components that share nothing: the fleet that sweeps,      *)
(* checks and operators read and write, the sockets of voice sessions, and *)
(* the one container request that operators and the deployment worker make.*)
(* The names of Voice say whose they are, so that both stand in one module.*)
(*                                                                         *)
(* Of the fleet: whatever sweeps, checks and operators do at once, what    *)
(* they hold and write stays in its types.                                 *)
(*                                                                         *)
(* Of voice: as long as no turn was begun while another was under way, the *)
(* messages of a session are numbered without gaps or repeats.  The number *)
(* is read in one transaction and written in another, and an interruption  *)
(* and a restart lie between; what carries the argument is that the row    *)
(* counts the messages and that a turn under way has read that count.      *)
(*                                                                         *)
(* Of a container request, for every host and whatever becomes of the call:*)
(* making one leaves at most one container, with the label it is found by; *)
(* what is not the platform's is left alone; a stop that is asked again    *)
(* ends what the first one left; operators are told of a success only      *)
(* where there was one; and what is listed is what is there.               *)
(***************************************************************************)
EXTENDS FleetSync, Voice, SequenceTheorems, TLAPS

----------------------------------------------------------------------------
(* The fleet.                                                              *)

LEMMA BoundFacts == Changes \in Nat /\ Hiccups \in Nat
BY FleetAssumption

LEMMA IdleHeld == Idle \in Held
<1>1. Nothing(Node) \in [Node -> Status \cup {None}]
  BY DEF Nothing
<1>2. Nothing(Card) \in [Card -> Place \cup {None}]
  BY DEF Nothing
<1>3. Nothing(Box) \in [Box -> Plan \cup {None}]
  BY DEF Nothing
<1> QED
  BY <1>1, <1>2, <1>3 DEF Idle, Held

LEMMA TypeInit == Init => TypeOK
<1> SUFFICES ASSUME Init PROVE TypeOK
  OBVIOUS
<1>1. gpu \in [Card -> Place \cup {None}]
  BY DEF Init
<1>2. ses \in [Session -> Held]
  BY IdleHeld DEF Init
<1>3. /\ agent \in [Node -> Mood]
      /\ node \in [Node -> NodeRow]
  BY DEF Init, Mood, NodeRow, Status, Seen
<1>4. box \in [Box -> State \cup {None}] /\ inv \in [Box -> State \cup {None}]
  BY DEF Init, State
<1>5. changed \in 0 .. Changes /\ failed \in 0 .. Hiccups
  BY BoundFacts DEF Init
<1> QED
  BY <1>1, <1>2, <1>3, <1>4, <1>5 DEF Init, TypeOK

\* One session goes on with something it may hold.
LEMMA GoesHeld ==
    ASSUME TypeOK, NEW s \in Session, NEW h \in Held, Goes(s, h)
    PROVE  ses' \in [Session -> Held]
BY DEF TypeOK, Goes

LEMMA HappensTyped ==
    ASSUME TypeOK, Happens
    PROVE  changed' \in 0 .. Changes
BY BoundFacts DEF TypeOK, Happens

LEMMA FleetTyped ==
    ASSUME TypeOK, Fleet
    PROVE  TypeOK'
<1>1. ASSUME NEW c \in Card, NEW p \in Place \cup {None}, Move(c, p)
      PROVE  TypeOK'
  <2>1. at' \in [Card -> Place \cup {None}]
    BY <1>1 DEF Move, TypeOK
  <2> QED
    BY <1>1, <2>1, HappensTyped DEF Move, TypeOK, rows, rest
<1>2. ASSUME NEW n \in Node, NEW m \in Mood, AgentBecomes(n, m)
      PROVE  TypeOK'
  BY <1>2, HappensTyped DEF AgentBecomes, TypeOK, rows, rest
<1>3. ASSUME NEW x \in Box, NEW st \in State \cup {None}, BoxBecomes(x, st)
      PROVE  TypeOK'
  BY <1>3, HappensTyped DEF BoxBecomes, TypeOK, rows, rest
<1>4. CASE TimePasses
  <2>1. node' \in [Node -> NodeRow]
    BY <1>4 DEF TimePasses, TypeOK, NodeRow, Seen
  <2> QED
    BY <1>4, <2>1 DEF TimePasses, TypeOK, world, rest
<1> QED
  BY <1>1, <1>2, <1>3, <1>4 DEF Fleet

LEMMA BeganHeld ==
    ASSUME TypeOK, NEW N \in SUBSET Node
    PROVE  Began(N) \in Held
<1>1. [n \in Node |-> IF n \in N THEN node[n].st ELSE None] \in [Node -> Status \cup {None}]
  BY DEF TypeOK, NodeRow
<1> QED
  BY <1>1, IdleHeld DEF Began, Idle, Held

LEMMA ContactedHeld ==
    ASSUME NEW h \in Held, NEW n \in Node, NEW st \in Status
    PROVE  Contacted(h, n, st) \in Held
BY DEF Contacted, Held

LEMMA ContainersTyped ==
    ASSUME TypeOK, NEW n \in Node
    PROVE  /\ Containers(n) \in [Box -> State \cup {None}]
           /\ Listing(n) \in {None} \cup (Node \X [Box -> State \cup {None}])
BY DEF TypeOK, Containers, Listing

LEMMA PlacedTyped ==
    ASSUME TypeOK, NEW s \in Session, NEW n \in Node
    PROVE  Placed(s, n) \in [Card -> Place \cup {None}]
BY DEF TypeOK, Placed, Held

\* One node is contacted: its agent answers, in part or not at all.
LEMMA ProbeTyped ==
    ASSUME TypeOK, NEW s \in Session, Probe(s)
    PROVE  TypeOK'
<1>0. ses[s] \in Held
  BY DEF TypeOK
<1>a. PICK n \in ses[s].left :
       \/ Clashes(s, n) \/ Partly(s, n) \/ Goes(s, Contacted(ses[s], n, "OFFLINE"))
       \/ \E st \in {"ONLINE", "DEGRADED"}, list \in {None, Listing(n)} : Synced(s, n, st, list)
  BY DEF Probe
<1>1. n \in Node
  BY <1>0 DEF Held
<1>2. ASSUME NEW st \in Status, NEW list \in {None, Listing(n)}, Synced(s, n, st, list)
      PROVE  ses' \in [Session -> Held]
  <2> DEFINE h == [Contacted(ses[s], n, st) EXCEPT
                     !.heard = @ \cup {n}, !.put = Placed(s, n), !.list = list]
  <2>1. /\ Contacted(ses[s], n, st) \in Held
        /\ list \in {None} \cup (Node \X [Box -> State \cup {None}])
    BY <1>0, <1>1, ContactedHeld, ContainersTyped
  <2>2. Placed(s, n) \in [Card -> Place \cup {None}]
    BY <1>1, PlacedTyped
  <2>3. h \in Held
    BY <1>1, <2>1, <2>2 DEF Held
  <2> QED
    BY <1>2, <2>3, GoesHeld DEF Synced
<1>3. ASSUME Clashes(s, n) PROVE ses' \in [Session -> Held]
  BY <1>3, IdleHeld, GoesHeld DEF Clashes
<1>4. ASSUME Partly(s, n) PROVE ses' \in [Session -> Held]
  <2>1. PICK N \in SUBSET {n}, list \in {None, Listing(n)}, st \in {"ONLINE", "DEGRADED"} :
           Goes(s, [Contacted(ses[s], n, st) EXCEPT !.heard = @ \cup N, !.list = list])
    BY <1>4 DEF Partly
  <2>2. /\ Contacted(ses[s], n, st) \in Held
        /\ list \in {None} \cup (Node \X [Box -> State \cup {None}])
        /\ N \subseteq Node
    BY <1>0, <1>1, ContactedHeld, ContainersTyped DEF Status
  <2>3. [Contacted(ses[s], n, st) EXCEPT !.heard = @ \cup N, !.list = list] \in Held
    BY <2>2 DEF Held
  <2> QED
    BY <2>1, <2>3, GoesHeld
<1>5. ASSUME Goes(s, Contacted(ses[s], n, "OFFLINE")) PROVE ses' \in [Session -> Held]
  BY <1>0, <1>1, <1>5, ContactedHeld, GoesHeld DEF Status
<1>6. ses' \in [Session -> Held]
  BY <1>a, <1>2, <1>3, <1>4, <1>5 DEF Status
<1> QED
  BY <1>6 DEF Probe, TypeOK, world, rows, rest

\* What a node listed is compared with the rows there are.
LEMMA CompareTyped ==
    ASSUME TypeOK, NEW s \in Session, Compare(s)
    PROVE  TypeOK'
<1>0. /\ ses[s] \in Held
      /\ ses[s].list \in Node \X [Box -> State \cup {None}]
  BY DEF Compare, TypeOK, Held
<1>1. ASSUME NEW x \in Box, NEW f \in [Box -> State \cup {None}]
      PROVE  PlanFor(x, f) \in Plan \cup {None}
  BY DEF PlanFor, Plan
<1>2. [x \in Box |-> IF HostOf[x] = ses[s].list[1]
                        THEN PlanFor(x, ses[s].list[2]) ELSE ses[s].plan[x]]
         \in [Box -> Plan \cup {None}]
  BY <1>0, <1>1 DEF Held
<1>3. ses' \in [Session -> Held]
  BY <1>0, <1>2, GoesHeld DEF Compare, Held
<1> QED
  BY <1>3 DEF Compare, TypeOK, world, rows, rest

\* A session writes all it holds, or nothing.
LEMMA CommitTyped ==
    ASSUME TypeOK, NEW s \in Session, Commit(s)
    PROVE  TypeOK'
<1>0. ses[s] \in Held
  BY DEF TypeOK
<1>1. node' \in [Node -> NodeRow]
  BY <1>0 DEF Commit, Written, TypeOK, Held, NodeRow, Seen
<1>2. gpu' \in [Card -> Place \cup {None}]
  BY <1>0 DEF Commit, View, TypeOK, Held
<1>3. inv' \in [Box -> State \cup {None}]
  BY <1>0 DEF Commit, Kept, TypeOK, Held, Plan
<1>4. ses' \in [Session -> Held]
  BY IdleHeld, GoesHeld DEF Commit
<1> QED
  BY <1>1, <1>2, <1>3, <1>4 DEF Commit, TypeOK, world, rest

LEMMA EndTyped ==
    ASSUME TypeOK, NEW s \in Session, CommitFails(s) \/ Abort(s)
    PROVE  TypeOK'
<1>1. ses' \in [Session -> Held]
  BY IdleHeld, GoesHeld DEF CommitFails, Abort
<1>2. failed' \in 0 .. Hiccups
  BY BoundFacts DEF CommitFails, Abort, TypeOK, rest
<1> QED
  BY <1>1, <1>2 DEF CommitFails, Abort, TypeOK, world, rows, rest

LEMMA BeginTyped ==
    ASSUME TypeOK, BeginSweep \/ \E s \in Check, n \in Checked : BeginCheck(s, n)
    PROVE  TypeOK'
<1>1. CASE BeginSweep
  <2>1. ses' \in [Session -> Held]
    BY <1>1, BeganHeld, GoesHeld DEF BeginSweep, Pollable, Session
  <2> QED
    BY <1>1, <2>1 DEF BeginSweep, TypeOK, world, rows, rest
<1>2. ASSUME NEW s \in Check, NEW n \in Checked, BeginCheck(s, n)
      PROVE  TypeOK'
  <2>1. {n} \in SUBSET Node
    BY FleetAssumption
  <2>2. ses' \in [Session -> Held]
    BY <1>2, <2>1, BeganHeld, GoesHeld DEF BeginCheck, Session
  <2> QED
    BY <1>2, <2>2 DEF BeginCheck, TypeOK, world, rows, rest
<1> QED
  BY <1>1, <1>2

\* What is asked of a container and done to it has a row's or Docker's state.
LEMMA ControlsTyped ==
    ASSUME TypeOK, NEW o \in Operator, Controls(o)
    PROVE  TypeOK'
<1>1. ASSUME NEW c \in Command
      PROVE  Effect(c) \in State \cup {None}
  BY DEF Effect, State
<1>2. ASSUME NEW r \in Request \cup {None}, Turns(o, r)
      PROVE  ctl' \in [Operator -> Request \cup {None}]
  BY <1>2 DEF TypeOK, Turns
<1>3. ASSUME NEW x \in Box, NEW c \in Command, Ask(o, x, c)
      PROVE  TypeOK'
  <2>1. [on |-> x, cmd |-> c, was |-> inv[x], done |-> "nothing"] \in Request
    BY <1>3 DEF Ask, Known, TypeOK, Request
  <2> QED
    BY <1>2, <1>3, <2>1, HappensTyped DEF Ask, TypeOK, rows, rest
<1>4. CASE Act(o)
  <2> DEFINE r == ctl[o]
             e == Effect(r.cmd)
  <2>1. r \in Request
    BY <1>4 DEF Act, TypeOK
  <2>2. e \in State \cup {None}
    BY <1>1, <2>1 DEF Request
  <2>3. box' \in [Box -> State \cup {None}]
    BY <1>4, <2>2 DEF Act, TypeOK
  <2>4. [on |-> r.on, cmd |-> r.cmd, was |-> r.was,
         done |-> IF e = None THEN "deleted" ELSE e] \in Request
    <3> HIDE DEF e
    <3> QED
      BY <2>1, <2>2 DEF Request
  <2>5. ctl' \in [Operator -> Request \cup {None}]
    BY <1>2, <1>4, <2>4 DEF Act
  <2> QED
    BY <1>4, <2>3, <2>5 DEF Act, TypeOK, rows, rest
<1>5. CASE Denied(o)
  <2>1. ctl' \in [Operator -> Request \cup {None}]
    BY <1>2, <1>5 DEF Denied
  <2> QED
    BY <1>5, <2>1 DEF Denied, TypeOK, world, rows, rest
<1>6. CASE Record(o)
  <2>1. ctl[o] \in Request
    BY <1>6 DEF Record, TypeOK
  <2>2. inv' \in [Box -> State \cup {None}]
    BY <1>6, <2>1 DEF Record, TypeOK, Request
  <2>3. ctl' \in [Operator -> Request \cup {None}]
    BY <1>2, <1>6 DEF Record
  <2> QED
    BY <1>6, <2>2, <2>3 DEF Record, TypeOK, world, rest
<1> QED
  BY <1>3, <1>4, <1>5, <1>6 DEF Controls

LEMMA MarksTyped ==
    ASSUME TypeOK, Marks
    PROVE  TypeOK'
<1>1. CASE JudgeStale
  BY <1>1 DEF JudgeStale, Stale, TypeOK, world, rows
<1>2. CASE MarkStale
  <2>1. node' \in [Node -> NodeRow]
    BY <1>2 DEF MarkStale, TypeOK, NodeRow, Status
  <2> QED
    BY <1>2, <2>1 DEF MarkStale, TypeOK, world
<1> QED
  BY <1>1, <1>2 DEF Marks

LEMMA TypeStep == TypeOK /\ [Next]_vars => TypeOK'
<1> SUFFICES ASSUME TypeOK, [Next]_vars PROVE TypeOK'
  OBVIOUS
<1>1. CASE Fleet
  BY <1>1, FleetTyped
<1>2. CASE BeginSweep \/ \E s \in Check, n \in Checked : BeginCheck(s, n)
  BY <1>2, BeginTyped
<1>3. ASSUME NEW s \in Session, Works(s) \/ Abort(s)
      PROVE  TypeOK'
  BY <1>3, ProbeTyped, CompareTyped, CommitTyped, EndTyped DEF Works
<1>4. ASSUME NEW o \in Operator, Controls(o)
      PROVE  TypeOK'
  BY <1>4, ControlsTyped
<1>5. CASE Marks
  BY <1>5, MarksTyped
<1>6. CASE UNCHANGED vars
  BY <1>6 DEF vars, TypeOK
<1> QED
  BY <1>1, <1>2, <1>3, <1>4, <1>5, <1>6 DEF Next

\* Rows, listings, plans and requests stay in their types, for any fleet, any number of
\* sessions and operators, and whatever happens to hosts (sync_node, _control).
THEOREM FleetTypes == Spec => []TypeOK
BY TypeInit, TypeStep, PTL DEF Spec

----------------------------------------------------------------------------
(* Voice sessions.                                                         *)


\* A turn that has read the session and not recorded yet.
Counting == {"read", "heard", "agent", "answered", "reread", "speak", "spoken"}

\* Without overlap one turn is under way.
OneTurn == \A t, u \in Turn : Under(t) /\ Under(u) => t = u

\* The row counts the messages, and there are none without it.
RowCounts ==
    /\ Here => row.turns = Len(msgs)
    /\ ~Here => msgs = <<>>

\* What a turn has read is what the row counts, as long as the session is there; one
\* that holds the lock keeps it there, and a session that was read is made by nobody.
TurnsCount ==
    \A t \in Turn :
       /\ turn[t].pc \in Counting => row.st # "none" /\ (Here => turn[t].n = row.turns)
       /\ Holds(t) => Here

Numbered == OneTurn /\ RowCounts /\ TurnsCount /\ \A i \in DOMAIN msgs : msgs[i].seq = i

VoiceInv == VoiceTypeOK /\ (~overlapped => Numbered)

LEMMA RestTyped == NewSock \in Handler /\ NewTurn \in Task /\ Done \in Task
BY DEF NewSock, NewTurn, Done, Handler, Task

LEMMA VoiceStart == VoiceInit => VoiceInv
<1> SUFFICES ASSUME VoiceInit PROVE VoiceInv
  OBVIOUS
<1>1. msgs = <<>> /\ msgs \in Seq(Message) /\ Len(msgs) = 0
  BY DEF VoiceInit
<1>2. VoiceTypeOK
  BY <1>1, RestTyped DEF VoiceInit, VoiceTypeOK, Row
<1>3. Numbered
  <2>1. \A t \in Turn : turn[t].pc = "new"
    BY DEF VoiceInit, NewTurn
  <2>2. OneTurn /\ TurnsCount
    BY <2>1 DEF OneTurn, Under, TurnsCount, Counting, Holds
  <2>3. RowCounts
    BY <1>1 DEF VoiceInit, RowCounts, Here, Open, Terminal
  <2> QED
    BY <1>1, <2>2, <2>3 DEF Numbered
<1> QED
  BY <1>2, <1>3 DEF VoiceInv

\* One handler, or one turn, goes on with something it may be.
LEMMA HandlesTyped ==
    ASSUME VoiceTypeOK, NEW s \in Sock, NEW h \in Handler, Handles(s, h)
    PROVE  sock' \in [Sock -> Handler]
BY DEF VoiceTypeOK, Handles

LEMMA RunsTyped ==
    ASSUME VoiceTypeOK, NEW t \in Turn, NEW w \in Task, Runs(t, w)
    PROVE  turn' \in [Turn -> Task]
BY DEF VoiceTypeOK, Runs

LEMMA ReachesTyped ==
    ASSUME VoiceTypeOK, NEW t \in Turn,
           NEW pc \in {"read", "heard", "agent", "answered", "asked", "reread", "speak",
                       "spoken", "done"},
           Reaches(t, pc)
    PROVE  turn' \in [Turn -> Task]
BY RestTyped, RunsTyped DEF Reaches, VoiceTypeOK, Task

\* A step that leaves the messages and what counts them keeps the numbers, if a turn
\* that goes on counting has read the session, now or before.
LEMMA QuietKeeps ==
    ASSUME Numbered, UNCHANGED msgs,
           row'.turns = row.turns, Here' <=> Here, row'.st = "none" => row.st = "none",
           \A t \in Turn :
              /\ Under(t)' => Under(t)
              /\ turn'[t].pc \in Counting =>
                    \/ turn[t].pc \in Counting /\ turn'[t].n = turn[t].n
                    \/ Here /\ turn'[t].n = row.turns
              /\ Holds(t)' => Here
    PROVE  Numbered'
<1>1. OneTurn'
  BY DEF Numbered, OneTurn
<1>2. RowCounts'
  BY DEF Numbered, RowCounts
<1>3. TurnsCount'
  BY DEF Numbered, TurnsCount, Here, Open, Terminal
<1> QED
  BY <1>1, <1>2, <1>3 DEF Numbered

\* The session is made, and goes with its messages.
LEMMA ResourceStep ==
    ASSUME VoiceInv, Create \/ Delete
    PROVE  VoiceInv'
<1>1. CASE Create
  <2>1. VoiceTypeOK'
    BY <1>1 DEF Create, VoiceInv, VoiceTypeOK, Row, Open
  <2>2. ASSUME ~overlapped PROVE Numbered'
    <3>1. msgs = <<>> /\ msgs' = msgs /\ row'.turns = 0 /\ Here' /\ row.st = "none"
      BY <1>1, <2>2 DEF Create, VoiceInv, Numbered, RowCounts, Here, Open, Terminal
    <3>2. RowCounts'
      BY <3>1 DEF RowCounts
    <3>3. TurnsCount'
      BY <1>1, <2>2, <3>1 DEF Create, VoiceInv, Numbered, TurnsCount, Holds, Counting
    <3> QED
      BY <1>1, <2>2, <3>1, <3>2, <3>3 DEF Create, VoiceInv, Numbered, OneTurn, Under
  <2> QED
    BY <1>1, <2>1, <2>2 DEF Create, VoiceInv
<1>2. CASE Delete
  <2>1. msgs' = <<>> /\ ~Here'
    BY <1>2 DEF Delete, Here, Open, Terminal
  <2>2. VoiceTypeOK'
    BY <1>2, <2>1 DEF Delete, VoiceInv, VoiceTypeOK, Row
  <2>3. ASSUME ~overlapped PROVE Numbered'
    <3>1. RowCounts'
      BY <2>1 DEF RowCounts
    <3>2. TurnsCount'
      BY <1>2, <2>1, <2>3 DEF Delete, VoiceInv, Numbered, TurnsCount, LockFree, Holds
    <3> QED
      BY <1>2, <2>1, <2>3, <3>1, <3>2 DEF Delete, VoiceInv, Numbered, OneTurn, Under
  <2> QED
    BY <1>2, <2>2, <2>3 DEF Delete, VoiceInv
<1> QED
  BY <1>1, <1>2

\* A connection writes at most the state of the session, and cancels turns.
LEMMA SocketStep ==
    ASSUME VoiceInv, NEW s \in Sock,
           \/ Connect(s) \/ OnAudio(s) \/ AudioStart(s) \/ Interrupt(s) \/ SocketEnds(s)
           \/ HandlerSteps(s)
    PROVE  VoiceInv'
<1>0. sock[s] \in Handler /\ VoiceTypeOK
  BY DEF VoiceInv, VoiceTypeOK
<1>1. \A pc \in {"closing", "ending", "closed"} : [NewSock EXCEPT !.pc = pc] \in Handler
  BY RestTyped DEF Handler
<1>2. sock' \in [Sock -> Handler]
  <2>1. CASE Connect(s)
    <3>1. CASE Here
      <4>1. [NewSock EXCEPT !.pc = "connecting", !.was = row.st] \in Handler
        BY <3>1, RestTyped DEF Handler, Here
      <4> QED
        BY <1>0, <2>1, <3>1, <4>1, HandlesTyped DEF Connect
    <3>2. CASE ~Here
      BY <1>0, <1>1, <2>1, <3>2, HandlesTyped DEF Connect, Leaves
    <3> QED
      BY <3>1, <3>2
  <2>2. CASE OnAudio(s) \/ AudioStart(s)
    BY <1>0, <2>2, HandlesTyped DEF OnAudio, AudioStart, Handler
  <2>3. CASE Interrupt(s)
    BY <1>0, <2>3, HandlesTyped DEF Interrupt, Handler
  <2>4. CASE SocketEnds(s) \/ CloseRead(s) \/ CloseSession(s)
    BY <1>0, <1>1, <2>4, HandlesTyped DEF SocketEnds, CloseRead, CloseSession, Leaves
  <2>5. CASE Connected(s) \/ Interrupted(s)
    BY <1>0, <2>5, HandlesTyped DEF Connected, Interrupted, Handler
  <2> QED
    BY <2>1, <2>2, <2>3, <2>4, <2>5 DEF HandlerSteps
<1>3. /\ row' \in Row
      /\ row'.turns = row.turns
      /\ Here' <=> Here
      /\ row'.st = "none" => row.st = "none"
      /\ UNCHANGED <<msgs, overlapped>>
  <2>1. CASE row' = row
    BY <1>0, <2>1 DEF Connect, OnAudio, AudioStart, Interrupt, SocketEnds, HandlerSteps,
                      Connected, Interrupted, CloseRead, CloseSession, VoiceTypeOK, Here
  <2>2. CASE row' # row
    BY <1>0, <2>2 DEF Connect, OnAudio, AudioStart, Interrupt, SocketEnds, HandlerSteps,
                      Connected, Interrupted, CloseRead, CloseSession, VoiceTypeOK, Here,
                      Row, Open, Terminal
  <2> QED
    BY <2>1, <2>2
<1>4. \/ turn' = turn
      \/ turn' = Cancelled(s)
  BY DEF Connect, OnAudio, AudioStart, Interrupt, SocketEnds, HandlerSteps,
         Connected, Interrupted, CloseRead, CloseSession
<1>5. turn' \in [Turn -> Task] /\ \A t \in Turn : turn'[t] \in {turn[t], Done}
  BY <1>0, <1>4, RestTyped DEF VoiceTypeOK, Cancelled
<1>6. VoiceTypeOK'
  BY <1>0, <1>2, <1>3, <1>5 DEF VoiceTypeOK
<1>7. ASSUME ~overlapped PROVE Numbered'
  <2>1. \A t \in Turn : /\ Under(t)' => Under(t)
                        /\ turn'[t].pc \in Counting => turn'[t] = turn[t]
                        /\ Holds(t)' => Here
    BY <1>5, <1>7 DEF Done, Under, Counting, Holds, VoiceInv, Numbered, TurnsCount
  <2> QED
    BY <1>3, <1>7, <2>1, QuietKeeps DEF VoiceInv
<1> QED
  BY <1>3, <1>6, <1>7 DEF VoiceInv

\* A turn starts; it has read nothing yet.
LEMMA TurnStarts ==
    ASSUME VoiceInv, NEW s \in Sock, NEW t \in Turn, AudioEnd(s, t)
    PROVE  VoiceInv'
<1> DEFINE w == [pc |-> "begun", on |-> s, n |-> 0]
<1>0. VoiceTypeOK
  BY DEF VoiceInv
<1>1. sock' \in [Sock -> Handler]
  BY <1>0, HandlesTyped DEF AudioEnd, VoiceTypeOK, Handler
<1>2. w \in Task /\ turn' = [turn EXCEPT ![t] = w]
  BY DEF AudioEnd, Runs, Task
<1>3. VoiceTypeOK'
  BY <1>0, <1>1, <1>2 DEF AudioEnd, VoiceTypeOK
<1>4. ASSUME ~overlapped' PROVE Numbered'
  <2>1. ~overlapped /\ \A u \in Turn : ~Under(u)
    BY <1>0, <1>4 DEF AudioEnd, VoiceTypeOK
  <2>2. \A u \in Turn : u # t => turn'[u] = turn[u]
    BY <1>0, <1>2 DEF VoiceTypeOK
  <2>3. turn'[t].pc = "begun"
    BY <1>0, <1>2 DEF VoiceTypeOK
  <2>4. OneTurn'
    BY <2>1, <2>2 DEF OneTurn, Under
  <2>5. TurnsCount'
    BY <2>1, <2>2, <2>3 DEF AudioEnd, VoiceInv, Numbered, TurnsCount, Counting, Holds, Here
  <2>6. RowCounts' /\ msgs' = msgs
    BY <2>1 DEF AudioEnd, VoiceInv, Numbered, RowCounts, Here
  <2> QED
    BY <2>1, <2>4, <2>5, <2>6 DEF VoiceInv, Numbered
<1> QED
  BY <1>3, <1>4 DEF VoiceInv

\* What a turn does without recording a message.
LEMMA TurnWorks ==
    ASSUME VoiceInv, NEW t \in Turn,
           \/ Reads(t, "begun", "read") \/ Locks(t, "read", "heard")
           \/ NotHeard(t) \/ Heard(t) \/ AgentAnswers(t)
           \/ Reads(t, "asked", "reread") \/ Locks(t, "reread", "speak")
           \/ Speaks(t) \/ TurnFails(t)
    PROVE  VoiceInv'
<1>0. VoiceTypeOK /\ turn[t] \in Task
  BY DEF VoiceInv, VoiceTypeOK
<1>1. PICK w \in Task :
         /\ turn' = [turn EXCEPT ![t] = w]
         /\ Under(t)
         /\ w.pc \in Counting =>
               \/ turn[t].pc \in Counting /\ w.n = turn[t].n
               \/ Here /\ w.n = row.turns
         /\ w.pc \in {"heard", "agent", "answered", "speak", "spoken"} =>
               Here \/ Holds(t)
  <2>1. ASSUME NEW from \in {"begun", "asked"}, NEW to \in {"read", "reread"}, Reads(t, from, to)
        PROVE  \E w \in Task : /\ turn' = [turn EXCEPT ![t] = w]
                               /\ Under(t)
                               /\ w.pc \in Counting => Here /\ w.n = row.turns
                               /\ w.pc \notin {"heard", "agent", "answered", "speak", "spoken"}
    <3>1. CASE Here
      <4> DEFINE w == [turn[t] EXCEPT !.pc = to, !.n = row.turns]
      <4>1. w \in Task
        BY <1>0 DEF VoiceTypeOK, Task, Row
      <4>2. turn' = [turn EXCEPT ![t] = w] /\ w.pc = to /\ w.n = row.turns
        BY <1>0, <2>1, <3>1 DEF Reads, Runs, Task
      <4> QED
        BY <2>1, <3>1, <4>1, <4>2 DEF Reads, Under
    <3>2. CASE ~Here
      BY <2>1, <3>2, RestTyped DEF Reads, Runs, Under, Done, Counting
    <3> QED
      BY <3>1, <3>2
  <2>2. ASSUME NEW pc \in {"heard", "agent", "answered", "speak", "spoken", "done"},
               Reaches(t, pc), Under(t), pc # "done" => turn[t].pc \in Counting,
               pc # "done" => Here \/ Holds(t)
        PROVE  \E w \in Task : /\ turn' = [turn EXCEPT ![t] = w]
                               /\ Under(t)
                               /\ w.pc \in Counting => turn[t].pc \in Counting /\ w.n = turn[t].n
                               /\ w.pc \in {"heard", "agent", "answered", "speak", "spoken"} =>
                                     Here \/ Holds(t)
    <3>1. CASE pc = "done"
      BY <2>2, <3>1, RestTyped DEF Reaches, Runs, Done, Counting
    <3>2. CASE pc # "done"
      <4> DEFINE w == [turn[t] EXCEPT !.pc = pc]
      <4>1. w \in Task /\ w.n = turn[t].n
        BY <1>0, <3>2 DEF Task
      <4>2. turn' = [turn EXCEPT ![t] = w]
        BY <2>2, <3>2 DEF Reaches, Runs
      <4> QED
        BY <2>2, <3>2, <4>1, <4>2
    <3> QED
      BY <3>1, <3>2
  <2>3. CASE Reads(t, "begun", "read") \/ Reads(t, "asked", "reread")
    BY <2>1, <2>3
  <2>4. CASE Locks(t, "read", "heard") \/ Locks(t, "reread", "speak")
    BY <2>2, <2>4 DEF Locks, Under, Counting
  <2>5. CASE NotHeard(t) \/ Heard(t) \/ AgentAnswers(t) \/ Speaks(t) \/ TurnFails(t)
    BY <2>2, <2>5 DEF NotHeard, Heard, AgentAnswers, Speaks, TurnFails, Under, Counting, Holds
  <2> QED
    BY <2>3, <2>4, <2>5
<1>2. \A u \in Turn : turn'[u] = IF u = t THEN w ELSE turn[u]
  BY <1>0, <1>1 DEF VoiceTypeOK
<1>3. /\ UNCHANGED <<msgs, overlapped, sock>>
      /\ row' = row \/ (NotHeard(t) /\ row' = [row EXCEPT !.st = "LISTENING"])
  BY DEF Reads, Locks, NotHeard, Heard, AgentAnswers, Speaks, TurnFails
<1>4. VoiceTypeOK'
  BY <1>0, <1>1, <1>3 DEF VoiceTypeOK, Row, Open
<1>5. ASSUME ~overlapped PROVE Numbered'
  <2>1. TurnsCount
    BY <1>5 DEF VoiceInv, Numbered
  <2>2. row'.turns = row.turns /\ (Here' <=> Here) /\ (row'.st = "none" => row.st = "none")
    BY <1>0, <1>3, <2>1 DEF NotHeard, TurnsCount, Holds, VoiceTypeOK, Row, Here, Open, Terminal
  <2>3. \A u \in Turn : /\ Under(u)' => Under(u)
                        /\ turn'[u].pc \in Counting =>
                              \/ turn[u].pc \in Counting /\ turn'[u].n = turn[u].n
                              \/ Here /\ turn'[u].n = row.turns
                        /\ Holds(u)' => Here
    BY <1>1, <1>2, <2>1 DEF Under, Holds, TurnsCount
  <2> QED
    BY <1>3, <1>5, <2>2, <2>3, QuietKeeps DEF VoiceInv
<1> QED
  BY <1>3, <1>4, <1>5 DEF VoiceInv

\* A message is recorded by the only turn under way, with the number after the last.
LEMMA RecordStep ==
    ASSUME VoiceInv, NEW t \in Turn, CommitQuestion(t) \/ CommitAnswer(t)
    PROVE  VoiceInv'
<1>0. VoiceTypeOK /\ turn[t] \in Task /\ turn[t].n \in Nat
  BY DEF VoiceInv, VoiceTypeOK, Task
<1>1. PICK role \in {"user", "assistant"}, st \in {"THINKING", "LISTENING"}, pc \in {"asked", "done"} :
         Recorded(t, role, st) /\ Reaches(t, pc)
  BY DEF CommitQuestion, CommitAnswer
<1> DEFINE m == [seq |-> turn[t].n + 1, role |-> role, of |-> t]
<1>2. /\ m \in Message
      /\ row' = [st |-> st, turns |-> turn[t].n + 1]
      /\ msgs' = Append(msgs, m)
  BY <1>0, <1>1 DEF Recorded, Counted, Message
<1>3. Holds(t) /\ UNCHANGED <<sock, overlapped>>
  BY DEF CommitQuestion, CommitAnswer, Holds
<1>4. turn' \in [Turn -> Task]
  BY <1>0, <1>1, ReachesTyped
<1>5. msgs' \in Seq(Message)
  BY <1>0, <1>2 DEF VoiceTypeOK
<1>6. VoiceTypeOK'
  BY <1>0, <1>2, <1>3, <1>4, <1>5 DEF VoiceTypeOK, Row, Open
<1>7. ASSUME ~overlapped PROVE Numbered'
  <2>0. Numbered
    BY <1>7 DEF VoiceInv
  <2>1. Here /\ turn[t].n = row.turns /\ row.turns = Len(msgs) /\ Under(t)
    BY <1>3, <2>0 DEF Numbered, TurnsCount, RowCounts, Holds, Counting, Under
  <2>2. Here'
    BY <1>2 DEF Here, Open
  <2>3. Len(msgs') = Len(msgs) + 1
    BY <1>0, <1>2 DEF VoiceTypeOK
  <2>4. RowCounts'
    BY <1>2, <2>1, <2>2, <2>3 DEF RowCounts
  <2>5. \A u \in Turn : u # t => turn'[u] = turn[u]
    BY <1>0, <1>1 DEF Reaches, Runs, VoiceTypeOK
  <2>6. turn'[t].pc \in {"asked", "done"}
    BY <1>0, <1>1 DEF Reaches, Runs, VoiceTypeOK, Task, Done
  <2>7. \A u \in Turn : u # t => ~Under(u)
    BY <2>0, <2>1 DEF Numbered, OneTurn
  <2>8. OneTurn'
    BY <2>5, <2>7 DEF OneTurn, Under
  <2>9. TurnsCount'
    BY <2>2, <2>5, <2>6, <2>7 DEF TurnsCount, Under, Counting, Holds
  <2>10. \A i \in DOMAIN msgs' : msgs'[i].seq = i
    BY <1>0, <1>2, <2>0, <2>1 DEF Numbered, VoiceTypeOK
  <2> QED
    BY <2>4, <2>8, <2>9, <2>10 DEF Numbered
<1> QED
  BY <1>3, <1>6, <1>7 DEF VoiceInv

LEMMA CrashStep ==
    ASSUME VoiceInv, Crash
    PROVE  VoiceInv'
<1>0. VoiceTypeOK
  BY DEF VoiceInv
<1>1. [NewSock EXCEPT !.pc = "closed"] \in Handler
  BY RestTyped DEF Handler
<1>2. VoiceTypeOK'
  BY <1>0, <1>1, RestTyped DEF Crash, VoiceTypeOK
<1>3. \A t \in Turn : turn'[t] \in {turn[t], Done}
  BY DEF Crash
<1>4. ASSUME ~overlapped PROVE Numbered'
  <2>1. \A t \in Turn : /\ Under(t)' => Under(t)
                        /\ turn'[t].pc \in Counting => turn'[t] = turn[t]
                        /\ Holds(t)' => Here
    BY <1>3, <1>4 DEF Done, Under, Counting, Holds, VoiceInv, Numbered, TurnsCount
  <2> QED
    BY <1>4, <2>1, QuietKeeps DEF VoiceInv, Crash, Here
<1> QED
  BY <1>2, <1>4 DEF VoiceInv, Crash

LEMMA VoiceStep == VoiceInv /\ [VoiceNext]_vvars => VoiceInv'
<1> SUFFICES ASSUME VoiceInv, [VoiceNext]_vvars PROVE VoiceInv'
  OBVIOUS
<1>1. CASE Create \/ Delete
  BY <1>1, ResourceStep
<1>2. CASE Crash
  BY <1>2, CrashStep
<1>3. ASSUME NEW s \in Sock, ClientSteps(s) \/ HandlerSteps(s) PROVE VoiceInv'
  BY <1>3, SocketStep, TurnStarts DEF ClientSteps
<1>4. ASSUME NEW t \in Turn, TurnSteps(t) \/ TurnFails(t) PROVE VoiceInv'
  BY <1>4, TurnWorks, RecordStep DEF TurnSteps
<1>5. CASE UNCHANGED vvars
  BY <1>5 DEF vvars, VoiceInv, VoiceTypeOK, Numbered, OneTurn, RowCounts, TurnsCount, Here, Under, Holds
<1> QED
  BY <1>1, <1>2, <1>3, <1>4, <1>5 DEF VoiceNext

LEMMA VoiceAlways == VoiceSpec => []VoiceInv
BY VoiceStart, VoiceStep, PTL DEF VoiceSpec

\* The session, its messages, handlers and turns stay in their types, for any number of
\* sockets and turns.
THEOREM VoiceTypes == VoiceSpec => []VoiceTypeOK
<1>1. VoiceInv => VoiceTypeOK
  BY DEF VoiceInv
<1> QED
  BY <1>1, VoiceAlways, PTL

\* record_message: a session's messages read 1, 2, 3 whatever interruptions, sockets and
\* crashes come between, as long as no client starts a turn before another has ended.
THEOREM MessagesStayNumbered == VoiceSpec => []MessagesNumbered
<1>1. VoiceInv => MessagesNumbered
  BY DEF VoiceInv, Numbered, MessagesNumbered
<1> QED
  BY <1>1, VoiceAlways, PTL

----------------------------------------------------------------------------
(* One container request, for every host, whatever becomes of the call.    *)

CONSTANT AllowUnmanaged

HC == INSTANCE HostContainers

BoxState == {"CREATED", "RUNNING", "RESTARTING", "PAUSED", "EXITED", "DEAD", "UNKNOWN"}

IsBox(b) ==
    /\ b = [id |-> b.id, name |-> b.name, image |-> b.image, label |-> b.label,
            state |-> b.state, gpus |-> b.gpus]
    /\ b.label \in BOOLEAN /\ b.state \in BoxState

\* Docker gives no two containers of a host the same id.
IsHost(h) ==
    /\ h = [docker |-> h.docker, images |-> h.images, network |-> h.network,
            boxes |-> h.boxes]
    /\ h.docker \in {"up", "down"}
    /\ \A b \in h.boxes : IsBox(b)
    /\ \A a, b \in h.boxes : a.id = b.id => a = b

Verbs == {"start", "stop", "restart", "remove", "force"}

\* A call that gets there and back, to a daemon that does what it is asked.
GetsThrough(way) ==
    way.link \notin {"tls", "down", "late", "lost"} /\ way.token /\ way.daemon = "works"

\* The containers under an id as a verb leaves them, and the host then.
Become(h, ref, op) == UNION {HC!Becomes(b, op) : b \in HC!Named(h, ref)}
Left(h, ref, op) == [h EXCEPT !.boxes = (@ \ HC!Named(h, ref)) \cup Become(h, ref, op)]

\* What is on the host under other ids.
Others(h, ref) == h.boxes \ HC!Named(h, ref)

\* May the platform touch what is named?
MayTouch(h, ref) == AllowUnmanaged \/ \A b \in HC!Named(h, ref) : b.label

\* One container becomes at most one, the same but for its state.
LEMMA BecomesIs ==
    ASSUME NEW b, IsBox(b), NEW op \in Verbs
    PROVE  /\ \A x \in HC!Becomes(b, op) :
                 /\ IsBox(x) /\ x.id = b.id /\ x.name = b.name /\ x.label = b.label
                 /\ x.gpus = b.gpus /\ (op \in {"start", "restart"} => x.state = "RUNNING")
           /\ \A x, y \in HC!Becomes(b, op) : x = y
           /\ HC!Becomes(b, op) = {} <=> op \in {"remove", "force"}
<1>1. CASE op \in {"start", "restart"}
  <2>1. HC!Becomes(b, op) = {[b EXCEPT !.state = "RUNNING"]}
    BY <1>1 DEF HC!Becomes
  <2> QED
    BY <1>1, <2>1 DEF IsBox, BoxState
<1>2. CASE op = "stop"
  <2> DEFINE now == IF b.state \in {"CREATED", "DEAD"} THEN b.state ELSE "EXITED"
  <2>1. HC!Becomes(b, op) = {[b EXCEPT !.state = now]}
    BY <1>2 DEF HC!Becomes, IsBox
  <2>2. now \in BoxState
    BY DEF IsBox, BoxState
  <2> HIDE DEF now
  <2> DEFINE x == [b EXCEPT !.state = now]
  <2>3. x = [id |-> b.id, name |-> b.name, image |-> b.image, label |-> b.label,
             state |-> now, gpus |-> b.gpus]
    BY DEF IsBox
  <2> HIDE DEF x
  <2>4. IsBox(x) /\ x.id = b.id /\ x.name = b.name /\ x.label = b.label /\ x.gpus = b.gpus
    BY <2>2, <2>3 DEF IsBox
  <2>5. HC!Becomes(b, op) = {x}
    BY <2>1 DEF x
  <2> QED
    BY <1>2, <2>4, <2>5
<1>3. CASE op \in {"remove", "force"}
  <2>1. HC!Becomes(b, op) = {}
    BY <1>3 DEF HC!Becomes
  <2> QED
    BY <1>3, <2>1
<1> QED
  BY <1>1, <1>2, <1>3 DEF Verbs

\* The host that is left is one, and differs only in what was named.
LEMMA LeftIs ==
    ASSUME NEW h, IsHost(h), NEW ref, NEW op \in Verbs
    PROVE  /\ IsHost(Left(h, ref, op)) /\ Left(h, ref, op).docker = h.docker
           /\ HC!Named(Left(h, ref, op), ref) = Become(h, ref, op)
           /\ Others(Left(h, ref, op), ref) = Others(h, ref)
           /\ \A x \in Become(h, ref, op) :
                 /\ IsBox(x) /\ x.id = ref
                 /\ \E b \in HC!Named(h, ref) :
                       x.name = b.name /\ x.label = b.label /\ x.gpus = b.gpus
                 /\ op \in {"start", "restart"} => x.state = "RUNNING"
           /\ \A x, y \in Become(h, ref, op) : x = y
           /\ Become(h, ref, op) = {} <=> op \in {"remove", "force"} \/ HC!Named(h, ref) = {}
<1> DEFINE g == Left(h, ref, op)
<1>1. /\ \A b \in HC!Named(h, ref) : b \in h.boxes /\ b.id = ref /\ IsBox(b)
      /\ \A a, b \in HC!Named(h, ref) : a = b
      /\ \A b \in h.boxes : IsBox(b) /\ (b.id = ref => b \in HC!Named(h, ref))
  BY DEF HC!Named, IsHost
<1>2. \A x \in Become(h, ref, op) : \E b \in HC!Named(h, ref) : x \in HC!Becomes(b, op)
  BY DEF Become
<1>3. \A b \in HC!Named(h, ref) : HC!Becomes(b, op) \subseteq Become(h, ref, op)
  BY DEF Become
<1>4. \A x \in Become(h, ref, op) :
         /\ IsBox(x) /\ x.id = ref
         /\ \E b \in HC!Named(h, ref) :
               x.name = b.name /\ x.label = b.label /\ x.gpus = b.gpus
         /\ op \in {"start", "restart"} => x.state = "RUNNING"
  BY <1>1, <1>2, BecomesIs
<1>5. \A x, y \in Become(h, ref, op) : x = y
  <2> SUFFICES ASSUME NEW x \in Become(h, ref, op), NEW y \in Become(h, ref, op)
               PROVE  x = y
    OBVIOUS
  <2>1. PICK b \in HC!Named(h, ref) : x \in HC!Becomes(b, op)
    BY <1>2
  <2>2. PICK a \in HC!Named(h, ref) : y \in HC!Becomes(a, op)
    BY <1>2
  <2>3. a = b /\ IsBox(b)
    BY <1>1
  <2> QED
    BY <2>1, <2>2, <2>3, BecomesIs
<1>6. Become(h, ref, op) = {} <=> op \in {"remove", "force"} \/ HC!Named(h, ref) = {}
  <2>1. ASSUME HC!Named(h, ref) # {}, op \notin {"remove", "force"}
        PROVE  Become(h, ref, op) # {}
    <3>1. PICK b \in HC!Named(h, ref) : IsBox(b)
      BY <1>1, <2>1
    <3>2. HC!Becomes(b, op) # {}
      BY <2>1, <3>1, BecomesIs
    <3> QED
      BY <1>3, <3>1, <3>2
  <2>2. ASSUME NEW x \in Become(h, ref, op)
        PROVE  HC!Named(h, ref) # {} /\ op \notin {"remove", "force"}
    <3>1. PICK b \in HC!Named(h, ref) : x \in HC!Becomes(b, op)
      BY <1>2
    <3> QED
      BY <1>1, <3>1, BecomesIs
  <2> QED
    BY <2>1, <2>2
<1>7. /\ g.docker = h.docker /\ g.images = h.images /\ g.network = h.network
      /\ g.boxes = Others(h, ref) \cup Become(h, ref, op)
      /\ g = [docker |-> g.docker, images |-> g.images, network |-> g.network,
              boxes |-> g.boxes]
  <2> DEFINE boxes == Others(h, ref) \cup Become(h, ref, op)
  <2>1. g = [h EXCEPT !.boxes = boxes]
    BY DEF Left, Others, IsHost
  <2> HIDE DEF boxes, g
  <2>2. g = [docker |-> h.docker, images |-> h.images, network |-> h.network, boxes |-> boxes]
    BY <2>1 DEF IsHost
  <2> QED
    BY <2>2 DEF boxes
<1> HIDE DEF g
<1>8. \A b \in Others(h, ref) : b \in h.boxes /\ b.id # ref /\ IsBox(b)
  BY <1>1 DEF Others
<1>9. HC!Named(g, ref) = Become(h, ref, op)
  BY <1>4, <1>7, <1>8 DEF HC!Named
<1>10. Others(g, ref) = Others(h, ref)
  <2>1. Others(g, ref) = g.boxes \ HC!Named(g, ref)
    BY DEF Others
  <2>2. \A b \in Others(h, ref) : b \notin Become(h, ref, op)
    BY <1>4, <1>8
  <2> QED
    BY <1>7, <1>9, <2>1, <2>2
<1>11. IsHost(g)
  <2>1. \A b \in g.boxes : IsBox(b)
    BY <1>4, <1>7, <1>8
  <2>2. \A a, b \in g.boxes : a.id = b.id => a = b
    <3>1. \A a, b \in Others(h, ref) : a.id = b.id => a = b
      BY <1>8 DEF IsHost
    <3> QED
      BY <1>4, <1>5, <1>7, <1>8, <3>1
  <2>3. g.docker \in {"up", "down"}
    BY <1>7 DEF IsHost
  <2> QED
    BY <1>7, <2>1, <2>2, <2>3 DEF IsHost
<1> QED
  BY <1>4, <1>5, <1>6, <1>7, <1>9, <1>10, <1>11 DEF g

LEMMA ManagedIs ==
    ASSUME NEW h, IsHost(h), NEW ref
    PROVE  LET r == HC!RequireManaged(h, ref) IN
           /\ r.host = h
           /\ r.says = "ok" => /\ h.docker = "up" /\ r.info = HC!Named(h, ref)
                               /\ r.info # {} /\ MayTouch(h, ref)
           /\ r.says = "Unmanaged" => h.docker = "up" /\ ~MayTouch(h, ref)
           /\ h.docker = "up" /\ HC!Named(h, ref) # {} /\ MayTouch(h, ref) => r.says = "ok"
<1> DEFINE found == HC!Inspect(h, ref)
<1>1. h.docker \in {"up", "down"} /\ \A b \in HC!Named(h, ref) : b.label \in BOOLEAN
  BY DEF IsHost, IsBox, HC!Named
<1>2. CASE h.docker = "down"
  <2>1. found = HC!Raises(h, "Unavailable")
    BY <1>2 DEF HC!Inspect
  <2>2. found.host = h /\ found.says = "Unavailable" /\ found.info = {}
    BY <2>1 DEF HC!Raises
  <2>3. HC!RequireManaged(h, ref) = found
    BY <2>2 DEF HC!RequireManaged
  <2> QED
    BY <1>2, <2>2, <2>3
<1>3. CASE h.docker = "up" /\ HC!Named(h, ref) = {}
  <2>1. found = HC!Raises(h, "NotFound")
    BY <1>3 DEF HC!Inspect
  <2>2. found.host = h /\ found.says = "NotFound" /\ found.info = {}
    BY <2>1 DEF HC!Raises
  <2>3. HC!RequireManaged(h, ref) = found
    BY <2>2 DEF HC!RequireManaged
  <2> QED
    BY <1>3, <2>2, <2>3
<1>4. CASE h.docker = "up" /\ HC!Named(h, ref) # {}
  <2>1. found = HC!Done(h, HC!Named(h, ref))
    BY <1>4 DEF HC!Inspect
  <2>2. found.host = h /\ found.says = "ok" /\ found.info = HC!Named(h, ref)
    BY <2>1 DEF HC!Done
  <2>3. CASE MayTouch(h, ref)
    <3>1. HC!RequireManaged(h, ref) = found
      BY <2>2, <2>3 DEF HC!RequireManaged, MayTouch
    <3> QED
      BY <1>4, <2>2, <2>3, <3>1
  <2>4. CASE ~MayTouch(h, ref)
    <3>1. HC!RequireManaged(h, ref) = HC!Raises(h, "Unmanaged")
      BY <2>2, <2>4 DEF HC!RequireManaged, MayTouch
    <3>2. LET r == HC!Raises(h, "Unmanaged") IN r.host = h /\ r.says = "Unmanaged"
      BY DEF HC!Raises
    <3> QED
      BY <1>4, <2>4, <3>1, <3>2
  <2> QED
    BY <2>3, <2>4
<1> QED
  BY <1>1, <1>2, <1>3, <1>4

\* A control call leaves the host as it was, or makes of the named containers, which the
\* platform may touch, what the verb makes of them.
LEMMA ControlIs ==
    ASSUME NEW h, IsHost(h), NEW ref, NEW op \in Verbs, NEW daemon
    PROVE  LET r == HC!Control(h, ref, op, daemon) IN
           /\ \/ r.host = h
              \/ r.host = Left(h, ref, op) /\ MayTouch(h, ref)
           /\ r.says = "ok" => /\ r.host = Left(h, ref, op) /\ r.info = Become(h, ref, op)
                               /\ HC!Named(h, ref) # {} /\ MayTouch(h, ref)
           /\ r.says = "Unmanaged" => r.host = h /\ ~MayTouch(h, ref)
           /\ /\ daemon = "works" /\ op \in {"stop", "force"} /\ h.docker = "up"
              /\ HC!Named(h, ref) # {} /\ MayTouch(h, ref)
              => r.says = "ok"
<1> DEFINE found == HC!RequireManaged(h, ref)
           r == HC!Control(h, ref, op, daemon)
           after == UNION {HC!Becomes(b, op) : b \in found.info}
           reloads == op \notin {"remove", "force"}
<1>1. /\ found.host = h
      /\ found.says = "ok" => /\ h.docker = "up" /\ found.info = HC!Named(h, ref)
                              /\ found.info # {} /\ MayTouch(h, ref)
      /\ found.says = "Unmanaged" => h.docker = "up" /\ ~MayTouch(h, ref)
      /\ h.docker = "up" /\ HC!Named(h, ref) # {} /\ MayTouch(h, ref) => found.says = "ok"
  BY ManagedIs
<1>2. CASE found.says # "ok"
  <2>1. r = found
    BY <1>2 DEF HC!Control
  <2> QED
    BY <1>1, <1>2, <2>1
<1>3. CASE found.says = "ok" /\ \E b \in found.info : ~HC!Permits(b, op)
  <2>1. r = HC!Raises(h, "Unavailable")
    BY <1>3 DEF HC!Control
  <2>2. r.host = h /\ r.says = "Unavailable"
    BY <2>1 DEF HC!Raises
  <2>3. op \notin {"stop", "force"}
    BY <1>3 DEF HC!Permits
  <2> QED
    BY <2>2, <2>3
<1>4. CASE found.says = "ok" /\ ~\E b \in found.info : ~HC!Permits(b, op)
  <2>1. r = HC!Changed(h, (h.boxes \ found.info) \cup after, after, daemon, reloads)
    BY <1>4 DEF HC!Control
  <2>2. after = Become(h, ref, op) /\ found.info = HC!Named(h, ref)
    BY <1>1, <1>4 DEF Become
  <2>3. r = HC!Changed(h, (h.boxes \ HC!Named(h, ref)) \cup Become(h, ref, op),
                       Become(h, ref, op), daemon, reloads)
    BY <2>1, <2>2
  <2> HIDE DEF after, reloads, r
  <2>4. CASE daemon = "refuses"
    <3>1. r = HC!Raises(h, "Unavailable")
      BY <2>3, <2>4 DEF HC!Changed
    <3>2. r.host = h /\ r.says = "Unavailable"
      BY <3>1 DEF HC!Raises
    <3> QED
      BY <2>4, <3>2 DEF r
  <2>5. CASE daemon = "fades" /\ reloads
    <3>1. r = HC!Raises(Left(h, ref, op), "Unavailable")
      BY <2>3, <2>5 DEF HC!Changed, Left
    <3>2. r.host = Left(h, ref, op) /\ r.says = "Unavailable"
      BY <3>1 DEF HC!Raises
    <3> QED
      BY <1>1, <1>4, <2>5, <3>2 DEF r
  <2>6. CASE daemon # "refuses" /\ ~(daemon = "fades" /\ reloads)
    <3>1. r = HC!Done(Left(h, ref, op), Become(h, ref, op))
      BY <2>3, <2>6 DEF HC!Changed, Left
    <3>2. r.host = Left(h, ref, op) /\ r.says = "ok" /\ r.info = Become(h, ref, op)
      BY <3>1 DEF HC!Done
    <3> QED
      BY <1>1, <1>4, <3>2 DEF r
  <2> QED
    BY <2>4, <2>5, <2>6
<1> QED
  BY <1>2, <1>3, <1>4

\* What the caller learns: "ok" only of what was done, "refused" only of what is not the
\* platform's; and a call either reaches the handler or changes nothing.
Answers(h, way, r, q) ==
    /\ q.host \in {h, r.host}
    /\ q.class \in {"ok", "auth", "refused", "unreachable", "error"}
    /\ q.class = "ok" => r.says = "ok" /\ q.host = r.host /\ q.info = r.info
    /\ q.class = "refused" => r.says = "Unmanaged" /\ q.host = r.host
    /\ q.class # "ok" => r.says # "ok" \/ q.info = {}
    /\ q.info \in {{}, r.info}
    /\ r.says = "ok" /\ way.link \notin {"tls", "down", "late", "lost"} /\ way.token
          => q.class = "ok"
    /\ q = [host |-> q.host, class |-> q.class, info |-> q.info]

LEMMA RequestIs ==
    ASSUME NEW h, NEW way, NEW r, NEW listing \in BOOLEAN
    PROVE  Answers(h, way, r, HC!Request(h, way, r, listing))
<1> DEFINE a == HC!Answered(h, way, r, listing)
           code == HC!Code(r.says, listing)
           q == HC!Request(h, way, r, listing)
<1>1. /\ code \in {200, 403, 404, 500, 503}
      /\ code = 200 <=> r.says = "ok"
      /\ code = 403 <=> r.says = "Unmanaged"
  BY DEF HC!Code
<1> HIDE DEF code
<1>2. \/ way.token /\ a.code = code /\ a.host = r.host /\ a.info = r.info
      \/ ~way.token /\ a.code = 401 /\ a.host = h /\ a.info = {}
  BY DEF HC!Answered, code
<1> HIDE DEF a
<1>3. /\ HC!ClassOf(a.code) \in {"ok", "auth", "refused", "error"}
      /\ HC!ClassOf(a.code) = "ok" <=> a.code = 200
      /\ HC!ClassOf(a.code) = "refused" <=> a.code = 403
  BY DEF HC!ClassOf
<1>4. CASE way.link \in {"tls", "down"}
  BY <1>4 DEF HC!Request, Answers
<1>5. CASE way.link \in {"late", "lost"}
  <2>1. /\ q.host = a.host /\ q.class \in {"unreachable", "error"} /\ q.info = {}
        /\ q = [host |-> q.host, class |-> q.class, info |-> q.info]
    BY <1>5 DEF HC!Request, a
  <2> QED
    BY <1>2, <1>5, <2>1 DEF q, Answers
<1>6. CASE way.link \notin {"tls", "down", "late", "lost"}
  <2>1. /\ q.host = a.host /\ q.class = HC!ClassOf(a.code) /\ q.info = a.info
        /\ q = [host |-> q.host, class |-> q.class, info |-> q.info]
    BY <1>6 DEF HC!Request, a
  <2> HIDE DEF q
  <2> QED
    BY <1>1, <1>2, <1>3, <1>6, <2>1 DEF q, Answers
<1> QED
  BY <1>4, <1>5, <1>6

\* What an operator or the worker asks for by id.
LEMMA AskIs ==
    ASSUME NEW h, IsHost(h), NEW ref, NEW op \in Verbs, NEW way
    PROVE  LET q == HC!AskControl(h, way, ref, op) IN
           /\ \/ q.host = h
              \/ q.host = Left(h, ref, op) /\ MayTouch(h, ref)
           /\ q.class \in {"ok", "auth", "refused", "unreachable", "error"}
           /\ q.class = "ok" => /\ q.host = Left(h, ref, op) /\ q.info = Become(h, ref, op)
                                /\ HC!Named(h, ref) # {} /\ MayTouch(h, ref)
           /\ q.class = "refused" => q.host = h /\ ~MayTouch(h, ref)
           /\ /\ GetsThrough(way) /\ op \in {"stop", "force"} /\ h.docker = "up"
              /\ HC!Named(h, ref) # {} /\ MayTouch(h, ref)
              => q.class = "ok"
<1> DEFINE r == HC!Control(h, ref, op, way.daemon)
           q == HC!AskControl(h, way, ref, op)
<1>1. /\ \/ r.host = h
         \/ r.host = Left(h, ref, op) /\ MayTouch(h, ref)
      /\ r.says = "ok" => /\ r.host = Left(h, ref, op) /\ r.info = Become(h, ref, op)
                          /\ HC!Named(h, ref) # {} /\ MayTouch(h, ref)
      /\ r.says = "Unmanaged" => r.host = h /\ ~MayTouch(h, ref)
      /\ /\ way.daemon = "works" /\ op \in {"stop", "force"} /\ h.docker = "up"
         /\ HC!Named(h, ref) # {} /\ MayTouch(h, ref)
         => r.says = "ok"
  BY ControlIs
<1> HIDE DEF r
<1>2. q = HC!Request(h, way, r, FALSE)
  BY DEF HC!AskControl, r
<1> HIDE DEF q
<1>3. Answers(h, way, r, q)
  BY <1>2, RequestIs
<1> QED
  BY <1>1, <1>3 DEF q, GetsThrough, Answers

\* What a request by an id leaves alone on the way from host h to host g.
Spared(h, g, ref) ==
    /\ IsHost(g) /\ g.docker = h.docker
    /\ Others(g, ref) = Others(h, ref)
    /\ ~MayTouch(h, ref) => g = h
    /\ \A x \in HC!Named(g, ref) :
          \E b \in HC!Named(h, ref) :
             x.name = b.name /\ x.label = b.label /\ x.gpus = b.gpus

LEMMA AskSpares ==
    ASSUME NEW h, IsHost(h), NEW ref, NEW op \in Verbs, NEW way
    PROVE  Spared(h, HC!AskControl(h, way, ref, op).host, ref)
<1> DEFINE g == HC!AskControl(h, way, ref, op).host
<1>1. \/ g = h
      \/ g = Left(h, ref, op) /\ MayTouch(h, ref)
  BY AskIs
<1> HIDE DEF g
<1>2. CASE g = h
  BY <1>2 DEF g, Spared
<1>3. CASE g = Left(h, ref, op) /\ MayTouch(h, ref)
  <2>1. /\ IsHost(g) /\ g.docker = h.docker
        /\ HC!Named(g, ref) = Become(h, ref, op)
        /\ Others(g, ref) = Others(h, ref)
        /\ \A x \in Become(h, ref, op) :
              \E b \in HC!Named(h, ref) :
                 x.name = b.name /\ x.label = b.label /\ x.gpus = b.gpus
    BY <1>3, LeftIs
  <2> QED
    BY <1>3, <2>1 DEF g, Spared
<1> QED
  BY <1>1, <1>2, <1>3

\* The container a specification asks for, and the host that has it.
Made(spec, ref) ==
    [id |-> ref, name |-> spec.name, image |-> spec.image, label |-> TRUE,
     state |-> "CREATED", gpus |-> spec.gpus]
Grown(h, spec, ref) == [h EXCEPT !.boxes = @ \cup {Made(spec, ref)}]

LEMMA GrownIs ==
    ASSUME NEW h, IsHost(h), NEW spec, NEW ref, HC!Named(h, ref) = {}
    PROVE  LET g == Grown(h, spec, ref) IN
           /\ IsHost(g) /\ g.docker = h.docker
           /\ HC!Named(g, ref) = {Made(spec, ref)}
           /\ Others(g, ref) = h.boxes
<1> DEFINE g == Grown(h, spec, ref)
           b == Made(spec, ref)
           boxes == h.boxes \cup {b}
<1>1. IsBox(b) /\ b.id = ref
  BY DEF IsBox, Made, BoxState
<1> HIDE DEF b
<1>2. g = [docker |-> h.docker, images |-> h.images, network |-> h.network, boxes |-> boxes]
  <2>1. g = [h EXCEPT !.boxes = boxes]
    BY DEF Grown, IsHost, b
  <2> HIDE DEF boxes, g
  <2> QED
    BY <2>1 DEF IsHost
<1> HIDE DEF g
<1>3. g.docker = h.docker /\ g.boxes = boxes
      /\ g = [docker |-> g.docker, images |-> g.images, network |-> g.network,
              boxes |-> g.boxes]
  BY <1>2
<1>4. \A x \in h.boxes : x.id # ref /\ IsBox(x)
  BY DEF HC!Named, IsHost
<1>5. HC!Named(g, ref) = {b} /\ Others(g, ref) = h.boxes
  BY <1>1, <1>3, <1>4 DEF HC!Named, Others
<1>6. IsHost(g)
  BY <1>1, <1>3, <1>4 DEF IsHost
<1> QED
  BY <1>3, <1>5, <1>6 DEF g, b

LEMMA CreateIs ==
    ASSUME NEW h, IsHost(h), NEW spec, NEW ref, NEW way
    PROVE  LET q == HC!AskCreate(h, way, spec, ref) IN
           /\ q.host \in {h, Grown(h, spec, ref)}
           /\ q.class = "ok" => q.host = Grown(h, spec, ref)
           /\ spec.image \notin h.images \/ (\E b \in h.boxes : b.name = spec.name) => q.host = h
<1> DEFINE r == HC!Create(h, spec, ref, way.daemon)
           q == HC!AskCreate(h, way, spec, ref)
           there == /\ h.docker = "up" /\ spec.image \in h.images
                    /\ h.network /\ \A b \in h.boxes : b.name # spec.name
           c == HC!Changed(h, h.boxes \cup {Made(spec, ref)}, {Made(spec, ref)}, way.daemon, TRUE)
<1>1. \/ r.host = h /\ r.says # "ok"
      \/ there /\ r = c
  BY DEF HC!Create, HC!Raises, Made, IsHost
<1> HIDE DEF r
<1>2. (c.host = h /\ c.says # "ok") \/ c.host = Grown(h, spec, ref)
  BY DEF HC!Changed, HC!Raises, HC!Done, Grown
<1> HIDE DEF c
<1>3. /\ r.host \in {h, Grown(h, spec, ref)}
      /\ r.says = "ok" => r.host = Grown(h, spec, ref)
      /\ spec.image \notin h.images \/ (\E b \in h.boxes : b.name = spec.name) => r.host = h
  BY <1>1, <1>2
<1>4. q = HC!Request(h, way, r, FALSE)
  BY DEF HC!AskCreate, r
<1> HIDE DEF q
<1>5. Answers(h, way, r, q)
  BY <1>4, RequestIs
<1> QED
  BY <1>3, <1>5 DEF q, Answers

\* What may come of making a container under an id of Docker's own, d being the handle.
NoStray(h, d, req, ref) ==
    LET new == HC!Named(d.host, ref) IN
    /\ Others(d.host, ref) = h.boxes
    /\ \A x, y \in new : x = y
    /\ \A x \in new : x.label = TRUE /\ x.name = req.deployment
    /\ req.image \notin h.images \/ (\E b \in h.boxes : b.name = req.deployment)
          => new = {} /\ d.state = "FAILED"
    /\ d.state = "STARTING" =>
          \E x \in new : /\ x.state = "RUNNING"
                         /\ x.gpus = IF req.mock THEN {} ELSE req.gpus
    /\ d.state # "STARTING" => d.ref = {}

\* deploy_model: what comes of it, whatever becomes of its two calls, is at most one new
\* container, under its id and the deployment's name, and with the platform's label, by
\* which it is found again; nothing else is touched; where the name is taken or the image
\* missing nothing comes of it; and it is only said to start if it runs with what was asked
\* for.
THEOREM DeployingLeavesNoStray ==
    ASSUME NEW h, IsHost(h), NEW first, NEW second, NEW req, NEW ref, HC!Named(h, ref) = {}
    PROVE  NoStray(h, HC!DeployModel(h, first, second, req, ref), req, ref)
<1> DEFINE spec == HC!Spec(req)
           made == HC!AskCreate(h, first, spec, ref)
           g == made.host
           started == HC!AskControl(g, second, ref, "start")
           f == started.host
           d == HC!DeployModel(h, first, second, req, ref)
           box0 == Made(spec, ref)
           taken == spec.image \notin h.images \/ \E b \in h.boxes : b.name = spec.name
<1>1. spec.name = req.deployment /\ spec.image = req.image
      /\ spec.gpus = IF req.mock THEN {} ELSE req.gpus
  BY DEF HC!Spec
<1>2. /\ d.state = "STARTING" <=> made.class = "ok" /\ started.class = "ok"
      /\ d.state \in {"STARTING", "FAILED"} /\ (d.state # "STARTING" => d.ref = {})
      /\ d.host = IF made.class = "ok" THEN f ELSE g
  BY DEF HC!DeployModel, HC!Handle
<1> HIDE DEF spec, d
<1>3. g \in {h, Grown(h, spec, ref)} /\ (made.class = "ok" => g = Grown(h, spec, ref))
      /\ (taken => g = h)
  BY CreateIs
<1>4. /\ IsHost(Grown(h, spec, ref)) /\ HC!Named(Grown(h, spec, ref), ref) = {box0}
      /\ Others(Grown(h, spec, ref), ref) = h.boxes
  BY GrownIs
<1> HIDE DEF taken
<1>5. h # Grown(h, spec, ref)
  BY <1>4
<1>6. Others(h, ref) = h.boxes
  BY DEF Others
<1>7. box0.label = TRUE /\ box0.name = req.deployment /\ box0.gpus = spec.gpus
  BY <1>1 DEF Made
<1> HIDE DEF box0, made
<1>8. CASE made.class # "ok"
  <2>1. d.host = g /\ d.state = "FAILED" /\ d.ref = {}
    BY <1>2, <1>8
  <2>2. Others(g, ref) = h.boxes /\ HC!Named(g, ref) \in {{}, {box0}}
        /\ (taken => HC!Named(g, ref) = {})
    BY <1>3, <1>4, <1>6
  <2> QED
    BY <1>1, <1>7, <2>1, <2>2 DEF d, taken, NoStray
<1>9. CASE made.class = "ok"
  <2>1. g = Grown(h, spec, ref) /\ d.host = f /\ ~taken
    BY <1>2, <1>3, <1>5, <1>9
  <2>2. "start" \in Verbs
    BY DEF Verbs
  <2>3. /\ Others(f, ref) = Others(g, ref)
        /\ \A x \in HC!Named(f, ref) :
              \E b \in HC!Named(g, ref) :
                 x.name = b.name /\ x.label = b.label /\ x.gpus = b.gpus
        /\ IsHost(f)
    <3>1. IsHost(g)
      BY <1>4, <2>1
    <3> HIDE DEF g
    <3>2. Spared(g, f, ref)
      BY <2>2, <3>1, AskSpares
    <3> QED
      BY <3>2 DEF Spared
  <2>4. started.class = "ok" => f = Left(g, ref, "start") /\ HC!Named(g, ref) # {}
    BY <1>4, <2>1, <2>2, AskIs
  <2>5. /\ HC!Named(Left(g, ref, "start"), ref) = Become(g, ref, "start")
        /\ \A x \in Become(g, ref, "start") : x.state = "RUNNING"
        /\ Become(g, ref, "start") = {} => HC!Named(g, ref) = {}
    BY <1>4, <2>1, <2>2, LeftIs
  <2> HIDE DEF started, f, g
  <2>6. \A x \in HC!Named(f, ref) : /\ x.label = TRUE /\ x.name = req.deployment
                                    /\ x.gpus = spec.gpus
    BY <1>4, <1>7, <2>1, <2>3
  <2>7. \A x, y \in HC!Named(f, ref) : x = y
    BY <2>3 DEF IsHost, HC!Named
  <2>8. started.class = "ok" => \E x \in HC!Named(f, ref) : x.state = "RUNNING"
    BY <2>4, <2>5
  <2>9. Others(f, ref) = h.boxes
    BY <1>4, <2>1, <2>3
  <2> QED
    BY <1>1, <1>2, <1>9, <2>1, <2>6, <2>7, <2>8, <2>9 DEF d, taken, NoStray
<1> QED
  BY <1>8, <1>9

LEMMA SparedKeeps ==
    ASSUME NEW h, NEW g, NEW ref, Spared(h, g, ref), ~AllowUnmanaged,
           NEW b \in h.boxes, ~b.label
    PROVE  b \in g.boxes /\ IsHost(g)
<1>1. CASE b \in HC!Named(h, ref)
  BY <1>1 DEF Spared, MayTouch
<1>2. CASE b \notin HC!Named(h, ref)
  BY <1>2 DEF Spared, Others
<1> QED
  BY <1>1, <1>2

\* Where the agent was not told to control what is not the platform's, a container without
\* the platform's label survives, in the state it was in, whatever id the platform asks
\* about, and however the calls of such a request end: an operator's, a stop, a restart or a
\* removal of the deployment worker, and the making of a container.
THEOREM ForeignUntouched ==
    ASSUME ~AllowUnmanaged, NEW h, IsHost(h), NEW b \in h.boxes, ~b.label,
           NEW ref, NEW op \in Verbs, NEW way, NEW second, NEW table, NEW req
    PROVE  /\ b \in HC!Operate(table, h, way, ref, op).host.boxes
           /\ b \in HC!StopModel(h, way, second, ref).host.boxes
           /\ b \in HC!RestartModel(h, way, ref).host.boxes
           /\ b \in HC!RemoveContainer(h, way, ref).host.boxes
           /\ HC!Named(h, ref) = {} => b \in HC!DeployModel(h, way, second, req, ref).host.boxes
<1> DEFINE after(g, verb, w) == HC!AskControl(g, w, ref, verb).host
<1>1. \A g, w : \A verb \in Verbs :
         IsHost(g) /\ b \in g.boxes => b \in after(g, verb, w).boxes /\ IsHost(after(g, verb, w))
  <2> SUFFICES ASSUME NEW g, NEW w, NEW verb \in Verbs, IsHost(g), b \in g.boxes
               PROVE  b \in after(g, verb, w).boxes /\ IsHost(after(g, verb, w))
    OBVIOUS
  <2>1. Spared(g, after(g, verb, w), ref)
    BY AskSpares
  <2> HIDE DEF after
  <2> QED
    BY <2>1, SparedKeeps
<1>2. op \in Verbs /\ "stop" \in Verbs /\ "force" \in Verbs /\ "restart" \in Verbs
  BY DEF Verbs
<1>3. b \in HC!Operate(table, h, way, ref, op).host.boxes
  <2>1. HC!Operate(table, h, way, ref, op).host \in {h, after(h, op, way)}
    BY DEF HC!Operate
  <2> HIDE DEF after
  <2> QED
    BY <1>1, <2>1
<1>4. b \in HC!StopModel(h, way, second, ref).host.boxes
  <2> DEFINE g == after(h, "stop", way)
  <2>1. HC!StopModel(h, way, second, ref).host \in {g, after(g, "force", second)}
    BY DEF HC!StopModel, HC!Handle
  <2> HIDE DEF after
  <2>2. IsHost(g) /\ b \in g.boxes
    BY <1>1, <1>2
  <2> HIDE DEF g
  <2> QED
    BY <1>1, <1>2, <2>1, <2>2
<1>5. b \in HC!RestartModel(h, way, ref).host.boxes
  <2>1. HC!RestartModel(h, way, ref).host = after(h, "restart", way)
    BY DEF HC!RestartModel, HC!Handle
  <2> HIDE DEF after
  <2> QED
    BY <1>1, <1>2, <2>1
<1>6. b \in HC!RemoveContainer(h, way, ref).host.boxes
  <2>1. HC!RemoveContainer(h, way, ref).host = after(h, "force", way)
    BY DEF HC!RemoveContainer
  <2> HIDE DEF after
  <2> QED
    BY <1>1, <1>2, <2>1
<1>7. ASSUME HC!Named(h, ref) = {}
      PROVE  b \in HC!DeployModel(h, way, second, req, ref).host.boxes
  <2>1. NoStray(h, HC!DeployModel(h, way, second, req, ref), req, ref)
    BY <1>7, DeployingLeavesNoStray
  <2> QED
    BY <2>1 DEF Others, NoStray
<1> QED
  BY <1>3, <1>4, <1>5, <1>6, <1>7

\* Stopping a deployment's container takes a stop and a removal, and either may be lost or
\* refused after it was reported as stopped.  Asked again while Docker answers, and
\* heard, the stop ends it: what is left under the id is at most what the platform may
\* not touch.  Nothing else on the host is touched by either attempt, and an attempt that
\* finds the container gone, or not the platform's, leaves it so.
THEOREM StoppingAgainEnds ==
    ASSUME NEW h, IsHost(h), NEW ref, NEW w1, NEW w2, NEW v1, NEW v2,
           h.docker = "up", GetsThrough(v1), GetsThrough(v2)
    PROVE  LET once == HC!StopModel(h, w1, w2, ref).host
               again == HC!StopModel(once, v1, v2, ref).host IN
           /\ MayTouch(h, ref) => HC!Named(again, ref) = {}
           /\ ~MayTouch(h, ref) => again = h
           /\ Others(once, ref) = Others(h, ref) /\ Others(again, ref) = Others(h, ref)
<1> DEFINE stopped(g, a) == HC!AskControl(g, a, ref, "stop")
           removed(g, a) == HC!AskControl(g, a, ref, "force")
           stop(g, a, c) == HC!StopModel(g, a, c, ref).host
<1>1. "stop" \in Verbs /\ "force" \in Verbs
  BY DEF Verbs
<1>2. ASSUME NEW g, IsHost(g), NEW a, NEW c
      PROVE  /\ stop(g, a, c) \in {stopped(g, a).host, removed(stopped(g, a).host, c).host}
             /\ stopped(g, a).class = "ok"
                  => stop(g, a, c) = removed(stopped(g, a).host, c).host
             /\ Spared(g, stopped(g, a).host, ref)
             /\ Spared(stopped(g, a).host, removed(stopped(g, a).host, c).host, ref)
  <2>1. /\ stop(g, a, c) \in {stopped(g, a).host, removed(stopped(g, a).host, c).host}
        /\ stopped(g, a).class = "ok"
             => stop(g, a, c) = removed(stopped(g, a).host, c).host
    BY DEF HC!StopModel, HC!Handle
  <2>2. Spared(g, stopped(g, a).host, ref)
    BY <1>1, <1>2, AskSpares
  <2> DEFINE f == stopped(g, a).host
  <2>3. IsHost(f)
    BY <2>2 DEF Spared
  <2> HIDE DEF f
  <2>4. Spared(f, removed(f, c).host, ref)
    BY <1>1, <2>3, AskSpares
  <2> QED
    BY <2>1, <2>2, <2>4 DEF f
<1>3. ASSUME NEW g, IsHost(g), NEW a, NEW c
      PROVE  /\ IsHost(stop(g, a, c)) /\ stop(g, a, c).docker = g.docker
             /\ Others(stop(g, a, c), ref) = Others(g, ref)
             /\ ~MayTouch(g, ref) => stop(g, a, c) = g
             /\ MayTouch(g, ref) => MayTouch(stop(g, a, c), ref)
  <2> DEFINE f == stopped(g, a).host
             e == removed(f, c).host
             s == stop(g, a, c)
  <2>1. s \in {f, e} /\ Spared(g, f, ref) /\ Spared(f, e, ref)
    BY <1>2, <1>3
  <2> HIDE DEF f, e, s, stopped, removed, stop
  <2>2. /\ IsHost(f) /\ IsHost(e) /\ f.docker = g.docker /\ e.docker = g.docker
        /\ Others(f, ref) = Others(g, ref) /\ Others(e, ref) = Others(g, ref)
        /\ ~MayTouch(g, ref) => f = g /\ e = g
    BY <2>1 DEF Spared
  <2>3. MayTouch(g, ref) => MayTouch(f, ref)
    BY <2>1 DEF Spared, MayTouch
  <2>4. MayTouch(f, ref) => MayTouch(e, ref)
    BY <2>1 DEF Spared, MayTouch
  <2> QED
    BY <2>1, <2>2, <2>3, <2>4 DEF s
<1>4. ASSUME NEW g, IsHost(g), g.docker = "up", MayTouch(g, ref)
      PROVE  HC!Named(stop(g, v1, v2), ref) = {}
  <2> DEFINE p == stopped(g, v1)
             f == p.host
             q == removed(f, v2)
             s == stop(g, v1, v2)
  <2>1. /\ s \in {f, q.host} /\ (p.class = "ok" => s = q.host)
        /\ Spared(g, f, ref) /\ Spared(f, q.host, ref)
    BY <1>2, <1>4
  <2>2. HC!Named(g, ref) # {} => p.class = "ok"
    BY <1>1, <1>4, AskIs
  <2>3. IsHost(f) /\ f.docker = "up" /\ MayTouch(f, ref)
    BY <1>4, <2>1 DEF Spared, MayTouch
  <2> HIDE DEF p
  <2> HIDE DEF f
  <2>4. /\ HC!Named(f, ref) # {} => q.class = "ok"
        /\ q.class = "ok" => q.host = Left(f, ref, "force")
    BY <1>1, <2>3, AskIs
  <2>5. HC!Named(Left(f, ref, "force"), ref) = {}
    BY <1>1, <2>3, LeftIs
  <2> HIDE DEF q, s
  <2>6. HC!Named(g, ref) = {} => HC!Named(f, ref) = {}
    BY <2>1 DEF Spared
  <2>7. HC!Named(f, ref) = {} => HC!Named(q.host, ref) = {}
    BY <2>1 DEF Spared
  <2>8. HC!Named(q.host, ref) = {}
    BY <2>4, <2>5, <2>7
  <2>9. HC!Named(s, ref) = {}
    BY <2>1, <2>2, <2>6, <2>8
  <2> QED
    BY <2>9 DEF s
<1> DEFINE once == stop(h, w1, w2)
           again == stop(once, v1, v2)
<1> HIDE DEF stopped, removed, stop
<1>5. /\ IsHost(once) /\ once.docker = "up" /\ Others(once, ref) = Others(h, ref)
      /\ ~MayTouch(h, ref) => once = h
      /\ MayTouch(h, ref) => MayTouch(once, ref)
  BY <1>3
<1> HIDE DEF once
<1>6. /\ Others(again, ref) = Others(once, ref)
      /\ ~MayTouch(once, ref) => again = once
  BY <1>3, <1>5
<1>7. MayTouch(h, ref) => HC!Named(again, ref) = {}
  BY <1>4, <1>5
<1>8. /\ MayTouch(h, ref) => HC!Named(again, ref) = {}
      /\ ~MayTouch(h, ref) => again = h
      /\ Others(once, ref) = Others(h, ref) /\ Others(again, ref) = Others(h, ref)
  BY <1>5, <1>6, <1>7
<1> QED
  BY <1>8 DEF stop, once

\* What an operator's request that ended in o says of the host it found.
OperatorKnows(table, h, o, ref) ==
    /\ o.told = "done" =>
         /\ {x \in o.rows : x.id = ref}
              = {[id |-> b.id, state |-> b.state] : b \in HC!Named(o.host, ref)}
         /\ o.audit = {"SUCCESS"}
    /\ o.told # "done" => o.rows = table
    /\ o.told \in {"unknown", "conflict"} => o.host = h
    /\ o.told = "conflict" => ~MayTouch(h, ref) /\ o.audit = {"DENIED"}
    /\ o.told = "unavailable" => o.audit = {"FAILURE"}
    /\ {x \in o.rows : x.id # ref} = {x \in table : x.id # ref}
    /\ o.audit = {} <=> o.told = "unknown"
    /\ o.told = "unknown" <=> \A x \in table : x.id # ref

\* DockerService.control, for every cache and every host: an operator is told of a success
\* only where the host did it, and then the cached rows of that id say exactly what the host
\* has under it; any other answer leaves the rows as they were, a refusal the host as well,
\* and is a refusal only of what is not the platform's.  No row of another container
\* changes, and every request about a known one is in the audit trail, as what it was.
THEOREM OperatorsKnow ==
    ASSUME NEW h, IsHost(h), NEW table, NEW way, NEW ref, NEW op \in Verbs
    PROVE  OperatorKnows(table, h, HC!Operate(table, h, way, ref, op), ref)
<1> DEFINE o == HC!Operate(table, h, way, ref, op)
           r == HC!AskControl(h, way, ref, op)
           kept == [id |-> ref, state |-> (CHOOSE b \in r.info : TRUE).state]
           others == {x \in table : x.id # ref}
           written == IF r.class # "ok" THEN table
                      ELSE IF op \in {"remove", "force"} THEN others ELSE others \cup {kept}
<1>1. CASE \A x \in table : x.id # ref
  <2>1. o = [rows |-> table, host |-> h, told |-> "unknown", audit |-> {}]
    BY <1>1 DEF HC!Operate
  <2>2. o.rows = table /\ o.host = h /\ o.told = "unknown" /\ o.audit = {}
    BY <2>1
  <2> HIDE DEF o
  <2> QED
    BY <1>1, <2>2 DEF OperatorKnows, o
<1>2. CASE ~\A x \in table : x.id # ref
  <2>1. o = [rows |-> written, host |-> r.host, told |-> HC!Told(r.class),
             audit |-> HC!AuditOf(r.class)]
    BY <1>2 DEF HC!Operate
  <2>2. /\ r.class \in {"ok", "auth", "refused", "unreachable", "error"}
        /\ r.class = "ok" => r.host = Left(h, ref, op) /\ r.info = Become(h, ref, op)
                             /\ HC!Named(h, ref) # {}
        /\ r.class = "refused" => r.host = h /\ ~MayTouch(h, ref)
    BY AskIs
  <2>3. /\ HC!Named(Left(h, ref, op), ref) = Become(h, ref, op)
        /\ \A x \in Become(h, ref, op) : x.id = ref
        /\ \A x, y \in Become(h, ref, op) : x = y
        /\ Become(h, ref, op) = {} <=> op \in {"remove", "force"} \/ HC!Named(h, ref) = {}
    BY LeftIs
  <2> HIDE DEF r, written
  <2>4. /\ o.rows = written /\ o.host = r.host /\ o.told = HC!Told(r.class)
        /\ o.audit = HC!AuditOf(r.class)
    BY <2>1
  <2> HIDE DEF o
  <2>5. CASE r.class = "ok"
    <3>1. o.told = "done" /\ o.audit = {"SUCCESS"}
      BY <2>4, <2>5 DEF HC!Told, HC!AuditOf
    <3>2. /\ r.info = HC!Named(o.host, ref) /\ \A x \in r.info : x.id = ref
          /\ \A x, y \in r.info : x = y
          /\ r.info = {} <=> op \in {"remove", "force"}
      BY <2>2, <2>3, <2>4, <2>5
    <3>3. CASE op \in {"remove", "force"}
      <4>1. o.rows = others /\ HC!Named(o.host, ref) = {}
        BY <2>4, <2>5, <3>2, <3>3 DEF written
      <4>2. {x \in o.rows : x.id = ref} = {} /\ {x \in o.rows : x.id # ref} = others
        BY <4>1
      <4> QED
        BY <1>2, <3>1, <4>1, <4>2 DEF OperatorKnows, o
    <3>4. CASE op \notin {"remove", "force"}
      <4>1. PICK b \in r.info : TRUE
        BY <3>2, <3>4
      <4>2. r.info = {b} /\ b.id = ref
        BY <3>2, <4>1
      <4>3. (CHOOSE c \in r.info : TRUE) = b
        BY <4>2
      <4>4. kept = [id |-> b.id, state |-> b.state]
        BY <4>2, <4>3
      <4>5. kept.id = ref
        OBVIOUS
      <4> HIDE DEF kept
      <4>6. o.rows = others \cup {kept}
        BY <2>4, <2>5, <3>4 DEF written
      <4>7. {x \in o.rows : x.id = ref} = {kept} /\ {x \in o.rows : x.id # ref} = others
        BY <4>5, <4>6
      <4>8. {[id |-> c.id, state |-> c.state] : c \in HC!Named(o.host, ref)} = {kept}
        BY <3>2, <4>2, <4>4
      <4> QED
        BY <1>2, <3>1, <4>7, <4>8 DEF OperatorKnows, o
    <3> QED
      BY <3>3, <3>4
  <2>6. CASE r.class = "refused"
    <3>1. o.told = "conflict" /\ o.audit = {"DENIED"} /\ o.rows = table /\ o.host = h
      BY <2>2, <2>4, <2>6 DEF HC!Told, HC!AuditOf, written
    <3> QED
      BY <1>2, <2>2, <2>6, <3>1 DEF OperatorKnows, o
  <2>7. CASE r.class \notin {"ok", "refused"}
    <3>1. o.told = "unavailable" /\ o.audit = {"FAILURE"} /\ o.rows = table
      BY <2>4, <2>7 DEF HC!Told, HC!AuditOf, written
    <3> QED
      BY <1>2, <3>1 DEF OperatorKnows, o
  <2> QED
    BY <2>5, <2>6, <2>7
<1> QED
  BY <1>1, <1>2

\* list_managed, which the reconciling worker works from: when a listing is said to have
\* succeeded, Docker answered and the list is every container of the platform's on the
\* host; when it is not, nothing is listed that could be taken for it.  A listing asks, and
\* changes nothing.
THEOREM OursAreListed ==
    ASSUME NEW h, IsHost(h), NEW way
    PROVE  /\ HC!ListManaged(h, way).class = "ok" =>
                h.docker = "up" /\ HC!ListManaged(h, way).info = {b \in h.boxes : b.label}
           /\ HC!ListManaged(h, way).class # "ok" => HC!ListManaged(h, way).info = {}
           /\ HC!ListManaged(h, way).host = h
<1> DEFINE r == HC!List(h, way.daemon)
           q == HC!AskList(h, way)
           l == HC!ListManaged(h, way)
<1>1. /\ r.host = h
      /\ r.says = "ok" => h.docker = "up" /\ r.info = h.boxes
      /\ r.says # "ok" => r.info = {}
  BY DEF HC!List, HC!Raises, HC!Done, IsHost
<1> HIDE DEF r
<1>2. q = HC!Request(h, way, r, TRUE)
  BY DEF HC!AskList, r
<1> HIDE DEF q
<1>3. Answers(h, way, r, q)
  BY <1>2, RequestIs
<1>4. l = [q EXCEPT !.info = {b \in q.info : b.label}]
  BY DEF HC!ListManaged, q
<1> HIDE DEF l
<1>5. l.host = q.host /\ l.class = q.class /\ l.info = {b \in q.info : b.label}
  BY <1>3, <1>4 DEF Answers
<1> QED
  BY <1>1, <1>3, <1>5 DEF l, Answers
=============================================================================
