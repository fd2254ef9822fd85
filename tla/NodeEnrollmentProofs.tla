------------------------ MODULE NodeEnrollmentProofs ------------------------
(***************************************************************************)
(* Theorems about NodeEnrollment, for every set of enrolments, names,      *)
(* nodes and concurrent requests and every limit of attempts.              *)
(*                                                                         *)
(* A request decides from what it loaded before a probe of seconds. The    *)
(* inductive invariant says what such a copy is still worth (Remembers):   *)
(* names never change, and as long as the row is open so is the node it    *)
(* points at. Evolves says how the tables may change under a request that  *)
(* takes no step, and is enough to keep what it remembers.                 *)
(***************************************************************************)
EXTENDS NodeEnrollment, TLAPS

\* States of a request that holds a copy of an enrolment it means to claim.
Enrolling == {"resolved", "probed", "claiming", "claimed"}
\* States of a request that will write an enrolment it loaded.
Writing == Enrolling \cup {"revoking", "failing", "counting"}

\* What the copies of request r say of the tables of now.
Remembers(r) ==
    LET t == req[r].tok
        c == req[r].row IN
    /\ req[r].st \in Writing => t \in Tok /\ enroll[t].status # "NONE"
    /\ req[r].st \in Enrolling =>
          /\ c.name \in Name
          /\ Exists(t) => c.name = enroll[t].name
          /\ enroll[t].status = "PENDING" => c.node = enroll[t].node
    /\ req[r].st \in {"claiming", "claimed"} => req[r].node \in {None, c.node}
    /\ req[r].st = "registering" => c.name \in Name
    /\ req[r].st = "creating" =>
          /\ c.name \in Name
          /\ c.status = "PENDING"
          /\ c.attempts = 0
          /\ c.node # None =>
                /\ nodes[c.node].st # "unborn"
                /\ c.node \in Here => nodes[c.node].name = c.name

\* Rows agree with the audit log and with the nodes they point at.
RowSound(t) ==
    /\ used[t] \in {0, 1}
    /\ enroll[t].status \in {"NONE", "PENDING", "EXPIRED"} => used[t] = 0
    /\ Exists(t) => enroll[t].name \in Name
    /\ Exists(t) /\ enroll[t].node # None =>
          enroll[t].node \in Here /\ nodes[enroll[t].node].name = enroll[t].name
    /\ enroll[t].status = "CONSUMED" => enroll[t].node # None

\* A row that is changed and not committed is open, and has one session.
LockSound ==
    /\ \A r \in Req : \A t \in Holds(r) : enroll[t].status = "PENDING"
    /\ \A q \in Req : \A r \in Req : q # r => Holds(q) \cap Holds(r) = {}

Inv ==
    /\ TypeOK
    /\ \A r \in Req : Remembers(r)
    /\ \A t \in Tok : RowSound(t)
    /\ LockSound

\* How any step changes the tables: tokens and nodes are not reborn, names
\* stay, what is open was open and points where it pointed.
Evolves ==
    /\ \A t \in Tok :
          /\ enroll[t].status # "NONE" => enroll'[t].status # "NONE"
          /\ enroll[t].status # "NONE" /\ enroll'[t].status \notin {"NONE", "GONE"} =>
                Exists(t) /\ enroll'[t].name = enroll[t].name
          /\ enroll[t].status # "NONE" /\ enroll'[t].status = "PENDING" =>
                enroll[t].status = "PENDING" /\ enroll'[t].node = enroll[t].node
    /\ \A n \in NodeId :
          nodes[n].st # "unborn" =>
             /\ nodes'[n].st # "unborn"
             /\ nodes'[n].st = "here" => nodes'[n] = nodes[n]

-----------------------------------------------------------------------------
(* Types.                                                                  *)

\* The initial tables and sessions have their types.
LEMMA InitTyped == Init => TypeOK
  BY EnrollmentAssumption DEF Init, TypeOK, Row, NodeRow, Session, Statuses, Blank, Idle

\* A session that ends, goes on, or begins with a typed row is typed
\* (session_scope; the handlers' local state).
LEMMA SessionTyped ==
    ASSUME TypeOK, NEW r \in Req
    PROVE  /\ Ends(r) => req' \in [Req -> Session]
           /\ \A st \in {"probed", "failing", "claiming", "claimed", "counting"},
                 row \in Row, node \in NodeId \cup {None} :
                 Loads(r, st, row, node) => req' \in [Req -> Session]
           /\ \A st \in {"probed", "failing", "claiming", "claimed", "counting"} :
                 Goes(r, st) => req' \in [Req -> Session]
           /\ \A st \in {"creating", "refused", "revoking", "registering", "resolved"},
                 tok \in Tok \cup {None}, row \in Row, swept \in SUBSET Tok :
                 Begin(r, st, tok, row, swept) => req' \in [Req -> Session]
<1>1. Idle \in Session
  BY DEF Idle, Session, Row, Blank, Statuses
<1>2. Ends(r) => req' \in [Req -> Session]
  BY <1>1 DEF Ends, TypeOK
<1>3. \A st \in {"probed", "failing", "claiming", "claimed", "counting"},
         row \in Row, node \in NodeId \cup {None} :
         Loads(r, st, row, node) => req' \in [Req -> Session]
  BY DEF Loads, TypeOK, Session
<1>5. \A st \in {"probed", "failing", "claiming", "claimed", "counting"} :
          Goes(r, st) => req' \in [Req -> Session]
  <2>1. req[r].row \in Row /\ req[r].node \in NodeId \cup {None}
    BY DEF TypeOK, Session
  <2> QED BY <1>3, <2>1 DEF Goes
<1>4. \A st \in {"creating", "refused", "revoking", "registering", "resolved"},
         tok \in Tok \cup {None}, row \in Row, swept \in SUBSET Tok :
         Begin(r, st, tok, row, swept) => req' \in [Req -> Session]
  BY DEF Begin, TypeOK, Session
<1> QED BY <1>2, <1>3, <1>4, <1>5

\* An invitation is a row of node_enrollments.
LEMMA InvitationTyped ==
    ASSUME NEW name \in Name, NEW node \in NodeId \cup {None}
    PROVE  Invitation(name, node) \in Row
  BY DEF Invitation, Blank, Row, Statuses

\* Every step keeps the types; a request that counts a failure has a row.
LEMMA StepTyped == TypeOK /\ (\A r \in Req : Remembers(r)) /\ [Next]_vars => TypeOK'
<1> SUFFICES ASSUME TypeOK, \A r \in Req : Remembers(r), [Next]_vars PROVE TypeOK'
  OBVIOUS
<1> USE EnrollmentAssumption
<1>1. ASSUME NEW r \in Req, NEW name \in Name, NEW reenroll \in BOOLEAN,
             CreateCheck(r, name, reenroll)
      PROVE  TypeOK'
  <2>1. Elapsed \in SUBSET Tok
    BY DEF Elapsed, Pending
  <2>2. \A node \in {None} \cup Named(name) : Invitation(name, node) \in Row
    BY InvitationTyped DEF Named, Here
  <2>3. req' \in [Req -> Session]
    BY <1>1, <2>1, <2>2, SessionTyped DEF CreateCheck
  <2> QED BY <1>1, <2>3 DEF CreateCheck, TypeOK
<1>2. ASSUME NEW r \in Req, CreateInsert(r) PROVE TypeOK'
  <2>1. req[r].row \in Row
    BY DEF TypeOK, Session
  <2>2. \A u \in Tok : [enroll[u] EXCEPT !.status = "EXPIRED"] \in Row
    BY DEF TypeOK, Row, Statuses
  <2>3. enroll' \in [Tok -> Row]
    BY <1>2, <2>1, <2>2 DEF CreateInsert, TypeOK
  <2> QED BY <1>2, <2>3, SessionTyped DEF CreateInsert, TypeOK
<1>3. ASSUME NEW r \in Req, CreateFails(r) \/ EnrolFails(r) \/ Abort(r) PROVE TypeOK'
  BY <1>3, SessionTyped DEF CreateFails, EnrolFails, Abort, TypeOK
<1>4. ASSUME List PROVE TypeOK'
  BY <1>4 DEF List, TypeOK, Row, Statuses
<1>5. ASSUME NEW r \in Req, NEW t \in Tok, RevokeRead(r, t) \/ Resolve(r, t) PROVE TypeOK'
  <2>1. enroll[t] \in Row
    BY DEF TypeOK
  <2> QED BY <1>5, <2>1, SessionTyped DEF RevokeRead, Resolve, TypeOK
<1>6. ASSUME NEW r \in Req, RevokeCommit(r) PROVE TypeOK'
  <2>1. \A row \in Row : With(row, "REVOKED", row.node, row.attempts, TRUE) \in Row
    BY DEF With, Row, Statuses
  <2>2. enroll' \in [Tok -> Row]
    BY <1>6, <2>1 DEF RevokeCommit, TypeOK
  <2> QED BY <1>6, <2>2, SessionTyped DEF RevokeCommit, TypeOK
<1>7. ASSUME NEW r \in Req, NEW name \in Name, RegisterRead(r, name) PROVE TypeOK'
  BY <1>7, SessionTyped, InvitationTyped DEF RegisterRead, TypeOK
<1>8. ASSUME NEW r \in Req, RegisterEnd(r) PROVE TypeOK'
  <2>1. [st |-> "here", name |-> req[r].row.name] \in NodeRow
    BY DEF TypeOK, Session, Row, NodeRow
  <2>2. nodes' \in [NodeId -> NodeRow]
    BY <1>8, <2>1 DEF RegisterEnd, TypeOK
  <2> QED BY <1>8, <2>2, SessionTyped DEF RegisterEnd, TypeOK
<1>9. ASSUME NEW n \in NodeId, DeleteNode(n) PROVE TypeOK'
  BY <1>9 DEF DeleteNode, TypeOK, NodeRow, Row, Statuses, Blank
<1>10. ASSUME NEW t \in Tok, Elapse(t) PROVE TypeOK'
  BY <1>10 DEF Elapse, TypeOK
<1>11. ASSUME NEW r \in Req, Probe(r) \/ Claim(r) PROVE TypeOK'
  BY <1>11, SessionTyped DEF Probe, Claim, TypeOK
<1>12. ASSUME NEW r \in Req, LookUp(r) PROVE TypeOK'
  <2>1. req' \in [Req -> Session]
    <3>1. req[r].row \in Row /\ req[r].row.node \in NodeId \cup {None}
      BY DEF TypeOK, Session, Row
    <3> QED BY <1>12, <3>1, SessionTyped DEF LookUp
  <2> QED BY <1>12, <2>1 DEF LookUp, TypeOK
<1>13. ASSUME NEW r \in Req, Enrol(r) PROVE TypeOK'
  <2>1. [st |-> "here", name |-> req[r].row.name] \in NodeRow
    BY DEF TypeOK, Session, Row, NodeRow
  <2>2. PICK n \in IF req[r].node = None
                   THEN {m \in NodeId : nodes[m].st = "unborn"} ELSE {req[r].node} :
           /\ nodes' = IF req[r].node = None
                       THEN [nodes EXCEPT ![n] = [st |-> "here", name |-> req[r].row.name]]
                       ELSE nodes
           /\ enroll' = [enroll EXCEPT ![req[r].tok] =
                             With(@, "CONSUMED", n, @.attempts, @.revoked)]
    BY <1>13 DEF Enrol
  <2>3. n \in NodeId \cup {None}
    BY <2>2 DEF TypeOK, Session
  <2>4. \A row \in Row : With(row, "CONSUMED", n, row.attempts, row.revoked) \in Row
    BY <2>3 DEF With, Row, Statuses
  <2>7. enroll' \in [Tok -> Row]
    BY <2>2, <2>4 DEF TypeOK
  <2>5. nodes' \in [NodeId -> NodeRow]
    BY <2>1, <2>2 DEF TypeOK
  <2>6. used' \in [Tok -> Nat]
    <3>1. req[r].tok \in Tok
      BY <1>13 DEF Enrol, Is, Remembers, Writing, Enrolling
    <3> QED BY <1>13, <3>1 DEF Enrol, TypeOK
  <2> QED BY <1>13, <2>5, <2>6, <2>7, SessionTyped DEF Enrol, TypeOK
<1>14. ASSUME NEW r \in Req, FailRead(r) PROVE TypeOK'
  <2>1. enroll[req[r].tok] \in Row
    BY <1>14 DEF TypeOK, FailRead, Is, Remembers, Writing
  <2>2. req[r].node \in NodeId \cup {None}
    BY DEF TypeOK, Session
  <2>3. Loads(r, "counting", enroll[req[r].tok], req[r].node) \/ Ends(r)
    BY <1>14 DEF FailRead
  <2>4. req' \in [Req -> Session]
    BY <2>1, <2>2, <2>3, SessionTyped
  <2> QED BY <1>14, <2>4 DEF FailRead, TypeOK
<1>15. ASSUME NEW r \in Req, FailCommit(r) PROVE TypeOK'
  <2>1. ASSUME NEW row \in Row PROVE Counted(req[r].row, row) \in Row
    <3>1. req[r].row.attempts + 1 \in Nat
      BY DEF TypeOK, Session, Row
    <3>2. (IF req[r].row.attempts + 1 >= MaxAttempts THEN "REVOKED" ELSE row.status) \in Statuses
      BY DEF Row, Statuses
    <3>3. row.name \in Name \cup {None} /\ row.node \in NodeId \cup {None} /\ row.revoked \in BOOLEAN
      BY DEF Row
    <3> QED BY <3>1, <3>2, <3>3 DEF Counted, With, Row
  <2> QED BY <1>15, <2>1, SessionTyped DEF FailCommit, TypeOK
<1>16. CASE UNCHANGED vars
  BY <1>16 DEF vars, TypeOK
<1> QED
  BY <1>1, <1>2, <1>3, <1>4, <1>5, <1>6, <1>7, <1>8, <1>9, <1>10, <1>11, <1>12,
     <1>13, <1>14, <1>15, <1>16 DEF Next, Start, Step

-----------------------------------------------------------------------------
(* What one request does to another.                                       *)

\* Only the session of the request that moves changes (AsyncSession).
LEMMA OneMoves ==
    ASSUME TypeOK, NEW r \in Req
    PROVE  /\ Ends(r) => req'[r] = Idle
           /\ \A st, row, node :
                 Loads(r, st, row, node) =>
                    req'[r] = [st |-> st, tok |-> req[r].tok, row |-> row,
                               node |-> node, swept |-> req[r].swept]
           /\ \A q \in Req \ {r} :
                 /\ Ends(r) => req'[q] = req[q]
                 /\ \A st, row, node : Loads(r, st, row, node) => req'[q] = req[q]
  BY DEF Ends, Loads, TypeOK

\* What a waiting request remembers survives any evolution of the tables.
LEMMA RemembersKept ==
    ASSUME TypeOK, Evolves, NEW q \in Req, Remembers(q), req'[q] = req[q]
    PROVE  Remembers(q)'
<1> DEFINE t == req[q].tok
           c == req[q].row
<1>1. c \in Row
  BY DEF TypeOK, Session
<1>2. req[q].st \in Writing =>
         /\ t \in Tok /\ enroll[t].status # "NONE" /\ enroll'[t].status # "NONE"
         /\ Exists(t)' => Exists(t) /\ enroll'[t].name = enroll[t].name
         /\ enroll'[t].status = "PENDING" =>
               enroll[t].status = "PENDING" /\ enroll'[t].node = enroll[t].node
  BY DEF Remembers, Evolves, Exists
<1>3. c.node # None => c.node \in NodeId
  BY <1>1 DEF Row
<1>4. c.node # None /\ nodes[c.node].st # "unborn" =>
         /\ nodes'[c.node].st # "unborn"
         /\ c.node \in Here' => c.node \in Here /\ nodes'[c.node] = nodes[c.node]
  BY <1>3 DEF Evolves, Here
<1>5. Enrolling \subseteq Writing
  BY DEF Writing
<1> HIDE DEF t, c
<1> QED BY <1>2, <1>4, <1>5 DEF Remembers, t, c

\* Locks stay exclusive when one request moves, takes only rows that nobody
\* has, and leaves the rows of others open.
LEMMA LocksKept ==
    ASSUME LockSound, NEW r \in Req,
           \A q \in Req \ {r} : Holds(q)' = Holds(q),
           \A q \in Req \ {r} : \A t \in Holds(q) : enroll'[t].status = "PENDING",
           \A t \in Holds(r)' : /\ enroll'[t].status = "PENDING"
                                /\ t \in Holds(r) \/ ~Locked(t)
    PROVE  LockSound'
  BY DEF LockSound, Locked

\* A request that moves and leaves the tables alone.
LEMMA QuietKeeps ==
    ASSUME Inv, UNCHANGED <<enroll, used, nodes>>, NEW r \in Req, Remembers(r)',
           \A q \in Req \ {r} : req'[q] = req[q],
           \A t \in Holds(r)' : /\ enroll[t].status = "PENDING"
                                /\ t \in Holds(r) \/ ~Locked(t)
    PROVE  TypeOK' => Inv'
<1>1. Evolves
  BY DEF Evolves, Exists
<1>2. \A q \in Req : Remembers(q)'
  BY <1>1, RemembersKept DEF Inv
<1>3. \A t \in Tok : RowSound(t)'
  BY DEF Inv, RowSound, Exists, Here
<1>4. \A q \in Req \ {r} : Holds(q)' = Holds(q)
  BY DEF Holds, Is
<1>5. LockSound'
  BY <1>4, LocksKept DEF Inv, LockSound
<1> QED BY <1>2, <1>3, <1>5 DEF Inv
\* A request that ends holds nothing and remembers nothing.
LEMMA IdleRemembersNothing ==
    ASSUME NEW r \in Req, req'[r] = Idle
    PROVE  Remembers(r)' /\ Holds(r)' = {}
  BY DEF Remembers, Idle, Enrolling, Writing, Holds, Is

\* Starting keeps the invariant: what is loaded is what is there (create,
\* revoke, register_node, resolve_token).
LEMMA StartKeeps == Inv /\ TypeOK' /\ (\E r \in Req : Start(r)) => Inv'
<1> SUFFICES ASSUME Inv, TypeOK', NEW r \in Req, Start(r) PROVE Inv'
  OBVIOUS
<1>1. TypeOK /\ \A t \in Tok : RowSound(t)
  BY DEF Inv
<1>2. ASSUME NEW name \in Name, NEW reenroll \in BOOLEAN, CreateCheck(r, name, reenroll)
      PROVE  Inv'
  <2>1. UNCHANGED <<enroll, used, nodes>>
    BY <1>2 DEF CreateCheck
  <2>2. CASE Begin(r, "refused", None, Invitation(name, None), {})
    <3>1. /\ req'[r].st = "refused" /\ req'[r].swept = {}
          /\ \A q \in Req \ {r} : req'[q] = req[q]
      BY <1>1, <2>2 DEF Begin, TypeOK
    <3>2. Remembers(r)' /\ Holds(r)' = {}
      BY <3>1 DEF Remembers, Enrolling, Writing, Holds, Is
    <3> QED BY <2>1, <3>1, <3>2, QuietKeeps
  <2>3. ASSUME NEW existing \in IF Named(name) = {} THEN {None} ELSE Named(name),
               Begin(r, "creating", None, Invitation(name, existing), Elapsed)
        PROVE  Inv'
    <3>1. /\ req'[r].st = "creating" /\ req'[r].swept = Elapsed
          /\ req'[r].row = Invitation(name, existing)
          /\ \A q \in Req \ {r} : req'[q] = req[q]
      BY <1>1, <2>3 DEF Begin, TypeOK
    <3>2. existing # None => existing \in Here /\ nodes[existing].name = name
      BY DEF Named
    <3>3. Remembers(r)'
      BY <2>1, <3>1, <3>2 DEF Remembers, Enrolling, Writing, Invitation, Here
    <3>4. Holds(r)' = Elapsed
      BY <3>1 DEF Holds, Is
    <3>5. \A t \in Elapsed : enroll[t].status = "PENDING" /\ ~Locked(t)
      BY <1>2 DEF CreateCheck, Elapsed, Pending
    <3> QED BY <2>1, <3>1, <3>3, <3>4, <3>5, QuietKeeps
  <2> QED BY <1>2, <2>2, <2>3 DEF CreateCheck
<1>3. ASSUME NEW name \in Name, RegisterRead(r, name) PROVE Inv'
  <2>1. /\ req'[r].st = "registering" /\ req'[r].swept = {}
        /\ req'[r].row = Invitation(name, None)
        /\ \A q \in Req \ {r} : req'[q] = req[q]
    BY <1>1, <1>3 DEF RegisterRead, Begin, TypeOK
  <2>2. Remembers(r)' /\ Holds(r)' = {}
    BY <2>1 DEF Remembers, Enrolling, Writing, Holds, Is, Invitation
  <2>9. UNCHANGED <<enroll, used, nodes>>
    BY <1>3 DEF RegisterRead
  <2> QED BY <2>1, <2>2, <2>9, QuietKeeps
<1>4. ASSUME NEW t \in Tok, RevokeRead(r, t) PROVE Inv'
  <2>1. /\ req'[r].st = "revoking" /\ req'[r].swept = {} /\ req'[r].tok = t
        /\ \A q \in Req \ {r} : req'[q] = req[q]
    BY <1>1, <1>4 DEF RevokeRead, Begin, TypeOK
  <2>2. Remembers(r)' /\ Holds(r)' = {}
    BY <1>4, <2>1 DEF Remembers, Enrolling, Writing, Holds, Is, RevokeRead
  <2>9. UNCHANGED <<enroll, used, nodes>>
    BY <1>4 DEF RevokeRead
  <2> QED BY <2>1, <2>2, <2>9, QuietKeeps
<1>5. ASSUME NEW t \in Tok, Resolve(r, t) PROVE Inv'
  <2>1. /\ req'[r].st = "resolved" /\ req'[r].swept = {}
        /\ req'[r].tok = t /\ req'[r].row = enroll[t]
        /\ \A q \in Req \ {r} : req'[q] = req[q]
    BY <1>1, <1>5 DEF Resolve, Begin, TypeOK
  <2>2. enroll'[t] = enroll[t] /\ enroll[t].name \in Name /\ enroll[t].status = "PENDING"
    BY <1>1, <1>5 DEF Resolve, RowSound, Exists
  <2>3. Remembers(r)' /\ Holds(r)' = {}
    BY <2>1, <2>2 DEF Remembers, Enrolling, Writing, Holds, Is
  <2>9. UNCHANGED <<enroll, used, nodes>>
    BY <1>5 DEF Resolve
  <2> QED BY <2>1, <2>3, <2>9, QuietKeeps
<1> QED BY <1>2, <1>3, <1>4, <1>5 DEF Start

\* Going on without a commit keeps the invariant (consume up to the claim, the
\* load of _fail, every rollback).
LEMMA QuietStepKeeps ==
    ASSUME Inv, TypeOK', NEW r \in Req,
           \/ CreateFails(r) \/ EnrolFails(r) \/ Abort(r)
           \/ Probe(r) \/ LookUp(r) \/ Claim(r) \/ FailRead(r)
    PROVE  Inv'
<1>1. TypeOK /\ Remembers(r)
  BY DEF Inv
<1>2. UNCHANGED <<enroll, used, nodes>>
  BY DEF CreateFails, EnrolFails, Abort, Probe, LookUp, Claim, FailRead
<1>3. CASE Ends(r)
  <2>1. req'[r] = Idle /\ \A q \in Req \ {r} : req'[q] = req[q]
    BY <1>1, <1>3, OneMoves
  <2> QED BY <1>2, <2>1, IdleRemembersNothing, QuietKeeps
<1>4. CASE Probe(r)
  <2>1. PICK st \in {"probed", "failing"} : Goes(r, st)
    BY <1>4 DEF Probe
  <2>2. /\ req'[r] = [st |-> st, tok |-> req[r].tok, row |-> req[r].row,
                      node |-> req[r].node, swept |-> req[r].swept]
        /\ \A q \in Req \ {r} : req'[q] = req[q]
    BY <1>1, <2>1, OneMoves DEF Goes
  <2>3. Remembers(r)'
    BY <1>1, <1>2, <1>4, <2>2 DEF Probe, Is, Remembers, Enrolling, Writing, Exists
  <2>4. Holds(r)' = Holds(r)
    BY <1>4, <2>2 DEF Probe, Holds, Is
  <2>5. \A t \in Holds(r) : enroll[t].status = "PENDING"
    BY DEF Inv, LockSound
  <2> QED BY <1>2, <2>2, <2>3, <2>4, <2>5, QuietKeeps
<1>5. CASE LookUp(r)
  <2>1. PICK st \in {"claiming", "failing"}, node \in {None, req[r].row.node, req[r].node} :
           /\ Loads(r, st, req[r].row, node)
           /\ st = "claiming" => node \in {None, req[r].row.node}
    BY <1>5 DEF LookUp, Goes
  <2>2. /\ req'[r] = [st |-> st, tok |-> req[r].tok, row |-> req[r].row,
                      node |-> node, swept |-> req[r].swept]
        /\ \A q \in Req \ {r} : req'[q] = req[q]
    BY <1>1, <2>1, OneMoves
  <2>3. Remembers(r)'
    BY <1>1, <1>2, <1>5, <2>1, <2>2 DEF LookUp, Is, Remembers, Enrolling, Writing, Exists
  <2>4. Holds(r)' = Holds(r)
    BY <1>5, <2>2 DEF LookUp, Holds, Is
  <2>5. \A t \in Holds(r) : enroll[t].status = "PENDING"
    BY DEF Inv, LockSound
  <2> QED BY <1>2, <2>2, <2>3, <2>4, <2>5, QuietKeeps
<1>6. CASE Claim(r) /\ ClaimWins(r)
  <2>1. Goes(r, "claimed")
    BY <1>6 DEF Claim
  <2>2. /\ req'[r] = [st |-> "claimed", tok |-> req[r].tok, row |-> req[r].row,
                      node |-> req[r].node, swept |-> req[r].swept]
        /\ \A q \in Req \ {r} : req'[q] = req[q]
    BY <1>1, <2>1, OneMoves DEF Goes
  <2>3. Remembers(r)'
    BY <1>1, <1>2, <1>6, <2>2 DEF Claim, Is, Remembers, Enrolling, Writing, Exists
  <2>4. Holds(r)' = {req[r].tok}
    BY <2>2 DEF Holds, Is
  <2>5. enroll[req[r].tok].status = "PENDING" /\ ~Locked(req[r].tok)
    BY <1>6 DEF Claim, ClaimWins
  <2> QED BY <1>2, <2>2, <2>3, <2>4, <2>5, QuietKeeps
<1>7. CASE FailRead(r) /\ ~Ends(r)
  <2>1. Loads(r, "counting", enroll[req[r].tok], req[r].node)
    BY <1>7 DEF FailRead
  <2>2. /\ req'[r] = [st |-> "counting", tok |-> req[r].tok, row |-> enroll[req[r].tok],
                      node |-> req[r].node, swept |-> req[r].swept]
        /\ \A q \in Req \ {r} : req'[q] = req[q]
    BY <1>1, <2>1, OneMoves
  <2>3. Remembers(r)'
    BY <1>1, <1>2, <1>7, <2>2 DEF FailRead, Is, Remembers, Enrolling, Writing
  <2>4. Holds(r)' = Holds(r)
    BY <1>7, <2>2 DEF FailRead, Holds, Is
  <2>5. \A t \in Holds(r) : enroll[t].status = "PENDING"
    BY DEF Inv, LockSound
  <2> QED BY <1>2, <2>2, <2>3, <2>4, <2>5, QuietKeeps
<1> QED
  BY <1>3, <1>4, <1>5, <1>6, <1>7 DEF CreateFails, EnrolFails, Abort, Claim
-----------------------------------------------------------------------------
(* Commits.                                                                *)

\* A commit that evolves the tables, keeps every row sound, leaves the rows of
\* other sessions open and ends its own session keeps the invariant.
LEMMA CommitKeeps ==
    ASSUME Inv, TypeOK', Evolves, \A t \in Tok : RowSound(t)',
           NEW r \in Req, Ends(r),
           \A q \in Req \ {r} : \A t \in Holds(q) : enroll'[t].status = "PENDING"
    PROVE  Inv'
<1>1. req'[r] = Idle /\ \A q \in Req \ {r} : req'[q] = req[q]
  BY OneMoves DEF Inv
<1>2. Remembers(r)' /\ Holds(r)' = {}
  BY <1>1, IdleRemembersNothing
<1>3. \A q \in Req : Remembers(q)'
  BY <1>1, <1>2, RemembersKept DEF Inv
<1>4. \A q \in Req \ {r} : Holds(q)' = Holds(q)
  BY <1>1 DEF Holds, Is
<1>5. LockSound'
  BY <1>2, <1>4, LocksKept DEF Inv
<1> QED BY <1>3, <1>5 DEF Inv

\* The same for requests without a session of their own.
LEMMA CommitAloneKeeps ==
    ASSUME Inv, TypeOK', Evolves, \A t \in Tok : RowSound(t)', UNCHANGED req,
           \A q \in Req : \A t \in Holds(q) : enroll'[t].status = "PENDING"
    PROVE  Inv'
<1>1. \A q \in Req : Remembers(q)'
  BY RemembersKept DEF Inv
<1>2. \A q \in Req : Holds(q)' = Holds(q)
  BY DEF Holds, Is
<1>3. LockSound'
  BY <1>2 DEF Inv, LockSound
<1> QED BY <1>1, <1>3 DEF Inv

\* A row that a session has changed and not committed is one of the table's,
\* still open, and no other session's (the row lock of consume()'s lookup).
LEMMA HeldIsPending ==
    ASSUME Inv, NEW q \in Req, NEW u \in Holds(q)
    PROVE  /\ u \in Tok /\ enroll[u].status = "PENDING" /\ Locked(u)
           /\ \A r \in Req \ {q} : u \notin Holds(r)
<1>1. u \in Tok
  <2>1. CASE Is(q, "claimed")
    <3>1. u = req[q].tok
      BY <2>1 DEF Holds
    <3>2. Remembers(q)
      BY DEF Inv
    <3> QED BY <2>1, <3>1, <3>2 DEF Is, Remembers, Enrolling, Writing
  <2>2. CASE ~Is(q, "claimed")
    BY <2>2 DEF Holds, Inv, TypeOK, Session
  <2> QED BY <2>1, <2>2
<1>2. enroll[u].status = "PENDING"
  BY DEF Inv, LockSound
<1>3. \A r \in Req \ {q} : u \notin Holds(r)
  BY DEF Inv, LockSound
<1> QED BY <1>1, <1>2, <1>3 DEF Locked

\* create(): the new row is open and unused, the swept ones were its own.
LEMMA CreateInsertKeeps ==
    ASSUME Inv, TypeOK', NEW r \in Req, CreateInsert(r)
    PROVE  Inv'
<1>1. PICK t \in Tok :
         /\ enroll[t].status = "NONE"
         /\ enroll' = [u \in Tok |->
               IF u = t THEN req[r].row
               ELSE IF u \in req[r].swept THEN [enroll[u] EXCEPT !.status = "EXPIRED"]
               ELSE enroll[u]]
  BY DEF CreateInsert
<1>2. UNCHANGED <<used, nodes>> /\ Ends(r) /\ Insertable(r)
  BY DEF CreateInsert
<1>3. Holds(r) = req[r].swept
  BY DEF CreateInsert, Holds, Is
<1>4. \A u \in req[r].swept : enroll[u].status = "PENDING"
  BY <1>3 DEF Inv, LockSound
<1>5. /\ req[r].row.name \in Name /\ req[r].row.status = "PENDING"
      /\ req[r].row.node # None =>
            req[r].row.node \in Here /\ nodes[req[r].row.node].name = req[r].row.name
  BY <1>2 DEF Inv, Remembers, CreateInsert, Is, Insertable, ReferenceHolds
<1>6. \A u \in Tok : u # t /\ u \in req[r].swept =>
         /\ enroll'[u].status = "EXPIRED" /\ enroll'[u].name = enroll[u].name
         /\ enroll'[u].node = enroll[u].node
  BY <1>1 DEF Inv, TypeOK, Row
<1>7. \A u \in Tok : u # t /\ u \notin req[r].swept => enroll'[u] = enroll[u]
  BY <1>1
<1>8. enroll'[t] = req[r].row
  BY <1>1
<1>9. Evolves
  BY <1>1, <1>2, <1>4, <1>6, <1>7, <1>8 DEF Evolves, Exists
<1>10. ASSUME NEW u \in Tok PROVE RowSound(u)'
  <2>1. RowSound(u) /\ RowSound(t) /\ Here' = Here
    BY <1>2 DEF Inv, Here
  <2> QED BY <1>1, <1>2, <1>4, <1>5, <1>6, <1>7, <1>8, <2>1 DEF RowSound, Exists
<1>11. ASSUME NEW q \in Req \ {r}, NEW u \in Holds(q) PROVE enroll'[u].status = "PENDING"
  <2>1. u \notin Holds(r) /\ enroll[u].status = "PENDING" /\ u # t
    BY <1>1 DEF Inv, LockSound
  <2>2. u \in Tok
    BY HeldIsPending
  <2> QED BY <1>3, <1>7, <2>1, <2>2
<1> QED BY <1>2, <1>9, <1>10, <1>11, CommitKeeps

\* list(): only open rows nobody has changed are expired.
LEMMA ListKeeps == Inv /\ TypeOK' /\ List => Inv'
<1> SUFFICES ASSUME Inv, TypeOK', List PROVE Inv'
  OBVIOUS
<1>1. UNCHANGED <<used, nodes, req>>
  BY DEF List
<1>2. \A t \in Elapsed :
         /\ t \in Tok /\ enroll[t].status = "PENDING" /\ ~Locked(t)
         /\ enroll'[t].status = "EXPIRED" /\ enroll'[t].name = enroll[t].name
         /\ enroll'[t].node = enroll[t].node
  BY DEF List, Elapsed, Pending, Inv, TypeOK, Row
<1>3. \A t \in Tok \ Elapsed : enroll'[t] = enroll[t]
  BY DEF List
<1>4. Evolves
  BY <1>1, <1>2, <1>3 DEF Evolves, Exists
<1>5. \A t \in Tok : RowSound(t)'
  <2>1. \A t \in Tok : RowSound(t)
    BY DEF Inv
  <2>2. Here' = Here
    BY <1>1 DEF Here
  <2> QED BY <1>1, <1>2, <1>3, <2>1, <2>2 DEF RowSound, Exists
<1>6. ASSUME NEW q \in Req, NEW u \in Holds(q) PROVE enroll'[u].status = "PENDING"
  <2>1. u \in Tok /\ enroll[u].status = "PENDING" /\ Locked(u)
    BY HeldIsPending
  <2> QED BY <1>2, <1>3, <2>1
<1> QED BY <1>1, <1>4, <1>5, <1>6, CommitAloneKeeps
\* A commit that writes one row with the name and node it has: revoke, _fail.
LEMMA RewriteKeeps ==
    ASSUME Inv, TypeOK', NEW r \in Req, Ends(r), UNCHANGED <<used, nodes>>,
           NEW t \in Tok, Exists(t), ~Locked(t),
           NEW status \in Statuses \ {"NONE", "GONE"},
           NEW attempts, NEW revoked,
           enroll' = [enroll EXCEPT ![t] = With(@, status, @.node, attempts, revoked)],
           status = enroll[t].status \/ status = "REVOKED"
    PROVE  Inv'
<1>1. /\ enroll'[t].status = status /\ enroll'[t].name = enroll[t].name
      /\ enroll'[t].node = enroll[t].node
  BY DEF With, Inv, TypeOK
<1>2. \A u \in Tok \ {t} : enroll'[u] = enroll[u]
  OBVIOUS
<1>3. Evolves
  BY <1>1, <1>2 DEF Evolves, Exists
<1>4. \A u \in Tok : RowSound(u)'
  <2>1. \A u \in Tok : RowSound(u)
    BY DEF Inv
  <2>2. Here' = Here
    BY DEF Here
  <2> QED BY <1>1, <1>2, <2>1, <2>2 DEF RowSound, Exists
<1>5. ASSUME NEW q \in Req \ {r}, NEW u \in Holds(q) PROVE enroll'[u].status = "PENDING"
  <2>1. u \in Tok /\ enroll[u].status = "PENDING" /\ Locked(u)
    BY HeldIsPending
  <2> QED BY <1>2, <2>1
<1> QED BY <1>3, <1>4, <1>5, CommitKeeps

\* A commit that finds its row gone changes no table.
LEMMA NothingKeeps ==
    ASSUME Inv, TypeOK', NEW r \in Req, Ends(r), UNCHANGED <<enroll, used, nodes>>
    PROVE  Inv'
  BY OneMoves, IdleRemembersNothing, QuietKeeps DEF Inv

\* revoke() may overwrite a spent row, but never opens one.
LEMMA RevokeCommitKeeps ==
    ASSUME Inv, TypeOK', NEW r \in Req, RevokeCommit(r)
    PROVE  Inv'
<1> DEFINE t == req[r].tok
<1>1. t \in Tok /\ Ends(r) /\ UNCHANGED <<used, nodes>> /\ ~Locked(t)
  BY DEF RevokeCommit, Is, Inv, Remembers, Writing
<1>2. CASE Exists(t)
  <2>1. enroll' = [enroll EXCEPT ![t] = With(@, "REVOKED", @.node, @.attempts, TRUE)]
    BY <1>2 DEF RevokeCommit
  <2> QED BY <1>1, <1>2, <2>1, RewriteKeeps DEF Statuses
<1>3. CASE ~Exists(t)
  BY <1>1, <1>3, NothingKeeps DEF RevokeCommit
<1> QED BY <1>2, <1>3

\* _fail() counts on a row that may have been counted or spent meanwhile.
LEMMA FailCommitKeeps ==
    ASSUME Inv, TypeOK', NEW r \in Req, FailCommit(r)
    PROVE  Inv'
<1> DEFINE t == req[r].tok
           status == IF req[r].row.attempts + 1 >= MaxAttempts
                     THEN "REVOKED" ELSE enroll[t].status
<1>1. t \in Tok /\ Ends(r) /\ UNCHANGED <<used, nodes>> /\ ~Locked(t)
  BY DEF FailCommit, Is, Inv, Remembers, Writing
<1>2. CASE Exists(t)
  <2>1. enroll' = [enroll EXCEPT ![t] =
                     With(@, status, @.node, req[r].row.attempts + 1, @.revoked)]
    BY <1>2 DEF FailCommit, Counted
  <2>2. /\ status \in Statuses \ {"NONE", "GONE"}
        /\ status = enroll[t].status \/ status = "REVOKED"
    BY <1>1, <1>2 DEF Exists, Statuses, Inv, TypeOK, Row
  <2> HIDE DEF status
  <2> QED BY <1>1, <1>2, <2>1, <2>2, RewriteKeeps
<1>3. CASE ~Exists(t)
  BY <1>1, <1>3, NothingKeeps DEF FailCommit
<1> QED BY <1>2, <1>3

\* register_node(): a node that did not exist.
LEMMA RegisterEndKeeps ==
    ASSUME Inv, TypeOK', NEW r \in Req, RegisterEnd(r)
    PROVE  Inv'
<1>1. UNCHANGED <<enroll, used>> /\ Ends(r)
  BY DEF RegisterEnd
<1>2. \A n \in NodeId : nodes[n].st # "unborn" => nodes'[n] = nodes[n]
  <2>1. CASE UNCHANGED nodes
    BY <2>1
  <2>2. ASSUME NEW m \in NodeId, nodes[m].st = "unborn",
               nodes' = [nodes EXCEPT ![m] = [st |-> "here", name |-> req[r].row.name]]
        PROVE  \A n \in NodeId : nodes[n].st # "unborn" => nodes'[n] = nodes[n]
    BY <2>2
  <2> QED BY <2>1, <2>2 DEF RegisterEnd
<1>3. Evolves
  BY <1>1, <1>2 DEF Evolves, Exists
<1>4. \A t \in Tok : RowSound(t)'
  BY <1>1, <1>2 DEF Inv, RowSound, Exists, Here
<1>5. \A q \in Req : \A t \in Holds(q) : enroll'[t].status = "PENDING"
  BY <1>1 DEF Inv, LockSound
<1> QED BY <1>1, <1>3, <1>4, <1>5, CommitKeeps

\* delete_node(): its enrolments go with it, unless one is being claimed.
LEMMA DeleteNodeKeeps ==
    ASSUME Inv, TypeOK', NEW n \in NodeId, DeleteNode(n)
    PROVE  Inv'
<1>1. UNCHANGED <<used, req>> /\ n \in Here
  BY DEF DeleteNode
<1>2. \A t \in Cascade(n) :
         /\ t \in Tok /\ Exists(t) /\ ~Locked(t) /\ enroll'[t].status = "GONE"
  BY DEF DeleteNode, Cascade, Blank
<1>3. \A t \in Tok \ Cascade(n) : enroll'[t] = enroll[t]
  BY DEF DeleteNode
<1>4. nodes'[n].st = "gone" /\ \A m \in NodeId \ {n} : nodes'[m] = nodes[m]
  BY DEF DeleteNode, Inv, TypeOK
<1>5. Evolves
  BY <1>2, <1>3, <1>4 DEF Evolves, Exists
<1>6. ASSUME NEW t \in Tok PROVE RowSound(t)'
  <2>1. RowSound(t)
    BY DEF Inv
  <2>2. CASE t \in Cascade(n)
    BY <1>1, <1>2, <2>1, <2>2 DEF RowSound, Exists
  <2>3. CASE t \notin Cascade(n)
    BY <1>1, <1>3, <1>4, <2>1, <2>3 DEF RowSound, Exists, Here, Cascade
  <2> QED BY <2>2, <2>3
<1>7. ASSUME NEW q \in Req, NEW u \in Holds(q) PROVE enroll'[u].status = "PENDING"
  <2>1. u \in Tok /\ enroll[u].status = "PENDING" /\ Locked(u)
    BY HeldIsPending
  <2> QED BY <1>2, <1>3, <2>1
<1> QED BY <1>1, <1>5, <1>6, <1>7, CommitAloneKeeps

\* consume(): the row is open and its own, so it still points where the copy
\* says; the node is there or new.
LEMMA EnrolKeeps ==
    ASSUME Inv, TypeOK', NEW r \in Req, Enrol(r)
    PROVE  Inv'
<1> DEFINE t == req[r].tok
<1>1. PICK n \in IF req[r].node = None
                 THEN {m \in NodeId : nodes[m].st = "unborn"} ELSE {req[r].node} :
         /\ nodes' = IF req[r].node = None
                     THEN [nodes EXCEPT ![n] = [st |-> "here", name |-> req[r].row.name]]
                     ELSE nodes
         /\ enroll' = [enroll EXCEPT ![t] = With(@, "CONSUMED", n, @.attempts, @.revoked)]
  BY DEF Enrol
<1>2. /\ t \in Tok /\ Is(r, "claimed") /\ Holds(r) = {t} /\ enroll[t].status = "PENDING"
      /\ Ends(r) /\ used' = [used EXCEPT ![t] = @ + 1]
  BY DEF Enrol, Is, Holds, Inv, LockSound, Remembers, Writing, Enrolling
<1>3. /\ req[r].row.name = enroll[t].name /\ req[r].row.node = enroll[t].node
      /\ req[r].node \in {None, req[r].row.node}
  BY <1>2 DEF Inv, Remembers, Is, Enrolling, Exists
<1>4. RowSound(t)
  BY <1>2 DEF Inv
<1>5. n \in NodeId /\ n # None
  <2>1. CASE req[r].node = None
    BY <1>1, <2>1, EnrollmentAssumption
  <2>2. CASE req[r].node # None
    BY <1>1, <2>2 DEF Enrol, Acceptable, Here
  <2> QED BY <2>1, <2>2
<1>6. n \in Here' /\ nodes'[n].name = enroll[t].name
  <2>1. CASE req[r].node = None
    BY <1>1, <1>3, <1>5, <2>1 DEF Inv, TypeOK, Here
  <2>2. CASE req[r].node # None
    BY <1>1, <1>2, <1>3, <1>4, <2>2 DEF RowSound, Exists, Here
  <2> QED BY <2>1, <2>2
<1>7. \A m \in NodeId : nodes[m].st # "unborn" => nodes'[m] = nodes[m]
  <2>1. CASE req[r].node = None
    BY <1>1, <2>1
  <2>2. CASE req[r].node # None
    BY <1>1, <2>2
  <2> QED BY <2>1, <2>2
<1>8. /\ enroll'[t].status = "CONSUMED" /\ enroll'[t].name = enroll[t].name
      /\ enroll'[t].node = n
  BY <1>1, <1>2 DEF With, Inv, TypeOK
<1>9. \A u \in Tok \ {t} : enroll'[u] = enroll[u] /\ used'[u] = used[u]
  BY <1>1, <1>2
<1>10. used'[t] = 1
  BY <1>2, <1>4 DEF RowSound, Inv, TypeOK
<1>11. Evolves
  BY <1>2, <1>7, <1>8, <1>9 DEF Evolves, Exists
<1>12. ASSUME NEW u \in Tok PROVE RowSound(u)'
  <2>1. RowSound(u)
    BY DEF Inv
  <2>2. CASE u = t
    BY <1>2, <1>4, <1>5, <1>6, <1>8, <1>10, <2>2 DEF RowSound, Exists
  <2>3. CASE u # t
    BY <1>7, <1>9, <2>1, <2>3 DEF RowSound, Exists, Here
  <2> QED BY <2>2, <2>3
<1>13. ASSUME NEW q \in Req \ {r}, NEW u \in Holds(q) PROVE enroll'[u].status = "PENDING"
  <2>1. u \in Tok /\ enroll[u].status = "PENDING" /\ u \notin Holds(r)
    BY HeldIsPending
  <2> QED BY <1>2, <1>9, <2>1
<1> HIDE DEF t
<1> QED BY <1>2, <1>11, <1>12, <1>13, CommitKeeps
-----------------------------------------------------------------------------
(* The invariant, and what follows from it.                                *)

\* Before any request.
LEMMA InitInv == Init => Inv
<1> SUFFICES ASSUME Init PROVE Inv
  OBVIOUS
<1>1. TypeOK
  BY InitTyped
<1>2. \A r \in Req : Remembers(r)
  BY DEF Init, Remembers, Idle, Enrolling, Writing
<1>3. \A t \in Tok : RowSound(t)
  BY DEF Init, RowSound, Blank, Exists
<1>4. \A r \in Req : Holds(r) = {}
  BY DEF Init, Holds, Is, Idle
<1> QED BY <1>1, <1>2, <1>3, <1>4 DEF Inv, LockSound

\* Every step keeps the invariant.
LEMMA NextInv == Inv /\ [Next]_vars => Inv'
<1> SUFFICES ASSUME Inv, [Next]_vars PROVE Inv'
  OBVIOUS
<1>1. TypeOK'
  BY StepTyped DEF Inv
<1>2. ASSUME NEW r \in Req, Start(r) PROVE Inv'
  BY <1>1, <1>2, StartKeeps
<1>3. ASSUME NEW r \in Req, Step(r) \/ Abort(r) PROVE Inv'
  BY <1>1, <1>3, QuietStepKeeps, CreateInsertKeeps, RevokeCommitKeeps, RegisterEndKeeps,
     EnrolKeeps, FailCommitKeeps DEF Step
<1>4. CASE List
  BY <1>1, <1>4, ListKeeps
<1>5. ASSUME NEW n \in NodeId, DeleteNode(n) PROVE Inv'
  BY <1>1, <1>5, DeleteNodeKeeps
<1>6. CASE UNCHANGED <<enroll, used, nodes, req>>
  <2>1. \A r \in Req : Remembers(r)'
    BY <1>6 DEF Inv, Remembers, Exists, Here
  <2>2. \A t \in Tok : RowSound(t)'
    BY <1>6 DEF Inv, RowSound, Exists, Here
  <2>3. \A r \in Req : Holds(r)' = Holds(r)
    BY <1>6 DEF Holds, Is
  <2>4. LockSound'
    BY <1>6, <2>3 DEF Inv, LockSound
  <2> QED BY <1>1, <2>1, <2>2, <2>4 DEF Inv
<1> QED
  BY <1>2, <1>3, <1>4, <1>5, <1>6 DEF Next, Elapse, vars

\* The invariant holds throughout.
LEMMA Invariance == Spec => []Inv
  BY InitInv, NextInv, PTL DEF Spec

\* Types: statuses, attempts, node ids and the sessions, after any requests.
THEOREM TypesCorrect == Spec => []TypeOK
<1>1. Inv => TypeOK
  BY DEF Inv
<1> QED BY <1>1, Invariance, PTL

\* A spent token has its node, under the name it was issued for, whatever
\* re-enrolments and removals come in between (claim, accept_node,
\* delete_node).
THEOREM SpentTokensHaveNodes == Spec => []SpentHasNode
<1>1. Inv => SpentHasNode
  BY DEF Inv, RowSound, SpentHasNode, Exists
<1> QED BY <1>1, Invariance, PTL

-----------------------------------------------------------------------------
(* Refinement: a token admits once.                                        *)

\* The phase of a token, read off its row.
LEMMA TicketIs ==
    ASSUME NEW t \in Tok, RowSound(t)
    PROVE  /\ used[t] = 1 => Tickets[t] = "spent"
           /\ used[t] = 0 /\ enroll[t].status = "NONE" => Tickets[t] = "unissued"
           /\ used[t] = 0 /\ enroll[t].status = "PENDING" => Tickets[t] = "open"
           /\ used[t] = 0 /\ enroll[t].status \notin {"NONE", "PENDING"} => Tickets[t] = "void"
  BY DEF Tickets, RowSound
\* The same after a step.
LEMMA TicketBecomes ==
    ASSUME NEW t \in Tok, RowSound(t)'
    PROVE  /\ used'[t] = 1 => Tickets'[t] = "spent"
           /\ used'[t] = 0 /\ enroll'[t].status = "NONE" => Tickets'[t] = "unissued"
           /\ used'[t] = 0 /\ enroll'[t].status = "PENDING" => Tickets'[t] = "open"
           /\ used'[t] = 0 /\ enroll'[t].status \notin {"NONE", "PENDING"} => Tickets'[t] = "void"
  BY DEF Tickets, RowSound

\* A token keeps its phase unless its row opens or closes.
LEMMA TicketStays ==
    ASSUME NEW t \in Tok, RowSound(t), RowSound(t)', used'[t] = used[t],
           \/ enroll'[t].status = enroll[t].status
           \/ {enroll[t].status, enroll'[t].status} \cap {"NONE", "PENDING"} = {}
    PROVE  Tickets'[t] = Tickets[t]
<1>1. used[t] \in {0, 1}
  BY DEF RowSound
<1>2. CASE enroll'[t].status = enroll[t].status
  BY <1>1, <1>2, TicketIs, TicketBecomes
<1>3. CASE {enroll[t].status, enroll'[t].status} \cap {"NONE", "PENDING"} = {}
  <2>1. enroll[t].status \notin {"NONE", "PENDING"} /\ enroll'[t].status \notin {"NONE", "PENDING"}
    BY <1>3
  <2> QED BY <1>1, <2>1, TicketIs, TicketBecomes
<1> QED BY <1>2, <1>3

\* A commit that closes open rows and opens none voids their tokens.
LEMMA ClosingVoids ==
    ASSUME Inv, Inv', UNCHANGED used, NEW toks \in SUBSET Tok,
           \A t \in toks : /\ enroll[t].status = "PENDING"
                           /\ enroll'[t].status \notin {"NONE", "PENDING"},
           \A t \in Tok \ toks :
              \/ enroll'[t].status = enroll[t].status
              \/ {enroll[t].status, enroll'[t].status} \cap {"NONE", "PENDING"} = {}
    PROVE  Promise!Void(toks)
<1>1. \A t \in Tok : RowSound(t) /\ RowSound(t)'
  BY DEF Inv
<1>2. \A t \in toks : Tickets[t] = "open" /\ Tickets'[t] = "void"
  <2> SUFFICES ASSUME NEW t \in toks PROVE Tickets[t] = "open" /\ Tickets'[t] = "void"
    OBVIOUS
  <2>1. used[t] = 0 /\ used'[t] = 0
    BY <1>1 DEF RowSound
  <2> QED BY <1>1, <2>1, TicketIs, TicketBecomes
<1>3. \A t \in Tok \ toks : Tickets'[t] = Tickets[t]
  BY <1>1, TicketStays
<1>4. Tickets' = [t \in Tok |-> Tickets'[t]]
  BY DEF Tickets
<1>5. Tickets' = [t \in Tok |-> IF t \in toks THEN "void" ELSE Tickets[t]]
  BY <1>2, <1>3, <1>4
<1> QED BY <1>2, <1>5 DEF Promise!Void

\* A commit that neither opens nor closes a row, nor spends a token, stutters.
LEMMA RowsStayPhasesStay ==
    ASSUME Inv, Inv', UNCHANGED used,
           \A t \in Tok :
              \/ enroll'[t].status = enroll[t].status
              \/ {enroll[t].status, enroll'[t].status} \cap {"NONE", "PENDING"} = {}
    PROVE  Tickets' = Tickets
<1>1. \A t \in Tok : Tickets'[t] = Tickets[t]
  BY TicketStays DEF Inv
<1>2. Tickets = [t \in Tok |-> Tickets[t]] /\ Tickets' = [t \in Tok |-> Tickets'[t]]
  BY DEF Tickets
<1> QED BY <1>1, <1>2

\* create() issues a token and voids the swept ones.
LEMMA CreateIssues ==
    ASSUME Inv, Inv', NEW r \in Req, CreateInsert(r)
    PROVE  Promise!Next
<1>1. PICK t \in Tok :
         /\ enroll[t].status = "NONE"
         /\ enroll' = [u \in Tok |->
               IF u = t THEN req[r].row
               ELSE IF u \in req[r].swept THEN [enroll[u] EXCEPT !.status = "EXPIRED"]
               ELSE enroll[u]]
  BY DEF CreateInsert
<1>2. UNCHANGED used /\ req[r].row.status = "PENDING" /\ req[r].swept \subseteq Tok
  BY DEF CreateInsert, Is, Inv, Remembers, TypeOK, Session
<1>3. \A u \in req[r].swept : enroll[u].status = "PENDING"
  BY DEF Inv, LockSound, CreateInsert, Holds, Is
<1>4. \A u \in Tok : RowSound(u) /\ RowSound(u)'
  BY DEF Inv
<1>5. Tickets[t] = "unissued" /\ Tickets'[t] = "open"
  <2>1. enroll'[t].status = "PENDING" /\ used[t] = 0 /\ used'[t] = 0
    BY <1>1, <1>2, <1>4 DEF RowSound
  <2> QED BY <1>1, <1>4, <2>1, TicketIs, TicketBecomes
<1>6. ASSUME NEW u \in req[r].swept PROVE Tickets[u] = "open" /\ Tickets'[u] = "void"
  <2>1. u # t /\ enroll'[u].status = "EXPIRED" /\ used[u] = 0 /\ used'[u] = 0
    BY <1>1, <1>2, <1>3, <1>4 DEF RowSound, Inv, TypeOK, Row
  <2> QED BY <1>2, <1>3, <1>4, <2>1, TicketIs, TicketBecomes
<1>7. \A u \in Tok : u # t /\ u \notin req[r].swept => Tickets'[u] = Tickets[u]
  BY <1>1, <1>2, <1>4, TicketStays
<1>8. Tickets' = [u \in Tok |-> Tickets'[u]]
  BY DEF Tickets
<1>9. Tickets' = [u \in Tok |-> IF u = t THEN "open"
                                ELSE IF u \in req[r].swept THEN "void" ELSE Tickets[u]]
  BY <1>5, <1>6, <1>7, <1>8
<1>10. Promise!Issue(req[r].swept, t)
  BY <1>5, <1>6, <1>9 DEF Promise!Issue
<1> QED BY <1>2, <1>10 DEF Promise!Next, Promise!Issue, Promise!Void, Promise!Spend

\* consume() spends a token that is open when it commits.
LEMMA EnrolSpends ==
    ASSUME Inv, Inv', NEW r \in Req, Enrol(r)
    PROVE  Promise!Next
<1> DEFINE t == req[r].tok
<1>1. /\ t \in Tok /\ enroll[t].status = "PENDING" /\ used' = [used EXCEPT ![t] = @ + 1]
  BY DEF Enrol, Is, Holds, Inv, LockSound, Remembers, Writing, Enrolling
<1>2. \A u \in Tok \ {t} : enroll'[u] = enroll[u] /\ used'[u] = used[u]
  <2>1. \E n : enroll' = [enroll EXCEPT ![t] = With(@, "CONSUMED", n, @.attempts, @.revoked)]
    BY DEF Enrol
  <2> QED BY <1>1, <2>1
<1>3. \A u \in Tok : RowSound(u) /\ RowSound(u)'
  BY DEF Inv
<1>4. used[t] = 0 /\ used'[t] = 1
  BY <1>1, <1>3 DEF RowSound, Inv, TypeOK
<1>5. Tickets[t] = "open" /\ Tickets'[t] = "spent"
  BY <1>1, <1>3, <1>4, TicketIs, TicketBecomes
<1>6. \A u \in Tok \ {t} : Tickets'[u] = Tickets[u]
  BY <1>2, <1>3, TicketStays
<1>7. Tickets' = [u \in Tok |-> Tickets'[u]] /\ Tickets = [u \in Tok |-> Tickets[u]]
  BY DEF Tickets
<1> HIDE DEF t
<1>8. Tickets' = [Tickets EXCEPT ![t] = "spent"]
  BY <1>1, <1>5, <1>6, <1>7
<1>9. Promise!Spend(t)
  BY <1>5, <1>8 DEF Promise!Spend
<1> QED BY <1>1, <1>9 DEF Promise!Next, Promise!Spend, Promise!Issue, Promise!Void

\* revoke(), _fail(), list() and delete_node() void open tokens or none.
LEMMA OthersVoid ==
    ASSUME Inv, Inv', UNCHANGED used,
           \A t \in Tok :
              \/ enroll'[t].status = enroll[t].status
              \/ {enroll[t].status, enroll'[t].status} \cap {"NONE", "PENDING"} = {}
              \/ enroll[t].status = "PENDING" /\ enroll'[t].status \notin {"NONE", "PENDING"}
    PROVE  Promise!Next
<1> DEFINE toks == {t \in Tok : /\ enroll[t].status = "PENDING"
                               /\ enroll'[t].status \notin {"NONE", "PENDING"}}
<1>1. Promise!Void(toks)
  BY ClosingVoids
<1> HIDE DEF toks
<1>2. toks \in SUBSET Tok
  BY DEF toks
<1> QED BY <1>1, <1>2 DEF Promise!Next, Promise!Void, Promise!Issue, Promise!Spend

\* The whole implements EnrollmentTickets: a token admits at most one host, only
\* while it is open, and never again, whatever was decided before the probe
\* (resolve_token, consume, claim, revoke, _fail, expire_stale, delete_node).
THEOREM TokensAdmitOnce == Spec => ImplementsTickets
<1>1. Init => Promise!Init
  BY DEF Init, Promise!Init, Tickets, Blank
<1>2. Inv /\ Inv' /\ [Next]_vars => [Promise!Next]_Tickets
  <2> SUFFICES ASSUME Inv, Inv', [Next]_vars PROVE Promise!Next \/ Tickets' = Tickets
    OBVIOUS
  <2>1. ASSUME NEW r \in Req, CreateInsert(r) PROVE Promise!Next
    BY <2>1, CreateIssues
  <2>2. ASSUME NEW r \in Req, Enrol(r) PROVE Promise!Next
    BY <2>2, EnrolSpends
  <2>3. ASSUME NEW r \in Req, RevokeCommit(r) PROVE Promise!Next
    BY <2>3, OthersVoid DEF RevokeCommit, Exists, With, Inv, TypeOK
  <2>4. ASSUME NEW r \in Req, FailCommit(r) PROVE Promise!Next
    BY <2>4, OthersVoid DEF FailCommit, Counted, Exists, With, Inv, TypeOK
  <2>5. CASE List
    BY <2>5, OthersVoid DEF List, Elapsed, Pending, Inv, TypeOK, Row
  <2>6. ASSUME NEW n \in NodeId, DeleteNode(n) PROVE Promise!Next
    BY <2>6, OthersVoid DEF DeleteNode, Cascade, Exists, Blank
  <2>7. CASE UNCHANGED <<enroll, used>>
    BY <2>7 DEF Tickets
  <2> QED
    BY <2>1, <2>2, <2>3, <2>4, <2>5, <2>6, <2>7
    DEF Next, Start, Step, vars, CreateCheck, CreateFails, RevokeRead, RegisterRead,
        RegisterEnd, Resolve, Probe, LookUp, Claim, EnrolFails, FailRead, Abort, Elapse
<1> QED
  BY <1>1, <1>2, Invariance, PTL DEF Spec, ImplementsTickets, Promise!Spec
-----------------------------------------------------------------------------
(* The constraints and the counter.                                        *)

\* One open invitation and one node per name: the unique indexes are enough
\* whatever the checks before them saw (create, register_node, accept_node).
THEOREM NamesUnique == Spec => []OnePerName
<1>1. Init => OnePerName
  BY DEF Init, OnePerName, Pending, Here, Blank
<1>2. Inv /\ OnePerName /\ [Next]_vars => OnePerName'
  <2> SUFFICES ASSUME Inv, OnePerName, [Next]_vars PROVE OnePerName'
    OBVIOUS
  <2>1. ASSUME \A t \in Tok : enroll'[t].status = "PENDING" =>
                  enroll[t].status = "PENDING" /\ enroll'[t].name = enroll[t].name,
               \A n \in NodeId : nodes'[n].st = "here" =>
                  nodes[n].st = "here" /\ nodes'[n].name = nodes[n].name
        PROVE  OnePerName'
    BY <2>1 DEF OnePerName, Pending, Here
  <2>2. ASSUME NEW r \in Req, CreateInsert(r) PROVE OnePerName'
    <3>1. PICK t \in Tok :
             enroll' = [u \in Tok |->
                   IF u = t THEN req[r].row
                   ELSE IF u \in req[r].swept THEN [enroll[u] EXCEPT !.status = "EXPIRED"]
                   ELSE enroll[u]]
      BY <2>2 DEF CreateInsert
    <3>2. \A u \in Tok : u # t /\ u \in req[r].swept => enroll'[u].status = "EXPIRED"
      BY <3>1 DEF Inv, TypeOK, Row
    <3>3. \A u \in Tok : u # t /\ u \notin req[r].swept => enroll'[u] = enroll[u]
      BY <3>1
    <3>4. enroll'[t].name = req[r].row.name
      BY <3>1
    <3>5. \A u \in Pending \ req[r].swept : enroll[u].name # req[r].row.name
      BY <2>2 DEF CreateInsert, Insertable, IndexAdmits
    <3>6. \A u, v \in Pending' : enroll'[u].name = enroll'[v].name => u = v
      BY <3>2, <3>3, <3>4, <3>5 DEF OnePerName, Pending
    <3>7. \A m, n \in Here' : nodes'[m].name = nodes'[n].name => m = n
      BY <2>2 DEF CreateInsert, OnePerName, Here
    <3> QED BY <3>6, <3>7 DEF OnePerName
  <2>3. ASSUME NEW r \in Req, NEW m \in NodeId, Named(req[r].row.name) = {},
               nodes' = [nodes EXCEPT ![m] = [st |-> "here", name |-> req[r].row.name]],
               \A t \in Tok : enroll'[t].status = "PENDING" =>
                  enroll[t].status = "PENDING" /\ enroll'[t].name = enroll[t].name
        PROVE  OnePerName'
    <3>1. \A n \in NodeId \ {m} : nodes'[n] = nodes[n]
      BY <2>3
    <3>2. nodes'[m].name = req[r].row.name
      BY <2>3 DEF Inv, TypeOK
    <3>3. \A n \in Here : nodes[n].name # req[r].row.name
      BY <2>3 DEF Named
    <3>4. \A k, n \in Here' : nodes'[k].name = nodes'[n].name => k = n
      BY <3>1, <3>2, <3>3 DEF OnePerName, Here
    <3>5. \A u, v \in Pending' : enroll'[u].name = enroll'[v].name => u = v
      BY <2>3 DEF OnePerName, Pending
    <3> QED BY <3>4, <3>5 DEF OnePerName
  <2>4. ASSUME NEW r \in Req, RegisterEnd(r) PROVE OnePerName'
    BY <2>1, <2>3, <2>4 DEF RegisterEnd
  <2>5. ASSUME NEW r \in Req, Enrol(r) PROVE OnePerName'
    <3>1. req[r].tok \in Tok
      BY <2>5 DEF Enrol, Is, Inv, Remembers, Writing, Enrolling
    <3>2. \A t \in Tok : enroll'[t].status = "PENDING" => enroll'[t] = enroll[t]
      BY <2>5, <3>1 DEF Enrol, With, Inv, TypeOK
    <3>3. CASE req[r].node = None
      BY <2>3, <2>5, <3>2, <3>3 DEF Enrol, Acceptable
    <3>4. CASE req[r].node # None
      BY <2>1, <2>5, <3>2, <3>4 DEF Enrol
    <3> QED BY <3>3, <3>4
  <2>6. ASSUME NEW r \in Req, RevokeCommit(r) \/ FailCommit(r) PROVE OnePerName'
    BY <2>1, <2>6 DEF RevokeCommit, FailCommit, Counted, With, Inv, TypeOK
  <2>7. CASE List
    BY <2>1, <2>7 DEF List, Inv, TypeOK, Row
  <2>8. ASSUME NEW n \in NodeId, DeleteNode(n) PROVE OnePerName'
    BY <2>1, <2>8 DEF DeleteNode, Blank, Inv, TypeOK
  <2>9. CASE UNCHANGED <<enroll, nodes>>
    BY <2>1, <2>9
  <2> QED
    BY <2>2, <2>4, <2>5, <2>6, <2>7, <2>8, <2>9
    DEF Next, Start, Step, vars, CreateCheck, CreateFails, RevokeRead, RegisterRead,
        Resolve, Probe, LookUp, Claim, EnrolFails, FailRead, Abort, Elapse
<1> QED BY <1>1, <1>2, Invariance, PTL DEF Spec
\* An open invitation has attempts left: however stale the count a failure
\* writes, it closes the row when it reaches the limit (_fail).
THEOREM OpenTokensHaveAttempts == Spec => []OpenHasAttemptsLeft
<1>1. Init => OpenHasAttemptsLeft
  BY DEF Init, OpenHasAttemptsLeft, Pending, Blank
<1>2. Inv /\ OpenHasAttemptsLeft /\ [Next]_vars => OpenHasAttemptsLeft'
  <2> SUFFICES ASSUME Inv, OpenHasAttemptsLeft, [Next]_vars,
                      NEW t \in Tok, enroll'[t].status = "PENDING"
               PROVE  enroll'[t].attempts < MaxAttempts
    BY DEF OpenHasAttemptsLeft, Pending
  <2>1. enroll[t].status = "PENDING" => enroll[t].attempts < MaxAttempts
    BY DEF OpenHasAttemptsLeft, Pending
  <2>2. ASSUME NEW r \in Req, CreateInsert(r) PROVE enroll'[t].attempts < MaxAttempts
    <3>1. req[r].row.attempts = 0 /\ 0 < MaxAttempts
      BY <2>2, EnrollmentAssumption DEF CreateInsert, Is, Inv, Remembers
    <3>2. \/ enroll'[t] = req[r].row
          \/ enroll'[t].status = "EXPIRED"
          \/ enroll'[t] = enroll[t]
      BY <2>2 DEF CreateInsert, Inv, TypeOK, Row
    <3> QED BY <2>1, <3>1, <3>2
  <2>3. ASSUME NEW r \in Req, FailCommit(r) PROVE enroll'[t].attempts < MaxAttempts
    <3>1. CASE enroll'[t] = enroll[t]
      BY <2>1, <3>1
    <3>2. CASE enroll'[t] = Counted(req[r].row, enroll[t])
      <4>2. ~(req[r].row.attempts + 1 >= MaxAttempts)
        BY <3>2 DEF Counted, With
      <4>3. enroll'[t].attempts = req[r].row.attempts + 1
        BY <3>2 DEF Counted, With
      <4>4. req[r].row.attempts \in Nat
        BY DEF Inv, TypeOK, Session, Row
      <4> QED BY <4>2, <4>3, <4>4, EnrollmentAssumption
    <3>3. \/ enroll' = enroll
          \/ enroll' = [enroll EXCEPT ![req[r].tok] = Counted(req[r].row, @)]
      BY <2>3 DEF FailCommit
    <3>4. enroll'[t] = enroll[t] \/ enroll'[t] = Counted(req[r].row, enroll[t])
      BY <3>3 DEF Inv, TypeOK
    <3> QED BY <3>1, <3>2, <3>4
  <2>4. ASSUME NEW r \in Req, Enrol(r) \/ RevokeCommit(r) PROVE enroll'[t].attempts < MaxAttempts
    <3>1. \/ enroll' = enroll
          \/ \E n : enroll' = [enroll EXCEPT ![req[r].tok] =
                        With(@, "CONSUMED", n, @.attempts, @.revoked)]
          \/ enroll' = [enroll EXCEPT ![req[r].tok] =
                        With(@, "REVOKED", @.node, @.attempts, TRUE)]
      BY <2>4 DEF Enrol, RevokeCommit
    <3>2. ASSUME NEW row, enroll' = [enroll EXCEPT ![req[r].tok] = row],
                 row.status # "PENDING"
          PROVE  enroll'[t] = enroll[t]
      <4>1. CASE t = req[r].tok
        BY <3>2, <4>1 DEF Inv, TypeOK
      <4>2. CASE t # req[r].tok
        BY <3>2, <4>2 DEF Inv, TypeOK
      <4> QED BY <4>1, <4>2
    <3>3. CASE enroll' = enroll
      BY <2>1, <3>3
    <3>4. ASSUME NEW n, enroll' = [enroll EXCEPT ![req[r].tok] =
                            With(@, "CONSUMED", n, @.attempts, @.revoked)]
          PROVE  enroll'[t] = enroll[t]
      <4> DEFINE old == enroll[req[r].tok]
                 row == With(old, "CONSUMED", n, old.attempts, old.revoked)
      <4>1. enroll' = [enroll EXCEPT ![req[r].tok] = row]
        BY <3>4
      <4>2. row.status # "PENDING"
        BY DEF With
      <4> HIDE DEF row
      <4> QED BY <3>2, <4>1, <4>2
    <3>5. ASSUME enroll' = [enroll EXCEPT ![req[r].tok] =
                     With(@, "REVOKED", @.node, @.attempts, TRUE)]
          PROVE  enroll'[t] = enroll[t]
      <4> DEFINE old == enroll[req[r].tok]
                 row == With(old, "REVOKED", old.node, old.attempts, TRUE)
      <4>1. enroll' = [enroll EXCEPT ![req[r].tok] = row]
        BY <3>5
      <4>2. row.status # "PENDING"
        BY DEF With
      <4> HIDE DEF row
      <4> QED BY <3>2, <4>1, <4>2
    <3> QED BY <2>1, <3>1, <3>3, <3>4, <3>5
  <2>5. CASE List
    BY <2>1, <2>5 DEF List, Inv, TypeOK, Row
  <2>6. ASSUME NEW n \in NodeId, DeleteNode(n) PROVE enroll'[t].attempts < MaxAttempts
    BY <2>1, <2>6 DEF DeleteNode, Blank
  <2>7. CASE UNCHANGED enroll
    BY <2>1, <2>7
  <2> QED
    BY <2>2, <2>3, <2>4, <2>5, <2>6, <2>7
    DEF Next, Start, Step, vars, CreateCheck, CreateFails, RevokeRead, RegisterRead,
        RegisterEnd, Resolve, Probe, LookUp, Claim, EnrolFails, FailRead, Abort, Elapse
<1> QED BY <1>1, <1>2, Invariance, PTL DEF Spec
=============================================================================
