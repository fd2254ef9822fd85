--------------------------- MODULE NodeEnrollment ---------------------------
(***************************************************************************)
(* Node self-enrolment: the node_enrollments and nodes tables, and the     *)
(* requests that race on them. An administrator mints a one-time token for *)
(* a node name; the host presents it; the control plane looks the token up *)
(* without a lock, probes the host, and only then claims the token and     *)
(* creates the node in one transaction. Failed attempts are counted by a   *)
(* session of their own, because the request's own session rolls back.     *)
(*                                                                         *)
(* Transactions are READ COMMITTED. A statement that changes a row somebody*)
(* else has changed and not committed waits for that session (Locked) and  *)
(* then looks at the row again. Only the claim holds its row for long: the *)
(* inventory of the new node is fetched before the commit. All other       *)
(* writes reach the database at the session's end.                         *)
(*                                                                         *)
(* Abstractions. A row and its token are one id. Addresses, TLS, labels    *)
(* and the agent's own token only decide whether a probe succeeds, so they *)
(* are the outcome of Probe. func.now() in claim() is the transaction's    *)
(* start, when resolve_token had just compared the expiry itself: claim's  *)
(* comparison never refuses and is not modelled, and a token that elapses  *)
(* during the probe still enrols. sweep() is called by nothing, so settled *)
(* rows are never purged. Refusals that change nothing are not actions.    *)
(***************************************************************************)
EXTENDS Integers, FiniteSets

CONSTANTS
    Tok,          \* enrolments, each with its token
    Name,         \* node names
    NodeId,       \* ids of node rows, never used twice
    Req,          \* concurrent requests
    None,         \* NULL
    MaxAttempts   \* max_attempts_per_token

ASSUME EnrollmentAssumption ==
    /\ None \notin Tok \cup Name \cup NodeId
    /\ MaxAttempts \in Nat \ {0}

VARIABLES
    enroll,   \* node_enrollments, committed
    late,     \* enrolments whose expires_at has passed
    used,     \* NODE_ENROLLED and NODE_REENROLLED audit rows of each enrolment
    nodes,    \* nodes, committed
    req       \* the sessions of the requests

vars == <<enroll, late, used, nodes, req>>

-----------------------------------------------------------------------------
(* Tables.                                                                 *)

Statuses == {"NONE", "PENDING", "CONSUMED", "EXPIRED", "REVOKED", "GONE"}

\* node: the node this enrolment rotates or has made; revoked: revoked_at.
Row == [status : Statuses, name : Name \cup {None}, node : NodeId \cup {None},
        attempts : Nat, revoked : BOOLEAN]

Blank(status) == [status |-> status, name |-> None, node |-> None,
                  attempts |-> 0, revoked |-> FALSE]

Invitation(name, node) ==
    [status |-> "PENDING", name |-> name, node |-> node, attempts |-> 0, revoked |-> FALSE]

\* The row with the columns an UPDATE sets.
With(row, status, node, attempts, revoked) ==
    [status |-> status, name |-> row.name, node |-> node, attempts |-> attempts,
     revoked |-> revoked]

NodeRow == [st : {"unborn", "here", "gone"}, name : Name \cup {None}]

Exists(t) == enroll[t].status \notin {"NONE", "GONE"}
Pending == {t \in Tok : enroll[t].status = "PENDING"}
Here == {n \in NodeId : nodes[n].st = "here"}

\* nodes.get_by_name
Named(name) == {n \in Here : nodes[n].name = name}

-----------------------------------------------------------------------------
(* Sessions.                                                               *)

\* tok: the enrolment a request is about; row: the values it loaded, or is
\* about to insert; node: `existing`, the node to update in place.
Session == [st : {"idle", "creating", "refused", "revoking", "registering",
                  "resolved", "probed", "claiming", "claimed", "failing", "counting"},
            tok : Tok \cup {None}, row : Row, node : NodeId \cup {None},
            swept : SUBSET Tok]

Idle == [st |-> "idle", tok |-> None, row |-> Blank("NONE"), node |-> None,
         swept |-> {}]

Is(r, st) == req[r].st = st

\* Request r, idle before, holds row in state st; or goes on to state st.
\* (Loads: with another row or node in hand.)
Begin(r, st, tok, row, swept) ==
    req' = [req EXCEPT ![r] = [st |-> st, tok |-> tok, row |-> row,
                               node |-> None, swept |-> swept]]
Loads(r, st, row, node) ==
    req' = [req EXCEPT ![r] = [st |-> st, tok |-> req[r].tok, row |-> row,
                               node |-> node, swept |-> req[r].swept]]
Goes(r, st) == Loads(r, st, req[r].row, req[r].node)
Ends(r) == req' = [req EXCEPT ![r] = Idle]

\* Mutant: the token is locked from its lookup on, across the probe.
HoldsFromLookup(r) ==
    IF req[r].st \in {"resolved", "probed", "claiming", "claimed", "failing", "counting"}
    THEN {req[r].tok} ELSE req[r].swept

\* Rows that session r has changed and not committed.
Holds(r) == IF Is(r, "claimed") THEN {req[r].tok} ELSE req[r].swept

Locked(t) == \E r \in Req : t \in Holds(r)

\* Bounds, not code: whoever starts what inserts a row will find a fresh id.
\* (A request that rotates a node inserts none: with the node, its row is gone.)
SpareTokens ==
    Cardinality({t \in Tok : enroll[t].status = "NONE"})
      > Cardinality({r \in Req : Is(r, "creating")})
SpareNodes ==
    Cardinality({n \in NodeId : nodes[n].st = "unborn"})
      > Cardinality({r \in Req : /\ ~Is(r, "idle") /\ ~Is(r, "creating")
                                 /\ req[r].row.node = None})

-----------------------------------------------------------------------------
(* Administrators: create, list, revoke; register and remove nodes.        *)

Init ==
    /\ enroll = [t \in Tok |-> Blank("NONE")]
    /\ late = {}
    /\ used = [t \in Tok |-> 0]
    /\ nodes = [n \in NodeId |-> [st |-> "unborn", name |-> None]]
    /\ req = [r \in Req |-> Idle]

\* The rows expire_stale() flips out of PENDING.
Elapsed == Pending \cap late

\* create(): expire_stale, then the two checks a person gets an answer from.
CreateCheck(r, name, reenroll) ==
    /\ Is(r, "idle")
    /\ SpareTokens
    /\ \A t \in Elapsed : ~Locked(t)
    /\ Named(name) # {} => reenroll
    /\ IF \E t \in Pending \ Elapsed : enroll[t].name = name
       THEN Begin(r, "refused", None, Invitation(name, None), {})
       ELSE \E existing \in IF Named(name) = {} THEN {None} ELSE Named(name) :
                Begin(r, "creating", None, Invitation(name, existing), Elapsed)
    /\ UNCHANGED <<enroll, late, used, nodes>>

\* Mutant: pending_for_name is trusted.
IndexTrustsCheck(name, swept) == TRUE

\* uq_node_enrollments_pending_name
IndexAdmits(name, swept) == \A t \in Pending \ swept : enroll[t].name # name

\* The foreign key of node_id.
ReferenceHolds(node) == node = None \/ node \in Here

Insertable(r) ==
    /\ IndexAdmits(req[r].row.name, req[r].swept)
    /\ ReferenceHolds(req[r].row.node)

\* The INSERT and the commit of create().
CreateInsert(r) ==
    /\ Is(r, "creating")
    /\ Insertable(r)
    /\ \E t \in Tok :
          /\ enroll[t].status = "NONE"
          /\ enroll' = [u \in Tok |->
                IF u = t THEN req[r].row
                ELSE IF u \in req[r].swept THEN [enroll[u] EXCEPT !.status = "EXPIRED"]
                ELSE enroll[u]]
    /\ Ends(r)
    /\ UNCHANGED <<late, used, nodes>>

\* A constraint refuses the INSERT, or there is an open invitation already:
\* the session rolls back, and expire_stale with it.
CreateFails(r) ==
    /\ \/ Is(r, "creating") /\ ~Insertable(r)
       \/ Is(r, "refused")
    /\ Ends(r)
    /\ UNCHANGED <<enroll, late, used, nodes>>

\* list() expires what has elapsed and commits that.
List ==
    /\ Elapsed # {}
    /\ \A t \in Elapsed : ~Locked(t)
    /\ enroll' = [t \in Tok |-> IF t \in Elapsed
                                THEN [enroll[t] EXCEPT !.status = "EXPIRED"]
                                ELSE enroll[t]]
    /\ UNCHANGED <<late, used, nodes, req>>

\* revoke() refuses what the row it loads says is CONSUMED.
RevokeRead(r, t) ==
    /\ Is(r, "idle")
    /\ enroll[t].status \in {"PENDING", "EXPIRED"}
    /\ Begin(r, "revoking", t, enroll[t], {})
    /\ UNCHANGED <<enroll, late, used, nodes>>

\* Its commit writes status and revoked_at, whatever the row is by then.
RevokeCommit(r) ==
    LET t == req[r].tok IN
    /\ Is(r, "revoking")
    /\ ~Locked(t)
    /\ enroll' = IF Exists(t)
                 THEN [enroll EXCEPT ![t] = With(@, "REVOKED", @.node, @.attempts, TRUE)]
                 ELSE enroll
    /\ Ends(r)
    /\ UNCHANGED <<late, used, nodes>>

\* register_node() checks the name and probes the agent ...
RegisterRead(r, name) ==
    /\ Is(r, "idle")
    /\ SpareNodes
    /\ Named(name) = {}
    /\ Begin(r, "registering", None, Invitation(name, None), {})
    /\ UNCHANGED <<enroll, late, used, nodes>>

\* ... and inserts, unless the probe failed or the name was taken meanwhile.
RegisterEnd(r) ==
    /\ Is(r, "registering")
    /\ \/ /\ Named(req[r].row.name) = {}
          /\ \E n \in NodeId :
                /\ nodes[n].st = "unborn"
                /\ nodes' = [nodes EXCEPT ![n] = [st |-> "here", name |-> req[r].row.name]]
       \/ UNCHANGED nodes
    /\ Ends(r)
    /\ UNCHANGED <<enroll, late, used>>

\* Mutant: no ON DELETE CASCADE.
NothingCascades(n) == {}

\* The enrolments the foreign key deletes with their node.
Cascade(n) == {t \in Tok : Exists(t) /\ enroll[t].node = n}

\* delete_node()
DeleteNode(n) ==
    /\ n \in Here
    /\ \A t \in Cascade(n) : ~Locked(t)
    /\ nodes' = [nodes EXCEPT ![n] = [st |-> "gone", name |-> None]]
    /\ enroll' = [t \in Tok |-> IF t \in Cascade(n) THEN Blank("GONE") ELSE enroll[t]]
    /\ UNCHANGED <<late, used, req>>

\* expires_at passes.
Elapse(t) ==
    /\ enroll[t].status = "PENDING"
    /\ late' = late \cup {t}
    /\ UNCHANGED <<enroll, used, nodes, req>>

-----------------------------------------------------------------------------
(* A host enrols: resolve_token and consume.                               *)

\* The token is looked up, and not locked.
Resolve(r, t) ==
    /\ Is(r, "idle")
    /\ enroll[t].node = None => SpareNodes
    /\ enroll[t].status = "PENDING"
    /\ t \notin late
    /\ enroll[t].attempts < MaxAttempts
    /\ Begin(r, "resolved", t, enroll[t], {})
    /\ UNCHANGED <<enroll, late, used, nodes>>

\* The address is validated, the host probed and its name compared.
Probe(r) ==
    /\ Is(r, "resolved")
    /\ Goes(r, "probed") \/ Goes(r, "failing")
    /\ UNCHANGED <<enroll, late, used, nodes>>

\* `existing`, by id, or the name must be free.
LookUp(r) ==
    LET existing == {req[r].row.node} \cap Here IN
    /\ Is(r, "probed")
    /\ IF existing = {} /\ Named(req[r].row.name) # {}
       THEN Goes(r, "failing")
       ELSE Loads(r, "claiming", req[r].row,
                  IF existing = {} THEN None ELSE req[r].row.node)
    /\ UNCHANGED <<enroll, late, used, nodes>>

\* Mutant: a read-then-write claim, which trusts the lookup.
ClaimTrustsLookup(r) == Exists(req[r].tok)

\* The WHERE clause of claim().
ClaimWins(r) == enroll[req[r].tok].status = "PENDING"

\* claim(): wait for the row, then compare and set it, uncommitted.
Claim(r) ==
    /\ Is(r, "claiming")
    /\ ~Locked(req[r].tok)
    /\ IF ClaimWins(r) THEN Goes(r, "claimed") ELSE Ends(r)
    /\ UNCHANGED <<enroll, late, used, nodes>>

\* accept_node() can insert the node, or update the one there is.
Acceptable(r) ==
    IF req[r].node = None THEN Named(req[r].row.name) = {} ELSE req[r].node \in Here

\* The claim, the node, node_id and the audit row commit together.
Enrol(r) ==
    LET t == req[r].tok IN
    /\ Is(r, "claimed")
    /\ Acceptable(r)
    /\ \E n \in IF req[r].node = None
                THEN {m \in NodeId : nodes[m].st = "unborn"} ELSE {req[r].node} :
          /\ nodes' = IF req[r].node = None
                      THEN [nodes EXCEPT ![n] = [st |-> "here", name |-> req[r].row.name]]
                      ELSE nodes
          /\ enroll' = [enroll EXCEPT ![t] = With(@, "CONSUMED", n, @.attempts, @.revoked)]
    /\ used' = [used EXCEPT ![t] = @ + 1]
    /\ Ends(r)
    /\ UNCHANGED late

\* The name was taken or the node removed meanwhile: the claim rolls back.
EnrolFails(r) ==
    /\ Is(r, "claimed")
    /\ ~Acceptable(r)
    /\ Ends(r)
    /\ UNCHANGED <<enroll, late, used, nodes>>

\* _fail(), on a session of its own: the row is loaded ...
FailRead(r) ==
    LET t == req[r].tok IN
    /\ Is(r, "failing")
    /\ IF Exists(t)
       THEN Loads(r, "counting", enroll[t], req[r].node)
       ELSE Ends(r)
    /\ UNCHANGED <<enroll, late, used, nodes>>

\* Mutant: revoked one failure past the limit.
CountedPast(loaded, row) ==
    With(row, IF loaded.attempts + 1 > MaxAttempts THEN "REVOKED" ELSE row.status,
         row.node, loaded.attempts + 1, row.revoked)

\* ... counted and, at the limit, revoked. Both are what the load decides.
Counted(loaded, row) ==
    With(row, IF loaded.attempts + 1 >= MaxAttempts THEN "REVOKED" ELSE row.status,
         row.node, loaded.attempts + 1, row.revoked)

\* ... and written. The row may have been counted or consumed in between.
FailCommit(r) ==
    LET t == req[r].tok IN
    /\ Is(r, "counting")
    /\ ~Locked(t)
    /\ enroll' = IF Exists(t)
                 THEN [enroll EXCEPT ![t] = Counted(req[r].row, @)] ELSE enroll
    /\ Ends(r)
    /\ UNCHANGED <<late, used, nodes>>

\* The control plane stops, the connection is lost, or PostgreSQL picks the
\* session as a deadlock victim: everything it had not committed is undone.
Abort(r) ==
    /\ ~Is(r, "idle")
    /\ Ends(r)
    /\ UNCHANGED <<enroll, late, used, nodes>>

-----------------------------------------------------------------------------
\* A request comes in.
Start(r) ==
    \/ \E name \in Name, reenroll \in BOOLEAN : CreateCheck(r, name, reenroll)
    \/ \E name \in Name : RegisterRead(r, name)
    \/ \E t \in Tok : RevokeRead(r, t) \/ Resolve(r, t)

\* A request goes on.
Step(r) ==
    \/ CreateInsert(r) \/ CreateFails(r)
    \/ RevokeCommit(r)
    \/ RegisterEnd(r)
    \/ Probe(r) \/ LookUp(r) \/ Claim(r) \/ Enrol(r) \/ EnrolFails(r)
    \/ FailRead(r) \/ FailCommit(r)

Next ==
    \/ \E r \in Req : Start(r) \/ Step(r) \/ Abort(r)
    \/ List
    \/ \E n \in NodeId : DeleteNode(n)
    \/ \E t \in Tok : Elapse(t)

Spec == Init /\ [][Next]_vars

\* Requests run on an event loop and every call they make has a deadline;
\* PostgreSQL serves the waiters of a row in turn, hence strong fairness.
FairSpec == Spec /\ \A r \in Req : SF_vars(Step(r))

-----------------------------------------------------------------------------
(* Properties.                                                             *)

\* The tables' column types and CHECK constraints, and the sessions.
TypeOK ==
    /\ enroll \in [Tok -> Row]
    /\ late \subseteq Tok
    /\ used \in [Tok -> Nat]
    /\ nodes \in [NodeId -> NodeRow]
    /\ req \in [Req -> Session]

\* One open invitation and one node per name, however many requests check
\* the name at once (create, register_node, accept_node).
OnePerName ==
    /\ \A t, u \in Pending : enroll[t].name = enroll[u].name => t = u
    /\ \A m, n \in Here : nodes[m].name = nodes[n].name => m = n

\* A spent token points at a node that exists and has the name the invitation
\* was issued for: "no state in which the token is spent but no node exists"
\* (NodeEnrollmentRepository.claim), through re-enrolment and removal.
SpentHasNode ==
    \A t \in Tok : enroll[t].status = "CONSUMED" =>
        \E n \in Here : n = enroll[t].node /\ nodes[n].name = enroll[t].name

\* An open invitation has attempts left, although concurrent failures count
\* from stale copies (_fail).
OpenHasAttemptsLeft == \A t \in Pending : enroll[t].attempts < MaxAttempts

\* Every request ends: nobody waits for a row that its own request holds, or
\* that is held for ever (claim, _fail, revoke).
RequestsEnd == \A r \in Req : ~Is(r, "idle") ~> Is(r, "idle")

\* The promise of EnrollmentTickets. A second use has no phase there.
Tickets == [t \in Tok |->
    IF used[t] > 0 THEN IF used[t] = 1 THEN "spent" ELSE "reused"
    ELSE CASE enroll[t].status = "NONE" -> "unissued"
           [] enroll[t].status = "PENDING" -> "open"
           [] OTHER -> "void"]

Promise == INSTANCE EnrollmentTickets WITH ticket <- Tickets

\* A token admits at most one host, and only while it is open, whatever was
\* decided from copies loaded before the probe (consume, claim).
ImplementsTickets == Promise!Spec
=============================================================================
