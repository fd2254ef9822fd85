---------------------------- MODULE Deployments ----------------------------
(***************************************************************************)
(* The deployment lifecycle: the model_deployments and gpu_allocations     *)
(* tables, the background worker that drives rows forward, the operator    *)
(* requests that race with it, and the containers on the hosts, which no   *)
(* transaction covers.                                                     *)
(*                                                                         *)
(* Transactions. Every HTTP request and every worker tick is one session:  *)
(* rows are read when the session starts, the calls to the node agents     *)
(* (seconds to minutes) happen in the middle, and the session's changes    *)
(* reach the database at its end. Autoflush is off, nothing is locked      *)
(* before that, and an ORM object writes only the columns whose value      *)
(* differs from the one it loaded. An Obj keeps the two values of a row;   *)
(* Flushed merges it into the row as it is by then. An UPDATE that matches *)
(* no row (StaleDataError) rolls the whole session back.                   *)
(*                                                                         *)
(* Abstractions. A deployment is its id, its reservation and its container *)
(* (named after the id, so a host holds at most one). Device choice is any *)
(* set of free devices of one node: memory and load only narrow it. The    *)
(* order of the rows of one tick (by creation) is left open. VALIDATING,   *)
(* REQUESTED and STARTING are never committed by this code, CREATING and   *)
(* STOPPING only live inside a session.                                    *)
(***************************************************************************)
EXTENDS FiniteSets

CONSTANTS
    Dep,      \* deployment ids
    Node,     \* node records
    Gpu,      \* devices
    HostOf,   \* [Gpu -> Node]
    Client,   \* concurrent operator requests
    None,     \* no deployment, no node
    Ops,      \* the requests operators issue (which code is exercised)
    Faults    \* what can go wrong outside the database

AllOps == {"deploy", "mock", "external", "stop", "restart", "delete",
           "reconcile", "deleteNode"}
AllFaults == {"agent_error",       \* an agent call fails, or its answer is lost
              "unhealthy",         \* the runtime does not serve in time
              "worker_exception",  \* advance() raises something unexpected
              "crash"}             \* the control plane stops at any point

ASSUME PlatformAssumption ==
    /\ HostOf \in [Gpu -> Node]
    /\ None \notin Dep \cup Node
    /\ Ops \subseteq AllOps
    /\ Faults \subseteq AllFaults

VARIABLES
    row,     \* model_deployments, committed
    place,   \* node_id and gpu_indices of each row; the container keeps them
    alloc,   \* devices of the reservation with released_at NULL, committed
    nodes,   \* registered nodes
    host,    \* the container of each deployment on its host
    tick,    \* the worker's session: the objects it loaded
    seen,    \* nodes in the worker session's identity map
    req      \* the operators' sessions

vars == <<row, place, alloc, nodes, host, tick, seen, req>>

-----------------------------------------------------------------------------
(* Rows and ORM objects.                                                   *)

States == {"NONE", "SCHEDULING", "CREATING", "HEALTH_CHECK", "RUNNING",
           "FAILED", "STOPPING", "STOPPED", "GONE"}
Pending == {"SCHEDULING", "CREATING", "HEALTH_CHECK"}
Active  == {"CREATING", "HEALTH_CHECK", "RUNNING"}
Settled == {"STOPPED", "FAILED"}

\* The nullable columns the lifecycle turns on.
Columns == {"reservation_id", "container_id", "internal_url"}

\* has: the columns that are not NULL.
Row == [state : States, has : SUBSET Columns]

Unborn == [state |-> "NONE", has |-> {}]
Gone   == [state |-> "GONE", has |-> {}]
NoPlace == [node |-> None, gpus |-> {}]

Exists(d) == row[d].state \notin {"NONE", "GONE"}
HasContainer(d) == "container_id" \in row[d].has
HoldsClaim(d) == "reservation_id" \in row[d].has

\* freed: the claims whose released_at the session set.
Obj == [old : Row, new : Row, freed : SUBSET Gpu]

Loaded(r) == [old |-> r, new |-> r, freed |-> {}]

With(o, state, has, freed) ==
    [old |-> o.old, new |-> [state |-> state, has |-> has], freed |-> freed]

Dirty(o) == o.new # o.old

\* UPDATE ... SET only the columns that changed since the object was loaded.
Flushed(o, r) ==
    [state |-> IF o.new.state # o.old.state THEN o.new.state ELSE r.state,
     has   |-> (r.has \ (o.old.has \ o.new.has)) \cup (o.new.has \ o.old.has)]

\* `if deployment.reservation_id: release(...)` reads the claims as they are then ...
Released(d, o) == IF "reservation_id" \in o.new.has THEN alloc[d] ELSE {}

\* Mutant: the reservation is released but still named.
KeepsReservation(o) == o.new.has

\* ... `deployment.reservation_id = None`.
Unreserved(o) == o.new.has \ {"reservation_id"}

\* Mutants: _fail without the release, without the state.
FailKeepsClaim(d, o) == With(o, "FAILED", o.new.has, {})
FailForgetsState(d, o) == With(o, o.new.state, Unreserved(o), Released(d, o))

\* _fail: the claim goes, the container is left alone.
Fail(d, o) == With(o, "FAILED", Unreserved(o), Released(d, o))

\* Mutant: the address of the removed container is kept.
StoppedKeepsUrl(d, o) == With(o, "STOPPED", Unreserved(o), Released(d, o))

\* The tail of stop_deployment, after the container call.
Stopped(d, o) ==
    With(o, "STOPPED", Unreserved(o) \ {"internal_url"}, Released(d, o))

Containers == {"none", "idle", "running"}

-----------------------------------------------------------------------------
(* The worker: DeploymentWorker.tick and DeploymentService.advance.        *)

Absent == [st |-> "out", obj |-> Loaded(Unborn)]

InTick == {d \in Dep : tick[d].st # "out"}

\* The rows of a tick are advanced one after the other.
Advancing(d) == tick[d].st = "todo" /\ \A e \in Dep : tick[e].st # "starting"

Put(d, st, o) == tick' = [tick EXCEPT ![d] = [st |-> st, obj |-> o]]

\* nodes.get answers from the identity map before it asks the database.
NodeFound(d) == place[d].node \in nodes \cup seen
LookUpNode(d) == seen' = seen \cup {place[d].node}

\* list_pending, in a session of its own.
TickLoad ==
    /\ InTick = {}
    /\ \E d \in Dep : row[d].state \in Pending
    /\ tick' = [d \in Dep |-> IF row[d].state \in Pending
                              THEN [st |-> "todo", obj |-> Loaded(row[d])]
                              ELSE Absent]
    /\ seen' = {}
    /\ UNCHANGED <<row, place, alloc, nodes, host, req>>

NodeMissing(d) ==
    /\ Advancing(d)
    /\ ~NodeFound(d)
    /\ Put(d, "done", Fail(d, tick[d].obj))
    /\ UNCHANGED <<row, place, alloc, nodes, host, seen, req>>

\* _create_container up to the agent's answer to `create`. A host refuses a
\* second container of the same name.
CreateContainer(d) ==
    LET o == With(tick[d].obj, "CREATING", tick[d].obj.new.has, {}) IN
    /\ Advancing(d)
    /\ tick[d].obj.new.state = "SCHEDULING"
    /\ NodeFound(d)
    /\ LookUpNode(d)
    /\ \/ /\ host[d] = "none"
          /\ host' = [host EXCEPT ![d] = "idle"]
          /\ \/ Put(d, "starting", o)
             \/ "agent_error" \in Faults /\ Put(d, "done", Fail(d, o))
       \/ /\ host[d] # "none" \/ "agent_error" \in Faults
          /\ Put(d, "done", Fail(d, o))
          /\ UNCHANGED host
    /\ UNCHANGED <<row, place, alloc, nodes, req>>

\* The agent's answer to `start`; the rest of _create_container.
StartContainer(d) ==
    LET o == tick[d].obj
        up == With(o, "HEALTH_CHECK",
                   o.new.has \cup {"container_id", "internal_url"}, {}) IN
    /\ tick[d].st = "starting"
    /\ \/ /\ host[d] # "none"
          /\ host' = [host EXCEPT ![d] = "running"]
          /\ \/ Put(d, "done", up)
             \/ "agent_error" \in Faults /\ Put(d, "done", Fail(d, o))
       \/ /\ host[d] = "none" \/ "agent_error" \in Faults
          /\ Put(d, "done", Fail(d, o))
          /\ UNCHANGED host
    /\ UNCHANGED <<row, place, alloc, nodes, seen, req>>

\* _await_health: it blocks up to the health timeout, then decides.
AwaitHealth(d) ==
    LET o == tick[d].obj IN
    /\ Advancing(d)
    /\ o.new.state \in {"CREATING", "HEALTH_CHECK"}
    /\ NodeFound(d)
    /\ LookUpNode(d)
    /\ \/ /\ "internal_url" \in o.new.has /\ host[d] = "running"
          /\ Put(d, "done", With(o, "RUNNING", o.new.has, {}))
       \/ /\ \/ "internal_url" \notin o.new.has
             \/ host[d] # "running"
             \/ "unhealthy" \in Faults
          /\ Put(d, "done", Fail(d, o))
    /\ UNCHANGED <<row, place, alloc, nodes, host, req>>

\* The worker's own except branch: FAILED, and nothing else.
AdvanceRaises(d) ==
    /\ "worker_exception" \in Faults
    /\ Advancing(d) \/ tick[d].st = "starting"
    /\ Put(d, "done", With(tick[d].obj, "FAILED", tick[d].obj.new.has, {}))
    /\ UNCHANGED <<row, place, alloc, nodes, host, seen, req>>

TickFinished == InTick # {} /\ \A d \in InTick : tick[d].st = "done"

Written == {d \in InTick : Dirty(tick[d].obj)}

EndTick == tick' = [d \in Dep |-> Absent] /\ seen' = {}

\* One commit for all the rows of the tick.
TickCommit ==
    /\ TickFinished
    /\ \A d \in Written : Exists(d)
    /\ row' = [d \in Dep |-> IF d \in Written THEN Flushed(tick[d].obj, row[d])
                                              ELSE row[d]]
    /\ alloc' = [d \in Dep |-> IF d \in InTick THEN alloc[d] \ tick[d].obj.freed
                                                ELSE alloc[d]]
    /\ EndTick
    /\ UNCHANGED <<place, nodes, host, req>>

\* A row the tick changed was deleted meanwhile: StaleDataError, and every
\* other row of the tick loses its changes with it.
TickRollback ==
    /\ TickFinished
    /\ \E d \in Written : ~Exists(d)
    /\ EndTick
    /\ UNCHANGED <<row, place, alloc, nodes, host, req>>

Worker ==
    \/ TickLoad
    \/ \E d \in Dep : \/ NodeMissing(d)
                      \/ CreateContainer(d)
                      \/ StartContainer(d)
                      \/ AwaitHealth(d)
                      \/ AdvanceRaises(d)
    \/ TickCommit
    \/ TickRollback

-----------------------------------------------------------------------------
(* Operator requests: one session per request. `pc` says what comes next:  *)
(* "place" (reserve and insert), "call" (the agent), "commit", "scan".     *)

Free == [op |-> "free", pc |-> "free", d |-> None, at |-> NoPlace,
         obj |-> Loaded(Unborn), known |-> {}]

Begin(c, r) == req[c] = Free /\ req' = [req EXCEPT ![c] = r]
End(c) == req' = [req EXCEPT ![c] = Free]
Answered(c, o) == req' = [req EXCEPT ![c] = [@ EXCEPT !.pc = "commit", !.obj = o]]

\* Mutant: only deployments that serve count as holding devices.
ClaimedByServing == UNION {alloc[d] : d \in {e \in Dep : row[e].state = "RUNNING"}}

\* gpu_allocations with released_at NULL.
Claimed == UNION {alloc[d] : d \in Dep}

\* Mutant: the plan is trusted, as if there were no unique index.
IndexTrustsPlan(gpus) == TRUE

\* The partial unique index refuses a device somebody holds.
IndexAdmits(gpus) == gpus \cap Claimed = {}

\* An id nobody has used: the row's primary key is a fresh UUID.
Fresh(d) == row[d] = Unborn /\ \A c \in Client : req[c].d # d

\* request_deployment up to the scheduler's plan. What is free is read from
\* committed claims; the answer is advisory.
PlanDeployment(c, d, n, gpus) ==
    /\ Fresh(d)
    /\ n \in nodes
    /\ \/ "deploy" \in Ops /\ gpus # {}
       \/ "mock" \in Ops /\ gpus = {}
    /\ \A g \in gpus : HostOf[g] = n
    /\ gpus \cap Claimed = {}
    /\ Begin(c, [Free EXCEPT !.op = "deploy", !.pc = "place", !.d = d,
                             !.at = [node |-> n, gpus |-> gpus]])
    /\ UNCHANGED <<row, place, alloc, nodes, host, tick, seen>>

\* The claims go in under the unique index together with the row ...
Reserve(c) ==
    LET d == req[c].d
        at == req[c].at IN
    /\ req[c].pc = "place"
    /\ at.node \in nodes
    /\ IndexAdmits(at.gpus)
    /\ alloc' = [alloc EXCEPT ![d] = at.gpus]
    /\ place' = [place EXCEPT ![d] = at]
    /\ row' = [row EXCEPT ![d] =
                   [state |-> "SCHEDULING",
                    has |-> IF at.gpus = {} THEN {} ELSE {"reservation_id"}]]
    /\ End(c)
    /\ UNCHANGED <<nodes, host, tick, seen>>

\* ... or the request is refused and nothing of it remains.
ReserveRefused(c) ==
    /\ req[c].pc = "place"
    /\ req[c].at.node \notin nodes \/ ~IndexAdmits(req[c].at.gpus)
    /\ End(c)
    /\ UNCHANGED <<row, place, alloc, nodes, host, tick, seen>>

\* _attach_external: no node, no claim, no container, RUNNING at once.
AttachExternal(d) ==
    /\ "external" \in Ops
    /\ Fresh(d)
    /\ row' = [row EXCEPT ![d] = [state |-> "RUNNING", has |-> {"internal_url"}]]
    /\ UNCHANGED <<place, alloc, nodes, host, tick, seen, req>>

\* stop_deployment and delete_deployment read the row ...
StopRead(c, d, op) ==
    /\ op \in {"stop", "delete"} \cap Ops
    /\ Exists(d)
    /\ row[d].state \notin Settled
    /\ Begin(c, [Free EXCEPT !.op = op, !.d = d,
                             !.pc = IF HasContainer(d) THEN "call" ELSE "commit",
                             !.obj = IF HasContainer(d) THEN Loaded(row[d])
                                     ELSE Stopped(d, Loaded(row[d]))])
    /\ UNCHANGED <<row, place, alloc, nodes, host, tick, seen>>

\* ... have the agent stop and remove the container, if the row they read had
\* one, and carry on whatever the agent answers ...
StopContainer(c) ==
    LET d == req[c].d IN
    /\ req[c].op \in {"stop", "delete"} /\ req[c].pc = "call"
    /\ \/ host' = [host EXCEPT ![d] = "none"]
       \/ /\ "agent_error" \in Faults
          /\ \/ host[d] # "none" /\ host' = [host EXCEPT ![d] = "idle"]
             \/ UNCHANGED host
    /\ Answered(c, Stopped(d, req[c].obj))
    /\ UNCHANGED <<row, place, alloc, nodes, tick, seen>>

\* ... and delete_deployment goes straight to the end for a settled row.
DeleteRead(c, d) ==
    /\ "delete" \in Ops
    /\ Exists(d)
    /\ row[d].state \in Settled
    /\ Begin(c, [Free EXCEPT !.op = "delete", !.d = d, !.pc = "commit",
                             !.obj = Loaded(row[d])])
    /\ UNCHANGED <<row, place, alloc, nodes, host, tick, seen>>

\* restart_deployment has no guard on the state, only on the container id.
RestartRead(c, d) ==
    /\ "restart" \in Ops
    /\ Exists(d)
    /\ HasContainer(d)
    /\ Begin(c, [Free EXCEPT !.op = "restart", !.d = d, !.pc = "call",
                             !.obj = Loaded(row[d])])
    /\ UNCHANGED <<row, place, alloc, nodes, host, tick, seen>>

RestartContainer(c) ==
    LET d == req[c].d
        o == req[c].obj IN
    /\ req[c].op = "restart" /\ req[c].pc = "call"
    /\ \/ /\ host[d] # "none"
          /\ host' = [host EXCEPT ![d] = "running"]
          /\ Answered(c, With(o, "HEALTH_CHECK", o.new.has, {}))
       \/ /\ host[d] = "none" \/ "agent_error" \in Faults
          /\ \/ UNCHANGED host
             \/ /\ host[d] # "none"
                /\ \E left \in {"idle", "running"} :
                      host' = [host EXCEPT ![d] = left]
          /\ Answered(c, Fail(d, o))
    /\ UNCHANGED <<row, place, alloc, nodes, tick, seen>>

\* The end of a stop, restart or delete request.
RequestCommit(c) ==
    LET d == req[c].d
        o == req[c].obj IN
    /\ req[c].pc = "commit"
    /\ IF Exists(d)
       THEN /\ row' = [row EXCEPT ![d] = IF req[c].op = "delete" THEN Gone
                                         ELSE Flushed(o, @)]
            /\ alloc' = [alloc EXCEPT ![d] = @ \ o.freed]
       ELSE UNCHANGED <<row, alloc>>
    /\ End(c)
    /\ UNCHANGED <<place, nodes, host, tick, seen>>

\* reconcile_orphans(remove=True): the container ids of all rows are read ...
ReconcileRead(c) ==
    /\ "reconcile" \in Ops
    /\ \E d \in Dep : host[d] # "none"
    /\ Begin(c, [Free EXCEPT !.op = "reconcile", !.pc = "scan",
                             !.known = {d \in Dep : HasContainer(d)}])
    /\ UNCHANGED <<row, place, alloc, nodes, host, tick, seen>>

\* ... then every host is listed and what is not among them is removed.
ReconcileRemove(c, d) ==
    /\ req[c].pc = "scan"
    /\ place[d].node \in nodes
    /\ host[d] # "none"
    /\ d \notin req[c].known
    /\ host' = [host EXCEPT ![d] = "none"]
    /\ UNCHANGED <<row, place, alloc, nodes, tick, seen, req>>

\* A host that is not ONLINE or does not answer is skipped.
ReconcileEnd(c) ==
    /\ req[c].pc = "scan"
    /\ End(c)
    /\ UNCHANGED <<row, place, alloc, nodes, host, tick, seen>>

\* delete_node: the rows and claims of the node cascade, its containers stay.
DeleteNode(n) ==
    /\ "deleteNode" \in Ops
    /\ n \in nodes
    /\ nodes' = nodes \ {n}
    /\ row' = [d \in Dep |-> IF place[d].node = n THEN Gone ELSE row[d]]
    /\ alloc' = [d \in Dep |-> IF place[d].node = n THEN {} ELSE alloc[d]]
    /\ UNCHANGED <<place, host, tick, seen, req>>

\* The control plane stops or restarts: every open session rolls back.
Crash ==
    /\ "crash" \in Faults
    /\ InTick # {} \/ \E c \in Client : req[c] # Free
    /\ req' = [c \in Client |-> Free]
    /\ EndTick
    /\ UNCHANGED <<row, place, alloc, nodes, host>>

Operators ==
    \/ \E c \in Client :
          \/ \E d \in Dep, n \in Node, gpus \in SUBSET Gpu : PlanDeployment(c, d, n, gpus)
          \/ Reserve(c)
          \/ ReserveRefused(c)
          \/ \E d \in Dep : \/ StopRead(c, d, "stop")
                            \/ StopRead(c, d, "delete")
                            \/ DeleteRead(c, d)
                            \/ RestartRead(c, d)
                            \/ ReconcileRemove(c, d)
          \/ StopContainer(c)
          \/ RestartContainer(c)
          \/ RequestCommit(c)
          \/ ReconcileRead(c)
          \/ ReconcileEnd(c)
    \/ \E d \in Dep : AttachExternal(d)
    \/ \E n \in Node : DeleteNode(n)

-----------------------------------------------------------------------------
Init ==
    /\ row = [d \in Dep |-> Unborn]
    /\ place = [d \in Dep |-> NoPlace]
    /\ alloc = [d \in Dep |-> {}]
    /\ nodes = Node
    /\ host = [d \in Dep |-> "none"]
    /\ tick = [d \in Dep |-> Absent]
    /\ seen = {}
    /\ req = [c \in Client |-> Free]

Next == Worker \/ Operators \/ Crash

Spec == Init /\ [][Next]_vars

\* One poll loop, never blocked for ever: every agent call and every health
\* wait has a deadline. Nothing is assumed of operators or of faults.
FairSpec == Spec /\ WF_vars(Worker)

-----------------------------------------------------------------------------
(* Properties.                                                             *)

ReqType ==
    {r \in [op : {"free", "deploy", "stop", "delete", "restart", "reconcile"},
            pc : {"free", "place", "call", "commit", "scan"},
            d : Dep \cup {None},
            at : [node : Node \cup {None}, gpus : SUBSET Gpu],
            obj : Obj,
            known : SUBSET Dep] :
        r.pc \in {"place", "call", "commit"} => r.d \in Dep}

\* Every variable stays in its type.
TypeOK ==
    /\ row \in [Dep -> Row]
    /\ place \in [Dep -> [node : Node \cup {None}, gpus : SUBSET Gpu]]
    /\ alloc \in [Dep -> SUBSET Gpu]
    /\ nodes \in SUBSET Node
    /\ host \in [Dep -> Containers]
    /\ tick \in [Dep -> [st : {"out", "todo", "starting", "done"}, obj : Obj]]
    /\ seen \in SUBSET Node
    /\ req \in [Client -> ReqType]

\* Requests may plan on the same free devices; no device is ever claimed by two
\* reservations (reserve, uq_gpu_allocations_active).
GpusExclusive == \A d, e \in Dep : d # e => alloc[d] \cap alloc[e] = {}

\* A row that still names its reservation has exactly its own devices claimed,
\* however many sessions with older copies of it commit (_fail, stop_deployment,
\* release_reservation).
ClaimBacksRow ==
    \A d \in Dep : HoldsClaim(d) => alloc[d] = place[d].gpus /\ alloc[d] # {}

\* No claim outlives the deployment it was made for: whoever fails, stops or
\* deletes a deployment gives its devices back in the same commit, and no stale
\* copy brings them back.
NoStrandedClaim ==
    \A d \in Dep : alloc[d] # {} =>
        HoldsClaim(d) /\ row[d].state \in {"SCHEDULING", "HEALTH_CHECK", "RUNNING"}

\* The refinement mapping: what a deployment leases, and the stage of its lease.
Phase(d) == IF row[d].state = "NONE" THEN "unused"
            ELSE IF alloc[d] # {} THEN "held" ELSE "released"
Leases == [d \in Dep |-> [phase |-> Phase(d), gpus |-> alloc[d]]]

Claims == INSTANCE GpuClaims WITH lease <- Leases

\* A lease is granted once, whole, given back whole and never regained.
ImplementsClaims == Claims!Spec

\* The devices a container may use are the ones the row was placed on, so an
\* active deployment must hold them (ACTIVE_STATES: "States where the deployment
\* holds GPUs and a container").
ActiveHoldsGpus ==
    \A d \in Dep : row[d].state \in Active => alloc[d] = place[d].gpus

\* What the gateway routes to is up: once a stop or delete has committed, no
\* stale session makes the address of the removed container routable again.
RoutableIsServing ==
    \A d \in Dep :
        row[d].state = "RUNNING" /\ {"internal_url", "container_id"} \subseteq row[d].has =>
            \/ host[d] = "running"
            \/ \E c \in Client : req[c].d = d /\ req[c].pc = "commit"

\* The worker settles every pending row: no row is skipped or undone for ever.
PendingSettles ==
    \A d \in Dep : row[d].state \in Pending ~> row[d].state \notin Pending
=============================================================================
