-------------------------- MODULE HostContainers --------------------------
(***************************************************************************)
(* One container request through every layer that may turn it into         *)
(* something else: Docker as the node agent drives it                      *)
(* (node-agent/app/runtime/docker.py), the agent's status codes            *)
(* (node-agent/app/api.py), the control plane's client                     *)
(* (services/node_agent_client.py), the compute backend of the deployment  *)
(* worker (services/compute_backend.py) and the requests of operators      *)
(* (services/docker_service.py, api/v1/infrastructure.py).                 *)
(* A host is [docker, images, network, boxes]; a box is                    *)
(* [id, name, image, label, state, gpus], label saying that it carries the *)
(* platform's.  Each request meets a `way` [link, token, daemon]:          *)
(* link "tls" or "down" never arrives, "late" and "lost" arrive and their  *)
(* answer does not; the daemon "works", "refuses", or "fades", that is     *)
(* does it and cannot be asked again (container.reload).                   *)
(* Left out: commands, environments, labels of the platform's own, ports.  *)
(***************************************************************************)
EXTENDS Naturals, FiniteSets

CONSTANTS
    AllowUnmanaged   \* settings.allow_unmanaged_control of the agent

----------------------------------------------------------------------------
(* Docker and DockerContainerRuntime.  A runtime call ends "ok", or raises *)
(* "NotFound", "Unavailable" or "Unmanaged".                               *)

Named(h, ref) == {b \in h.boxes : b.id = ref}

\* What a call ends in, the host it leaves behind and the box it tells of.
Done(h, info) == [host |-> h, says |-> "ok", info |-> info]
Raises(h, says) == [host |-> h, says |-> says, info |-> {}]

\* _connect, containers.get.
Inspect(h, ref) ==
    CASE h.docker = "down" -> Raises(h, "Unavailable")
      [] h.docker = "up" /\ Named(h, ref) = {} -> Raises(h, "NotFound")
      [] OTHER -> Done(h, Named(h, ref))

\* list_containers: the SDK inspects each container it lists, and one that went
\* meanwhile is a NotFound.
List(h, daemon) ==
    CASE h.docker = "down" \/ daemon = "refuses" -> Raises(h, "Unavailable")
      [] h.docker = "up" /\ daemon = "fades" -> Raises(h, "NotFound")
      [] OTHER -> Done(h, h.boxes)

\* _require_managed.
RequireManaged(h, ref) ==
    LET found == Inspect(h, ref) IN
    IF \E b \in found.info : ~b.label /\ ~AllowUnmanaged THEN Raises(h, "Unmanaged") ELSE found

\* What Docker makes of a box, or refuses to (an APIError).
Permits(b, op) ==
    CASE op = "start" -> b.state \notin {"PAUSED", "DEAD"}
      [] op = "restart" -> b.state # "DEAD"
      [] op = "remove" -> b.state \notin {"RUNNING", "RESTARTING", "PAUSED"}
      [] OTHER -> TRUE

Becomes(b, op) ==
    CASE op \in {"start", "restart"} -> {[b EXCEPT !.state = "RUNNING"]}
      [] op = "stop" -> {[b EXCEPT !.state = IF @ \in {"CREATED", "DEAD"} THEN @ ELSE "EXITED"]}
      [] op \in {"remove", "force"} -> {}

\* _call and reload around a change of Docker's.
Changed(h, after, info, daemon, reloads) ==
    CASE daemon = "refuses" -> Raises(h, "Unavailable")
      [] daemon = "fades" /\ reloads -> Raises([h EXCEPT !.boxes = after], "Unavailable")
      [] OTHER -> Done([h EXCEPT !.boxes = after], info)

\* start, stop, restart and remove; removing asks for nothing afterwards.
Control(h, ref, op, daemon) ==
    LET found == RequireManaged(h, ref)
        after == UNION {Becomes(b, op) : b \in found.info} IN
    CASE found.says # "ok" -> found
      [] found.says = "ok" /\ \E b \in found.info : ~Permits(b, op) -> Raises(h, "Unavailable")
      [] OTHER -> Changed(h, (h.boxes \ found.info) \cup after, after, daemon,
                          op \notin {"remove", "force"})

\* create: the image is looked up first and never pulled; a name is taken once
\* per host, and a network that is missing is a NotFound like any other.
Create(h, spec, ref, daemon) ==
    LET box == [id |-> ref, name |-> spec.name, image |-> spec.image, label |-> TRUE,
                state |-> "CREATED", gpus |-> spec.gpus] IN
    CASE h.docker = "down" \/ spec.image \notin h.images -> Raises(h, "Unavailable")
      [] h.docker = "up" /\ spec.image \in h.images /\ \E b \in h.boxes : b.name = spec.name ->
           Raises(h, "Unavailable")
      [] h.docker = "up" /\ spec.image \in h.images
           /\ (\A b \in h.boxes : b.name # spec.name) /\ ~h.network -> Raises(h, "NotFound")
      [] OTHER -> Changed(h, h.boxes \cup {box}, {box}, daemon, TRUE)

\* stats: shares of counters that restart with the container.
CpuPercent(busy, was, system, before, online) ==
    LET used == busy - was
        passed == system - before IN
    IF busy > was /\ system > before THEN (used * online * 100) \div passed ELSE 0
MemoryUsed(usage, cache) == IF usage > cache THEN usage - cache ELSE 0

----------------------------------------------------------------------------
(* The agent's API and the client that calls it.                           *)

\* _control_error; listing handles no NotFound of its own.
Code(says, listing) ==
    CASE says = "ok" -> 200
      [] says = "Unmanaged" -> 403
      [] says = "NotFound" -> IF listing THEN 500 ELSE 404
      [] OTHER -> 503

\* _request: the exception for a status.
ClassOf(code) ==
    CASE code = 200 -> "ok"
      [] code = 401 -> "auth"
      [] code = 403 -> "refused"
      [] OTHER -> "error"

\* require_token: without it no handler runs.
Answered(h, way, r, listing) ==
    IF way.token THEN [code |-> Code(r.says, listing), host |-> r.host, info |-> r.info]
    ELSE [code |-> 401, host |-> h, info |-> {}]

\* The way there, the handler, whose outcome is r, and its answer's way back.
Request(h, way, r, listing) ==
    CASE way.link = "tls" -> [host |-> h, class |-> "auth", info |-> {}]
      [] way.link = "down" -> [host |-> h, class |-> "unreachable", info |-> {}]
      [] OTHER ->
           LET a == Answered(h, way, r, listing) IN
           CASE way.link = "late" -> [host |-> a.host, class |-> "unreachable", info |-> {}]
             [] way.link = "lost" -> [host |-> a.host, class |-> "error", info |-> {}]
             [] OTHER -> [host |-> a.host, class |-> ClassOf(a.code), info |-> a.info]

\* The calls of NodeAgentContainerRuntime.
AskCreate(h, way, spec, ref) == Request(h, way, Create(h, spec, ref, way.daemon), FALSE)
AskControl(h, way, ref, op) == Request(h, way, Control(h, ref, op, way.daemon), FALSE)
AskInspect(h, way, ref) == Request(h, way, Inspect(h, ref), FALSE)
AskList(h, way) == Request(h, way, List(h, way.daemon), TRUE)

\* get_docker answers even if Docker does not; image_exists asks nothing else.
Available(h) == h.docker = "up"
ImageExists(h, way, image) == Request(h, way, Done(h, {}), FALSE).class = "ok" /\ Available(h)

----------------------------------------------------------------------------
(* DockerComputeBackend.  A handle is [host, state, ref].                  *)

Handle(h, state, ref) == [host |-> h, state |-> state, ref |-> ref]

\* _spec: a mock asks for no devices.
Spec(req) == [name |-> req.deployment, image |-> req.image,
              gpus |-> IF req.mock THEN {} ELSE req.gpus]

\* deploy_model: no reference is kept of a container that may be there.
DeployModel(h, first, second, req, ref) ==
    LET made == AskCreate(h, first, Spec(req), ref)
        started == AskControl(made.host, second, ref, "start") IN
    CASE made.class # "ok" -> Handle(made.host, "FAILED", {})
      [] made.class = "ok" /\ started.class # "ok" -> Handle(started.host, "FAILED", {})
      [] OTHER -> Handle(started.host, "STARTING", {ref})

\* stop_model: the container is removed only after it was stopped, and stopped
\* is what is reported either way.
StopModel(h, first, second, ref) ==
    LET stopped == AskControl(h, first, ref, "stop")
        removed == AskControl(stopped.host, second, ref, "force") IN
    Handle(IF stopped.class = "ok" THEN removed.host ELSE stopped.host, "STOPPED", {ref})

RestartModel(h, way, ref) ==
    LET r == AskControl(h, way, ref, "restart") IN
    Handle(r.host, IF r.class = "ok" THEN "STARTING" ELSE "FAILED", {ref})

StatusOf(state) ==
    CASE state = "RUNNING" -> "RUNNING"
      [] state = "CREATED" -> "CREATING"
      [] state = "RESTARTING" -> "STARTING"
      [] state = "EXITED" -> "STOPPED"
      [] OTHER -> "FAILED"

GetStatus(h, way, ref) ==
    LET r == AskInspect(h, way, ref) IN
    IF r.class # "ok" THEN "FAILED" ELSE StatusOf((CHOOSE b \in r.info : TRUE).state)

\* list_managed: the platform's label is compared on this side.
ListManaged(h, way) == [AskList(h, way) EXCEPT !.info = {b \in @ : b.label}]

RemoveContainer(h, way, ref) == AskControl(h, way, ref, "force")

\* fetch_logs: something to keep with the row, whatever happened.
FetchLogs(h, way, ref) == IF AskInspect(h, way, ref).class = "ok" THEN "lines" ELSE "no lines"

----------------------------------------------------------------------------
(* DockerService: an operator names only the container.                    *)

\* _resolve and _control: the row, the audit record and what the operator is
\* told; a row is [id, state].
Told(class) ==
    CASE class = "ok" -> "done"
      [] class = "refused" -> "conflict"
      [] OTHER -> "unavailable"

\* The status an operator's request ends in.
HttpStatus(told) ==
    CASE told = "done" -> 200
      [] told = "unknown" -> 404
      [] told = "conflict" -> 409
      [] OTHER -> 503

AuditOf(class) ==
    CASE class = "ok" -> {"SUCCESS"}
      [] class = "refused" -> {"DENIED"}
      [] OTHER -> {"FAILURE"}

Operate(rows, h, way, ref, op) ==
    LET r == AskControl(h, way, ref, op)
        row == [id |-> ref, state |-> (CHOOSE b \in r.info : TRUE).state]
        others == {x \in rows : x.id # ref} IN
    IF \A x \in rows : x.id # ref
    THEN [rows |-> rows, host |-> h, told |-> "unknown", audit |-> {}]
    ELSE [rows |-> IF r.class # "ok" THEN rows
                   ELSE IF op \in {"remove", "force"} THEN others ELSE others \cup {row},
          host |-> r.host, told |-> Told(r.class), audit |-> AuditOf(r.class)]

\* list_containers, get_container: the rows, whatever the host says now;
\* get_logs: the host, which must answer.
Cached(rows, ref) == {x \in rows : x.id = ref}
Logs(rows, h, way, ref) ==
    IF Cached(rows, ref) = {} THEN "unknown" ELSE Told(AskInspect(h, way, ref).class)

\* DockerService.create, which nothing calls.
CreateOn(rows, h, way, spec, ref) ==
    LET r == AskCreate(h, way, spec, ref) IN
    [rows |-> IF r.class = "ok" THEN rows \cup {[id |-> ref, state |-> "CREATED"]} ELSE rows,
     host |-> r.host, told |-> IF r.class = "ok" THEN "done" ELSE "unavailable",
     audit |-> IF r.class = "ok" THEN {"SUCCESS"} ELSE {"FAILURE"}]
=============================================================================
