# A verification project for the private AI platform

The platform is a control plane for on-premises AI: a FastAPI application over
PostgreSQL, Redis, Qdrant and MinIO that registers GPU hosts, deploys model
runtimes on them through node agents, routes inference requests to them, and
runs agents, tools and document ingestion on top. These TLA+ modules model the
parts of it where the order of events decides whether it is correct, check them
with TLC on small instances, and prove the central facts with TLAPS for every
instance.

    tlc -workers 2 -config DepAll.cfg MCDeployments.tla     # a run; section 2 lists them
    tlapm DeploymentsProofs.tla                             # the proofs, minutes each

## 1. Inventory

What every component shares: an HTTP request is one database transaction
(`db/session.py`, `session_scope`), background workers have one transaction per
tick, PostgreSQL runs at READ COMMITTED, SQLAlchemy sessions neither autoflush
nor expire on commit, and hardly anything is read `FOR UPDATE`. So the hard
behaviours are nearly always the same three: a row is read, something slow
happens, and the row is written; something outside the database (a container, a
vector, an object, a tool's effect) is changed by a transaction that may yet
roll back; two components treat the same row as theirs.

| Component | State | Operations | Hard behaviour | What makes it correct |
|---|---|---|---|---|
| Deployment lifecycle (`services/deployment.py`, `workers/deployments.py`, `services/compute_backend.py`) | `model_deployments`: state, reservation, container, address | deploy, attach an external runtime, advance (create, start, await health), stop, restart, delete, reconcile | a tick holds copies for minutes; agents' answers get lost; requests race with it; crashes between create and commit | claims follow rows; what is routable is up; every pending row settles; containers do not share devices |
| GPU reservation and placement (`services/scheduler.py`, `GpuService` in `services/infrastructure.py`) | `gpu_allocations`, a partial unique index on live rows | plan, reserve, release, free devices | plan and reserve are apart; release is repeated by several sessions | devices are claimed once, whole, and given back whole |
| Node fleet sync (`NodeService`, `workers/scheduler.py`) | `nodes` status and `last_seen_at`, `gpus`, `containers` | sweep, mark stale, register, delete node (cascades) | one commit per sweep against the staleness job; partial answers | a node that answers ends up ONLINE; one that does not ends up OFFLINE |
| Node enrolment (`services/node_enrollment.py`, `core/agent_url.py`) | `node_enrollments`: status, attempts, expiry | create, resolve, consume, revoke, expire, purge | claim, revoke and failure counting race; failures commit in a session of their own | a token makes at most one node; a revoked or spent token makes none; attempts are bounded |
| Node agent (`node-agent/app`, `services/remote_runtime.py`, `services/docker_service.py`) | the containers of a host; which probe answers for its cards | create, start, stop, restart, remove, list; read cards from DCGM, nvidia-smi or a fake | names are unique per host; a container disappears between two calls; a driver answers half | acts only on what is labelled as managed; a figure it could not read is not another card's |
| AI gateway (`services/gateway.py`, `services/llm_provider.py`, `services/agent_gateway.py`) | a rate-limit counter in Redis, usage records; it reads models, aliases and deployments | authenticate, count, resolve, complete, stream, record | deployments vanish between resolve and call; INCR and EXPIRE are two commands; accounting after a closed stream | routes only to what serves; limits per window; every call is accounted once |
| API keys (`services/api_keys.py`) | `api_keys`: expiry, `revoked_at`, what replaced it | create, rotate, revoke, authenticate | rotations and revocations decide on rows read earlier | rotation never lengthens a key's life and ends the old key |
| Authentication and federation (`services/auth.py`, `services/federation.py`, `services/user.py`, `services/seed.py`) | users, their roles, OIDC states in Redis | sign in, reconcile a directory account, create, disable, appoint | two first sign-ins; names reassigned in the directory; roles and flags written from copies | one account per person; nobody signs in as another; a disable stays |
| Audit (`services/audit.py`, `repositories/audit.py`) | `audit_logs` | record, record in a session of its own, search, count | the caller rolls back after a denial; the flush sends the caller's writes early; pages over equal timestamps | a change that committed has its row, and so has a refusal |
| Agent runs (`services/agent_runs.py`, `services/agent_runtime.py`, `services/tool_pipeline.py`, `services/tool_executors.py`) | `agent_runs` with a checkpoint, `agent_run_events`, `tool_executions` | start, run an iteration, invoke a tool, suspend, approve, reject, cancel | two approvers; cancel against a running loop; closed streams | a privileged tool runs at most once and only if approved; terminal is final |
| Agent and tool registry (`services/agent_registry.py`) | agents, numbered versions with their grants, tools, MCP servers | register, update, delete a tool; discover; publish, roll back | two editors read one maximum; a tool is deleted under an edit | versions count without a gap; no published grant dangles |
| Knowledge (`services/knowledge.py`, `services/chunking.py`, `services/retrieval.py`, `workers/ingestion.py`) | `documents`, chunks, objects in MinIO, vectors in Qdrant | upload, claim, ingest, delete, search | stores outside the transaction; claim with SKIP LOCKED; crash in the middle | an indexed document is findable; nothing findable without a document |
| Memory (`services/memory.py`) | conversations, messages, entries | append, recall, summarise, forget | ordinals and counters read, then written | ordinals unique; a tenant sees only its own |
| Tracing queue (`services/langfuse.py`) | a bounded queue | record, drain, stop | full queue, failed post | never blocks a run |
| Voice (`api/voice_ws.py`, `services/voice.py`) | `voice_sessions`, `voice_messages`; per socket a buffer, a flag and a task | connect, audio, turn, interrupt, close, delete | a turn is a task beside the handler and beside other sockets' turns, in two transactions | messages are numbered; nobody waits for ever |
| Model registry (`services/model_registry.py`) | `models`, `model_aliases`, files on disk | register, import, delete, alias, load manifests | checks and commits are apart; deployments come and go | a name that can be called is listed; nothing points at a model that is gone |
| Health (`services/health.py`) | none | probe each dependency against a deadline, answer readiness | a dependency that hangs; a name nobody probes | ready exactly when what is required answers, within the deadline |
| Definitions, dashboard, monitoring, seed | none of their own | read, aggregate, start up | none | |
| Frontends, MCP bridge, fixtures, scripts, compose files | none of the platform's | | | |

How they interact. An operator's request reaches *Deployment lifecycle*, which
asks *placement* for a plan and *reserves* the devices in the same transaction
that inserts the row. The worker later reads the row and drives the *node
agent*. *Fleet sync* and the operator can remove the node under it (its rows
cascade). The *gateway* reads running rows and calls their addresses. *Agent
runs* call the gateway, tools, *knowledge* and *memory*. All of them only meet
in database rows, in Redis keys, and at the hosts.

## 2. Modules

| Module | Models | Run |
|---|---|---|
| `GpuClaims` | abstract: what the platform promises about devices | by refinement |
| `Deployments` | the deployment lifecycle with reservations, sessions, hosts, worker, operators, crashes | `DepAll`, `DepRace` (`MCDeployments`), `DepLive` (`MCPlacement`) |
| `Placement` | which devices a plan names | `DepLive` (`MCPlacement`) |
| `EnrollmentTickets` | abstract: what an administrator is promised about a token | by refinement |
| `NodeEnrollment` | one-time tokens and the nodes they make | `Enrol` |
| `AgentRegistry` | tools, MCP servers, and the numbered versions of an agent | `AgentLive` |
| `AgentRuns` | a run with its trace, held call and checkpoint, composed with `AgentRegistry` | `AgentLive` (`MCAgentRuns`), `AgentRuns` (`MCToolCalls`) |
| `ToolCalls` | one tool call from authorisation to result, over REST, MCP or inside the platform | `AgentRuns` (`MCToolCalls`) |
| `InternalTools` | the calculator, calendar and summarising tools | `AgentRuns` (`MCToolCalls`) |
| `Tracing` | the bounded queue of traces, its drain and its stop | `AgentRuns` (`MCToolCalls`) |
| `AgentChat` | an agent called as a model: scopes, checks, buffered and streamed answers | `AgentRuns` (`MCToolCalls`) |
| `Knowledge` | uploads, ingestion by several workers, deletion, over two stores no transaction covers | `Knowledge` (`MCKnowledge`) |
| `Chunking` | how a document is cut into passages | `Knowledge` (`MCKnowledge`) |
| `Memories` | what is remembered of a person, in three layers | `Knowledge` (`MCKnowledge`) |
| `Retrieval` | what a run is told from knowledge and memory | `Knowledge` (`MCKnowledge`) |
| `FleetSync` | sweeps, checks, the staleness job, cards and containers against their rows | `FleetSync` (`MCNodeAgent`) |
| `HostContainers` | the agent's operations on a host's containers, and the control plane's on the agent | `FleetSync` (`MCNodeAgent`) |
| `Probes` | what the agent reports of cards, from DCGM, nvidia-smi or a fake | `FleetSync` (`MCNodeAgent`) |
| `ApiKeys` | rotation, revocation and expiry of an application's keys | `ApiKeys` |
| `ModelNames` | models, aliases, manifests and what a name resolves to | with `Gateway` |
| `Gateway` | calls: limit, resolution, runtime, stream, usage record; composed with `ModelNames` | `Gateway` (`MCGateway`) |
| `Accounts` | sign-ins through directories, provisioning, administration | `Accounts` (`MCAccounts`) |
| `AuditTrail` | what is written of a request, and how it is searched | `Accounts` (`MCAccounts`) |
| `Readiness` | the health answer | `Accounts` (`MCAccounts`) |
| `Voice` | sockets, turns and the session they share | `Voice` |
| `DeploymentsProofs` (with placement), `NodeEnrollmentProofs`, `AgentRunsProofs` (with the registry, tool calls and traces), `KnowledgeProofs` (with memories), `FleetVoiceProofs` (fleet, voice, container requests), `ApiKeysProofs`, `GatewayProofs` (with the names), `AccountsProofs` (with the audit log) | theorems, section 11 | |

Each module models sessions in the same way: what a session has loaded is a
record of its own, other sessions' commits do not change it, and its commit
writes what differs from what it loaded. Where a unique index, a foreign key or
a row lock decides between two sessions, the module says so at the action that
meets it.

`Placement`, `ToolCalls`, `InternalTools`, `Tracing`, `AgentChat`, `Chunking`,
`Memories`, `Retrieval`, `HostContainers`, `Probes`, `AuditTrail` and `Readiness` have no state
machine: a placement, a tool call, a probe is one computation or one protocol whose
outcomes can all be enumerated. They are operators (the steps of a protocol, from a
record to the set of records it may become), and what must hold of them are named
`ASSUME`s of the MC module given above, which TLC evaluates when the run starts, over
every input named in the sections below. The bounds were chosen so that altering a
guard, a bound or a branch of the operators makes one of those assumptions fail.

No run checks deadlock: a platform without requests does nothing, and in every
instance ids run out. That a *request* is never stuck is what the liveness
properties say.

## 3. Deployments

### State

| Variable | In the code |
|---|---|
| `row` | `model_deployments`, committed: `state`, and in `has` which of `reservation_id`, `container_id`, `internal_url` are not NULL |
| `place` | `node_id` and `gpu_indices`, written once with the row and passed to the container |
| `alloc` | the `gpu_allocations` rows of the deployment's reservation with `released_at IS NULL` |
| `nodes` | rows of `nodes` |
| `host` | the container `ai-model-<id>` on its host: none, created, or running |
| `tick`, `seen` | the worker's session: the rows it loaded and what it made of them; the nodes in its identity map |
| `req` | the operators' sessions: which request, what comes next, the plan or the loaded row |

A session's copy of a row is `Obj`: the values loaded (`old`), the values now
(`new`) and the claims whose `released_at` it set (`freed`). A commit writes the
columns in which `new` differs from `old` onto the row as it is *then*
(`Flushed`), which is what SQLAlchemy's unit of work sends. That merge is the
heart of the model: stale copies do not overwrite everything, they overwrite
what they changed.

### Actions

Worker: `TickLoad` (`list_pending`), then per row, in any order, `NodeMissing`,
`CreateContainer` and `StartContainer` (`_create_container` with the two agent
calls of `deploy_model`), `AwaitHealth`, or `AdvanceRaises` (the `except`
branch); finally `TickCommit`, or `TickRollback` when a changed row is gone.
Operators: `PlanDeployment` then `Reserve` or `ReserveRefused`;
`AttachExternal`; `StopRead`, `StopContainer`, `RequestCommit` for stop and
delete; `DeleteRead` for a settled row; `RestartRead`, `RestartContainer`;
`ReconcileRead`, `ReconcileRemove`, `ReconcileEnd`; `DeleteNode`. `Crash` ends
every open session without a commit.

`Ops` selects the requests operators issue, `Faults` what can go wrong outside
the database: `agent_error` (a call fails, or acts and its answer is lost),
`unhealthy` (the runtime never serves), `worker_exception` (`advance` raises
something it does not handle), `crash`.

Abstractions: the ranking of free devices (any set of free devices of one node
may be planned); images, ports, logs, texts and timestamps; the checks on the
model before a plan; metrics and audit rows, of which only the flush matters.
The states REQUESTED, VALIDATING and STARTING are never committed by this code.
A container is identified with its deployment because its name is derived from
the id and hosts refuse a second one of that name. `GPU -> node` is fixed: moving
a device between hosts belongs to `FleetSync`.

### Properties

* `TypeOK`.
* `GpusExclusive`: no device is claimed by two reservations.
* `ClaimBacksRow`: a row that names its reservation has exactly its devices claimed.
* `NoStrandedClaim`: a claimed device belongs to a row that names the claim and is
  scheduled, coming up or running.
* `ImplementsClaims`: the whole is a refinement of `GpuClaims` (one lease in a
  deployment's life, granted whole on free devices, given back whole, never
  regained). `Leases` is the refinement mapping.
* `RoutableIsServing`: what the gateway would route to is running, unless a stop of
  it is about to commit.
* `ActiveHoldsGpus`: a row in `ACTIVE_STATES` holds the devices it was placed on.
* `PendingSettles` (liveness): every pending row becomes RUNNING, FAILED, STOPPED or
  disappears.

### Runs

| Run | Instance | Shows |
|---|---|---|
| `DepAll` | 2 deployments, 2 devices, 1 host, 1 operator, all requests but deployments without devices (`DepLive` has those), all faults; 1.5 million states | types, `ClaimBacksRow` and the refinement, under every fault |
| `DepRace` | 2 operators; deploy, stop, delete, delete node; failed calls and unhealthy runtimes; 2.0 million states | exclusion, no stranded claim, no dead address, with three sessions on one row |
| `DepLive` | 2 hosts with a device each; no stop, restart or crash; 0.6 million states | `ActiveHoldsGpus`, and `PendingSettles` under fairness |

`DepLive` also evaluates the checks of `Placement`, over 21504 cases: three cards on
two nodes, each claimed or not, with or without a sample that says it is full or
busy, asked for by count or by index, pinned or not. A plan names cards of one node, as
many as asked, unclaimed and with enough memory; one is found whenever a node has
them, and otherwise the answer says of every node why not; no busier card is taken
while an idler one of the node fits; a pinned node must be ONLINE.

Why these bounds are enough: two deployments and two devices give disjoint,
overlapping and equal placements; three sessions (the tick and two operators)
give every pairwise race on a row plus a bystander; a deployment id is used once,
so a behaviour is a finite life of two rows. A third deployment would only add
another bystander. Two hosts matter where a node disappears under a tick that
has another node's rows, which `DepLive` has. What holds beyond these bounds is
what section 11 proves.

Fairness is `WF_vars(Worker)` and nothing else: `run_forever` is one loop that
always comes back, because agent calls and health waits have deadlines, and
`tick` swallows every exception. Operators, faults and crashes are not fair.
`DepLive` leaves crashes out because a control plane that crashes in every tick
settles nothing; stop and restart are left out because of `ActiveHoldsGpus`.

### Where the code and its documentation part

* `tick` commits a state it decided from a copy minutes old
  (`workers/deployments.py:139`). A stop that committed meanwhile has released
  the reservation; the tick turns STOPPED into HEALTH_CHECK or RUNNING. The row
  is then active without devices (`models_registry.py:78`).
* `_fail` (`deployment.py:481`) gives the devices back and
  leaves the container, whose restart policy is `unless-stopped`, on them. The
  next deployment starts a second container there.
* All rows of a tick share a commit, so one row deleted during
  the tick rolls the others back (`workers/deployments.py:128` says otherwise).
  Their containers exist by then, and the retry fails on the taken name.

Also visible in the model: `restart` asks
for a container id but not for a state, so a FAILED row comes back without
devices (`deployment.py:534`; its docstring says "keeping the GPU reservation"); the
worker's `except` branch keeps the reservation that `_fail` would release
(`workers/deployments.py:131`), and neither stop nor delete of a FAILED row
releases it; after a crash between `create` and the commit the worker creates
the same name again and fails, although `advance` says that it resumes
(`deployment.py:381`); `reconcile_orphans(remove=True)` reads the known
container ids before it lists the hosts and may remove a container committed in
between; a stop that read the row before the worker committed the container id
leaves the container running; a deployment that is not pinned may be placed on any pollable
node, OFFLINE ones included, while a pinned one must be ONLINE (`deployment.py:330`,
`:355`); `nvidia_runtime_available` is recorded and never read, although
`models/infrastructure.py:114` says that GPU workloads must not be scheduled without
it; indices given twice pass the plan and are refused by `reserve`. This is why `ActiveHoldsGpus` is checked without
stop and restart, and `NoStrandedClaim` without unexpected exceptions.

## 4. Node enrolment

An administrator mints a token for a node *name*; the host presents it; the
control plane looks the token up without a lock, probes the host for seconds,
and only then claims the token and creates the node in one transaction
(`services/node_enrollment.py`, module docstring). Between lookup and claim
anything may happen to the row: another host claims it, somebody revokes it, it
expires, its node is removed, or the name is taken by a manual registration.

### State

| Variable | In the code |
|---|---|
| `enroll` | `node_enrollments`, committed: status, name, `node_id`, `attempts`, whether `revoked_at` is set; `NONE` before the INSERT, `GONE` after the cascade |
| `late` | the rows whose `expires_at` has passed |
| `used` | how many NODE_ENROLLED and NODE_REENROLLED audit rows name the enrolment: audit rows are never removed, so this remembers what `status` may forget |
| `nodes` | `nodes`, committed |
| `req` | one session per request: where it is, the row as it loaded it (or is about to insert it), the node it updates in place, the rows `expire_stale` changed in it |

### Actions

`create` is `CreateCheck` (expire, then both checks), then `CreateInsert` or
`CreateFails` (a constraint refuses, or the check found an open invitation: the
expiry rolls back with it). `List` expires and commits. `revoke` is `RevokeRead`
and `RevokeCommit`. `register_node` is `RegisterRead` and `RegisterEnd`,
`delete_node` is `DeleteNode` with the cascade of the foreign key. A host's
request is `Resolve`, `Probe` (every outcome of the address checks, the probe
and the name comparison), `LookUp`, `Claim` (wait for the row, then compare and
set), `Enrol` or `EnrolFails`; a failure goes through `FailRead` and
`FailCommit`, the independent session of `_fail`. `Elapse` is time. `Abort` ends
a session at any point without a commit: a crash, a lost connection, a deadlock
victim.

Locks are modelled where they can be held for long: a claim keeps its row until
the inventory of the host is fetched, and `create` keeps what it expired until
its commit (`Holds`). Every other writer waits for `~Locked`. All other writes
happen at the session's end, in the step that commits them.

Abstractions: a row and its token are one id; addresses, TLS, labels and the
agent's own token only decide the outcome of `Probe`; `claim`'s comparison with
`func.now()` never refuses, because PostgreSQL's `now()` is the start of the
transaction and `resolve_token` compared the expiry later than that, so a token
that elapses during the probe still enrols; refusals that change nothing are not
actions. `SpareTokens` and `SpareNodes` bound the instances: a request that will
insert a row only starts while a fresh id is left for it.

### Properties

* `TypeOK`, which here says that stale writers never leave a row outside the
  CHECK constraint.
* `ImplementsTickets`: a refinement of `EnrollmentTickets`. A token is issued
  once, admits at most one host, only while open, and never after it was voided.
  `Tickets` is the mapping; a second use would have no phase.
* `SpentHasNode`: a CONSUMED row points at a node that exists and has its name.
* `OnePerName`: one open invitation and one node per name.
* `OpenHasAttemptsLeft`: an open row's count is below the limit.
* `RequestsEnd` (liveness): every request ends.

### Runs

| Run | Instance | Shows |
|---|---|---|
| `Enrol` | 2 requests, 2 tokens, 2 nodes, 1 name, limit 1; 0.24 million states | all of them; no symmetry, because of `RequestsEnd` |

Why these bounds are enough: every property relates at most two rows of one
name, and names only meet in the unique indexes, so a second name would add
bystanders. Two tokens give an elapsed invitation and its successor, or a first
enrolment and a re-enrolment of the node it made; two nodes give a node and the
one registered or enrolled after its removal; two requests give two hosts on one
token, or a host and an administrator. With the limit 1 every counted failure
burns the token, which is the case where a failure closes what a claim wants;
counts below the limit are covered by the theorems of section 11.

Fairness is `SF_vars(Step(r))` for each request and nothing for arrivals, time,
aborts and removals. A request runs on the event loop and each of its outside
calls has a deadline, so it goes on whenever it can. Weak fairness would not do:
whoever waits for a row that others lock again and again is enabled again and
again but not always, and PostgreSQL queues the waiters of a row.

### Where the code and its documentation part

* `revoke` (`node_enrollment.py:156`) tests CONSUMED on a row it
  loaded without a lock. If the claim commits in between, the UPDATE waits for it
  and then writes REVOKED over CONSUMED; the administrator reads "revoked. The
  token no longer works.", and the node is there with a working agent token,
  which is what the comment at line 149 says must not be answered. The audit
  trail is right (`used`), and the token stays dead, so `ImplementsTickets` holds.

Also visible in the model: `_fail` increments a count it read
without a lock, so simultaneous failures count once, and all requests that
passed `resolve_token` before the first failure probe the host anyway; one token
can therefore cause more probes than `max_attempts_per_token`, which
`config/settings.py:365` says it bounds. `OpenHasAttemptsLeft` is about the count
in the row, not the number of probes. A failure that reaches the limit writes REVOKED over a
CONSUMED row just as `revoke` does. `sweep()` is called by nothing, so
settled rows are never purged; on the other hand removing a node removes its
enrolment rows at once, although `purge_settled` says that consumed rows are kept
for a while on purpose.

## 5. Agent registry and agent runs

A run is assembled from the registry when it starts (`build_spec` freezes what
the current version grants and the invoking user may do), then loops: model,
tool calls, model. A call that needs a person suspends the run: row, events and
the held call commit, the request ends, and another request answers later from
the checkpoint. Nothing is read `FOR UPDATE` and nothing carries a version, so
two approvers, or an approver and a canceller, work on copies of one row.

### State

| Variable | In the code |
|---|---|
| `tool`, `server` | `tools` (incarnations of one name) with `is_enabled`, risk and whether discovered; the MCP server's row |
| `versions`, `current` | `agent_versions` with their grants, in the order they committed; `agents.current_version` |
| `edit` | an administrator's session between reading a version and publishing the next |
| `run` | the row of `agent_runs`: state, checkpoint (next sequence number, iteration), frozen grants and permission |
| `trace` | `agent_run_events`, committed |
| `held` | `tool_executions` that needed approval, with how often each took effect |
| `work` | one record per session: the row as loaded, events and calls it has added, where the loop is, its decision, the row locks it holds, whether it has run the tool |

### Actions

`Start` opens a run; the loop is `Ask` (the model requests calls), `CallUnknown`,
`CallDenied`, `CallRuns`, `CallHeld`, `Answer`, `ModelFails`, `RunOut`, `Settle`.
`ReadRun`, `FindCall`, `Decide`, `Apply` are `approve` and `reject`;
`ReadToCancel` and `Cancel` are `cancel`. `Lock` takes the lock of a row an
UPDATE touches, `Commit` and `Conflict` are the ends of a session (the unique
index on run and sequence), `Abort` is a rollback, `Disconnect` a client that
closes its event stream: what was flushed commits. `DetectDeadlock` is
PostgreSQL choosing a victim. `AgentRegistry` contributes `RegisterTool`,
`UpdateTool`, `DeleteTool`, `RegisterServer`, `Discover`, `DeleteServer`,
`ReadCurrent`, `NextVersion`, `InsertVersion`, `Publish`, `AbandonEdit`.

### Properties

* `TraceGapless`: the committed trace reads 1, 2, 3, whoever wrote it.
* `EffectAtMostOnce`: a held call acts at most once among the sessions that
  survive, never when refused and never while pending.
* `WaitingIsAnswerable`: a waiting run has exactly one pending call, and its
  checkpoint is where the trace stops.
* `EndIsLast`: nothing follows the end of a trace, and a run that says COMPLETED or
  FAILED has an end.
* `VersionsNumbered`, `GrantsAreAlive`: versions count without a gap and the current
  one is the last; no published version grants a tool that is gone.
* `SessionsEnd` (liveness): every request ends, though a cancellation locks run and
  call in either order and an approver in one.

### Runs

| Run | Instance | Shows |
|---|---|---|
| `AgentRuns` | 3 sessions, 2 tools, 2 iterations, 2 calls a response, symmetric in sessions; `ServersOffer`; 2.0 million states | the run's four invariants while tools come and go |
| `AgentLive` | 2 sessions, 1 tool, 2 versions, 1 iteration of up to 2 calls; 0.54 million states | the registry's invariants and `SessionsEnd` |

Three sessions give two approvers and a canceller; the two iterations of `AgentRuns` a
run that suspends twice; two calls a response whose second call is dropped when the
first suspends. `ServersOffer` is a state constraint of `AgentRuns`: a server is registered
there only while no tool of another origin holds the name, because until then it
has nothing to discover and nothing to take with it. A second run would share nothing but the registry. Two
versions are the least that two editors can collide on.

Fairness is `SF_vars(Progress(s))`: a session's next step needs nobody outside
but the database. Strong, because a row lock may be taken by another session
in between, and PostgreSQL queues those who wait. People are not fair.

### Where the code and its documentation part

* `cancel` (`agent_runs.py:226`) writes from the copy it read: CANCELLED may be
  written over COMPLETED, and EXPIRED over a call that was approved and has acted.
  This is why `EffectAtMostOnce` allows EXPIRED for a call that ran.
* An approver whose session fails after the tool has acted leaves the call
  PENDING; a second approval acts again. The property counts surviving sessions.
* A suspended response drops its remaining tool calls.

### Tools, traces and chats

`MCToolCalls` evaluates four modules that a step of a run passes through.

`ToolCalls` (`ToolCallsChecked`, `SentChecked`): 112 tools, called with and without
approval by 4 kinds of callers, against about 140 things the far side may do. A call
reports success only if the tool said so; a registered tool never fails for what
registration could have seen; a call that was held and approved does what one that
was not held does; and arguments travel in one place at most.
`InternalTools` (`CalculatorChecked`, `DatesChecked`, `TextsChecked`,
`CatalogChecked`): expressions of up to 2 operations, a calendar of 9 days, texts of up to
5 characters. `Tracing` (`TracingChecked`): every state 7 operations reach with a
queue of 3 and batches of 2; an event is in the queue, in a batch, posted, lost or
dropped, exactly once, order is kept, no exception ends the drain. `AgentChat`
(`ChatAdmissionChecked`, `ChatAnswersChecked`): every set of scopes over 2 surfaces
and 2 models, 5 conversations, every trace a run can leave.

Divergences. `_definition` leaves the credential out of what the pipeline hands to an
executor (`tool_pipeline.py:230`), although `tool_executors.py:50` says it is injected
there; a DELETE sends its arguments nowhere (`:82`); an MCP answer that is JSON but no
object, or whose error is none, raises what only an approved call catches (`:323`).
`sum` is offered by the calculator and no expression can use it; a complex or very long
result, or a date beyond the calendar, raises where the tool means to refuse
(`:498`, `:567`).
`langfuse.py:11` promises "batch, retry and back off", and the queue is to ride out a
restart of the collector (`:39`); a batch has left the queue before it is posted and
never returns, so whatever is flushed meanwhile is lost; `stop`, "flush what is
queued" (`:69`), loses the batch under way and flushes one batch of those left. The
generation of a run may be dropped while its trace is kept, a cancelled run is not recorded,
and what flushes is no worker, as `settings.py:651` says, but a task of the API process.
A chat that is streamed always finishes with "stop" and an empty output says nothing;
the buffered one says "length" when the run did not complete, and a sentence when its output
is empty. A disabled agent ends a stream after its 200 and its first frame without
`[DONE]`, because `load_agent` does not look at the flag that `start` refuses.

## 6. Knowledge

An upload puts the original into object storage and commits a row; a worker
claims the oldest row with SKIP LOCKED, parses, writes chunk rows, upserts
vectors batch by batch and commits; deletions remove vectors, original and row,
in that order, in a request of their own. Neither store takes part in a
transaction.

### State

`doc` (the committed row with its chunk rows), `base` (the base's row), `coll` and
`vecs` (the collection and the vectors in it), `blob` (originals in object
storage), `wk` and `rq` (what a worker and a request hold). `tries` and `doomed`
remember which attempts were rolled back and which deletions were asked for.

### Actions

`Upload`, `PutObject`, `CommitUpload`; `ReadToDelete`, `DeleteVectors`,
`RemoveOriginal`, `DeleteRow`; `CreateBase`, `CommitBase`, `ReadBase`,
`DropCollection`, `DeleteBase`, `AbortRequest`. The worker: `Claim`, `Load`,
`LoadFails`, `Parse` and `Recognise` (OCR) with their outcomes, `NoPassages`,
`WriteChunks`, `EnsureCollection`, `EmbedBatch`, `Indexed`, `EmbedFails`,
`CommitIngest`, and `Interrupted` (a crash or a rollback at any point).

### Properties

* `IndexedIsSearchable`: of an INDEXED document nobody has asked to delete, a search
  can return every passage, whatever attempts failed before.
* `VectorsAccounted`: a vector without a chunk row belongs to an ingestion under way,
  to an attempt that was rolled back, or to a document somebody asked to delete.
* `OriginalStored`: the original is there before a worker can see the row.
* `QueueDrains` (liveness): a document leaves UPLOADED, unless one in the queue has
  lost its original to a deletion that did not finish.

`Knowledge` runs 2 documents of one content, 2 workers, 1 request at a time, 2
batches, 1 rolled-back attempt, faults of both stores and crashes; 0.68 million states. Two
documents of one content meet the duplicate check, two workers the claim, two
batches an ingestion that fails between them. Fairness is `WF_vars(WorkerSteps(w))`:
`run_forever` claims as long as the process lives.

Divergences: an `except` branch of the ingestion tick reads an attribute that the
rollback has expired, so a document whose original is missing is not marked FAILED
but stays at the head of the queue (hence the exception in `QueueDrains`). A
base's deletion that fails after dropping the collection leaves the base's row
without its collection; the reverse, which the docstring of `delete_base` rules
out, happens when a worker makes the collection again for a document it still holds.
Rolled-back attempts leave vectors that a search skips and nothing removes.

### Passages, memories and retrieval

`MCKnowledge` evaluates the functions around the protocol.

`Chunking` (`ChunkingChecked`): texts of up to 4 tokens and an awkward longer one, sizes 3
and 4, overlaps 0, 1 and 3. Every character that is not white space is in a passage, in
order, no passage is too large, words that fit are whole and every passage brings
something new, with the exceptions named below. `Memories` (`MemoriesChecked`,
`ThreadsChecked`): every store 2 operations reach, over 5 or 6 scopes of two tenants, one of a
person whose id is a wildcard, with 1 memory to an erasure; recall
returns what belongs to the person, agent and tenant asking; an erasure takes one listing,
leaves nothing of it to be recalled and takes no memory of others. That an erasure can leave
memories (`LeavesSome`) and take others' session values (`TakesOthers`) is checked too. `Retrieval`
(`RetrievalChecked`, `RunsRecallTheirPerson`): 2 bases, 4 points, every way one of them is
disabled, foreign, unreachable or names no row.

Divergences. A sentence as long as the budget after one that was cut emits an empty piece
(`chunking.py:117`); the cut looks for blanks only, so a word is cut where only a line
break stands before it, though the comment at `:107` keeps words intact. `forget_all`, "across all three layers"
(`memory.py:490`), leaves conversations, and, where no agent is named, the session keys
that name one; it lists 10,000 memories (`:509`) and leaves what is beyond them, though its
docstring says "Erase everything"; and `clear_session` puts ids into a glob pattern as they are
(`:181`), so an end user's id with a wildcard takes session values that are not in "this scope". `summarize_conversation` summarises the
newest messages, not "the *old* part" (`:274`). Recall applies its limit before
it drops what is expired or has lost its row, and so may return fewer than there are.
`gather`, "Never raises" (`retrieval.py:75`), passes on what an unreachable embedding
model raises, and the run is then told nothing, not even what is remembered.
`remember`, `append_message`, `set_session`, `summarize_conversation` and `delete_expired`
are called by nothing in the program.

## 7. Fleet synchronisation

Every interval one sweep asks every pollable node for its inventory and commits once
at its end; another job marks nodes OFFLINE that have not been seen; operators check
single nodes, register them, and start, stop and remove containers. All of it meets
in `nodes`, `gpus` and `containers`.

### State and actions

`at`, `agent`, `box` are the world: where each card is plugged in, whether an agent
answers, what Docker says of a container. `node`, `gpu`, `inv` are the committed
rows. `ses` is what a sweep or check has loaded and will write, `ctl` an operator's
container request, `mark` the staleness job between its read and its write.
`Move`, `AgentBecomes`, `BoxBecomes` and `TimePasses` change the world.
`BeginSweep`, `BeginCheck`, `Probe`, `Compare`, `Commit`, `CommitFails` and `Abort`
are `sync_nodes` and `sync_node`; `JudgeStale` and `MarkStale` the staleness job;
`Ask`, `Act`, `Denied`, `Record` an operator's container request.

### Properties

* `ComesBack`: a node whose agent is up is ONLINE again and again, though an older
  staleness mark may be written over a sweep, unless a card clashes.
* `SilentGoesOffline`: a node whose agent dies does not keep its status, even while
  every sweep fails.
* `InventoryConverges`: cards and containers of hosts that are up get rows that say
  what is there, whatever stale answers are committed in between.

`FleetSync` runs 2 nodes with a slot each, 2 cards (one still unknown), 2
containers on one host (one of them managed), 1 check session, 1 operator with all
commands, and 1 change of the world at any point; 0.79 million states. One change suffices,
because the liveness properties are about the time after the last one; two nodes are
the least between which a card can move under a sweep that has read one of
them. Fairness: the two jobs and time (`WF_vars` of `BeginSweep`, `Works(Sweep)`,
`Marks`, `TimePasses`), which the scheduler runs at their intervals with
timeouts on every probe; nothing for operators.

Divergences, both excluded by `Clash` and `BoxesKnown`: a card that takes the slot
another row still names fails the flush of the whole sweep, again every interval,
although the docstring of `sync_node` says a failing probe must not cost the
inventory; and a host that lists no container keeps the rows it has (`delete_missing`).
A sweep that updates a row an operator has removed meanwhile loses everything it saw.

### The node agent

`MCNodeAgent` evaluates what the fleet is told and how a host is told to act.

`HostContainers` (`ContainersChecked`, `StatsChecked`): 120 hosts of up to two
containers, and every pair of the 30 ways in which a call may meet them (Docker down, a
container gone between two calls, a link that is down or answers too late). What is not labelled
is never touched; stopping again after a lost answer ends it, deploying again after a
failure starts it once the platform has swept its own; a running status is backed by a running
container. `Probes` (`ProbesChecked`, `FakeIsHealthy`, `ColumnsRead`): every host of up to
2 cards under each probe, and every line of 8 cells. A host
whose driver answers is never given the fake unless it is asked for, and figures say
whether they are made up; DCGM only adds to nvidia-smi; an answer agrees with itself;
an alarm is a measured one.

Divergences. A container that vanishes during a listing is a `NotFound` the list
endpoint does not handle (`node-agent/app/api.py:225`). A network that is missing on create is reported as "no
such container", and a running one removed without force as Docker being
unavailable (`runtime/docker.py:83`). `image_exists` only asks whether Docker is there,
whatever its docstring says (`remote_runtime.py:156`). A deployment that FAILED keeps no
reference to a container that may exist, and the same name fails until somebody
removes it; `stop_model` answers STOPPED although the stop failed and nothing was removed.
The length check of a dmon row is off by one (`probes/dcgm.py:173`): a line one word short raises an
`IndexError`, and all cards answer 503. A cell that reads "NOT SUPPORTED" is two words and
moves the rest of the line; a figure the driver does not support becomes 0.0. Under
"auto" the fake is chosen for the life of the process if the driver does not answer when it starts, which
`probes/__init__.py:30` calls far worse than reporting none. `NodeAgentGpuProbe`,
`DockerService.create` and `get_status` are used by nothing.

## 8. Gateway, names and keys

`ApiKeys` is what `authenticate` reads; `ModelNames` what `resolve` reads;
`Gateway` composes the latter with calls. `Active(k)` of `ApiKeys` is the guard
that lets a call arrive, and `Deploys`, `Changes`, `Deleted` of `ModelNames` are what
`Deployments` does to a row as the gateway sees it.

### State and actions

`ApiKeys`: `key` (rows with expiry, revocation, replacement), `adm` (rotations and
revocations between read and commit), `now`; `granted` and `ended` remember what was
promised. `CreateKey`, `RotateRead`, `Mint`, `RotateCommit`, `RevokeRead`,
`RevokeCommit`, `Abort`, `Tick`.

`ModelNames`: `model`, `alias`, `dep`, and `adm` (an administrator's session between
its checks and its commit): `Register`, `ImportOllama`, `DeleteModel`, `CreateAlias`,
`UpdateAlias`, `DeleteAlias`, `LoadManifest`, `CommitAdmin` (with the cascade of the
foreign key), `AbortAdmin`.

`Gateway`: `bucket` (Redis counters with their expiry), `call`, `usage`, `passed`:
`Arrive`, `Count`, `FailOpen`, `Refused`, `Lookup`, `Choose`, `Completed`, `Spoken`,
`Embedded`, `Streamed`, `Disconnect`, `Record`, `Lost`, `Tick`.

### Properties

* `ActiveIsGranted`: whoever gets in with a key does so before the end that the first
  key of its chain of rotations was given, and never after its revocation.
* `RotatedKeyEnds` (liveness): a key that was replaced ends.
* `LimitHolds`: no window lets more calls through its counter than the limit, across
  expiry and outages of Redis. Calls that pass because Redis failed are not counted.
* `AccountedOnce`: a call that reached a runtime is accounted once, also when its
  client has gone.
* `CallableIsListed`: what can be called by a name is in the catalogue under it.
* `NothingDangles`: no alias and no deployment points at a model that is gone.

`ApiKeys` runs 3 keys, 2 administrators, grace periods 0 and 1, time 2; 0.84 million states:
two rotations of one key, or of a key and its replacement, against a revocation.
`Gateway` runs 2 calls under a limit of 1, 2 models, 2 names, 1 alias, 1 deployment,
2 administrators, 2 windows, symmetric; 1.5 million states: the second call is the one that
must be refused, the second name is an alias that shadows or is shadowed, and the second
administrator deletes the model that the first has just found, or registers the name the first
has found free. The constraint `OverlapFirst` bounds their overlap: both sessions may be
open at once as long as no call has arrived; later one at a time, where its commit
changes what a call is about to read. Calls read only what is committed and write
nothing an administrator reads, so two open sessions and a call differ from these
cases only in an order nobody sees. The theorems of section 11 are without the bound.
Fairness is `WF_vars(Tick)`: time passes.

Divergences: `register_model` never looks at aliases, so a model can be registered
under a name an alias already shadows; a disabled alias is invisible to `get_by_alias`, so
creating it again fails at the unique index; deleting a model with a settled deployment
fails at the foreign key although only active ones are refused with a message; a
revocation during a rotation leaves the replacement alive; two rotations of one key
write one expiry over the other, although `rotate_key` says it only ever moves
earlier.

## 9. Accounts

A person is the subject a provider vouches for. `dir` is what providers say of
people, `user` the rows with their roles, `sess` the requests, `link` the OIDC states
in Redis; `signed`, `appointed`, `off` remember who signed in as whom, whom an
administrator made SUPER_ADMIN, and who was disabled. `PasswordSignIn` (LDAP) and
`Redirects`, `RedirectSignIn`, `Forgotten` (OIDC) bring an identity; `FindSubject`,
`FindName`, `Provision` are `FederationService.resolve`; `CreateUser`, `SetActive`,
`AssignRoles`, `SeedAdmin` the administration; `Commit` writes the columns and the
differences of roles a session decided on; `Enters`, `Leaves` are the directory. `FindName` leaves out one branch of `resolve`, an
account of the same provider that has no subject yet (`federation.py:143`): nothing in
the program makes such an account, because `create_user` always makes local ones.

* `OneAccountForLife`: whoever has ever signed in did so to one account, and nobody
  else ever did to that one. It relates sign-ins that may be far apart: a row that
  the unique indexes let in must still be found, and not be made again or claimed, when the
  directory has given the person another name, or the name to another person.
* `SignsInAsSelf`: nobody signs in to an account that is another's, though names are
  reassigned.
* `DisabledStays`: a sign-in that began before a disable does not undo it.
* `SuperIsAppointed`: SUPER_ADMIN comes only from an administrator, whatever a
  directory's groups say.

`Accounts` runs 2 people (one LDAP, one OIDC), 2 names (one is the bootstrap
administrator's), 2 accounts, 2 sessions, 1 link, symmetric; 1.3 million states. Two people
and two names give every reassignment; the bootstrap name one that must not be
claimed.

Divergences: `failed_login_count` is rolled back with the refusal it belongs to;
concurrent assignments of roles merge; `LdapAuthProvider` returns None when the directory
is unreachable, although `_try_external` says otherwise.

`MCAccounts` also evaluates two small modules that requests of every kind pass through.

`AuditTrail` (`AuditChecked`, `PagesChecked`, `TiesAreShownTwice`): requests of up to 3
steps with every fault, with and without a session factory; pages over 4 rows of any
times and every filter. The log claims nothing that was rolled back and keeps what was
refused although its request is rolled back; pages are what matches, newest first. Rows of
one transaction share `now()`, so two pages may both show one of them and neither the other; a
long request's row appears late under an early time, which a reader that polls with
`since` misses; and a page and its total are two statements.
`Readiness` (`ReadinessChecked`): 2 dependencies that answer, raise or hang, a deadline
of 2, every set of required names, one of them misspelt, which is ignored silently.

## 10. Voice

A socket reads one frame after another; a turn runs beside it as a task in two
transactions: what was said with the run that answers it, then the spoken answer. `row`
and `msgs` are the committed session and messages, `sock` a connection's handler,
`turn` a task with the session row it read. `Connect`, `OnAudio`, `AudioStart`,
`AudioEnd`, `Interrupt`, `SocketEnds` are frames; `Connected`, `Interrupted`,
`CloseRead`, `CloseSession` what the handler writes; `Reads`, `Locks`, `Heard`,
`NotHeard`, `AgentAnswers`, `CommitQuestion`, `Speaks`, `CommitAnswer`, `TurnFails` a turn;
`Create`, `Delete`, `Crash`.

* `MessagesNumbered`: messages read 1, 2, 3 through interruptions, several sockets and
  crashes, unless a client starts a turn before another has ended. The number is
  counted on a copy read before the lock, so overlapping turns do collide.
* `NobodyHangs` (liveness): turns, interruptions and closings that want one row lock
  all get through.

`Voice` runs 2 sockets and 2 turns; 0.24 million states. Each pair of writers of the row occurs:
turn and turn, turn and handler, handler and handler. Fairness is weak for each
turn's and each handler's own steps: tasks run, and speech, models and synthesis have
timeouts.

Divergences: a session that was closed is opened again by connecting, or by a turn
whose second transaction commits LISTENING after the close; a run that failed, or
waits for approval, leaves the session THINKING; an interrupted older turn's run
stays RUNNING; a crash leaves the session open.

## 11. Proofs

`DeploymentsProofs` proves, for every set of deployments, devices, hosts and
clients, every `HostOf`, `Ops` and `Faults` (assumption `PlatformAssumption`:
devices have hosts, `None` is no deployment and no node):

| Theorem | Statement |
|---|---|
| `TypeCorrect` | `Spec => []TypeOK` |
| `Exclusion` | `Spec => []GpusExclusive` |
| `Backing` | `Spec => []ClaimBacksRow` |
| `Refinement` | `Spec => ImplementsClaims` |
| `NothingStranded` | `Spec => []NoStrandedClaim`, if `"worker_exception"` is not in `Faults` |
| `ActiveStaysHeld` | `Spec => []ActiveHoldsGpus`, if neither `"stop"` nor `"restart"` is in `Ops` |
| `RoutableStaysServing` | `Spec => []RoutableIsServing`, if neither `"restart"` nor `"reconcile"` is in `Ops` and `"crash"` is not in `Faults` |

The argument. None of these is inductive, because commits write copies of
unbounded age. `ClaimInv` adds how a copy must relate to the row and the claims
of the moment of its commit (`Fits`): it was loaded after the reservation was made and
never makes one; what it freed it no longer names; and if the row still names a
reservation which the copy dropped, the copy freed exactly the claims there are.
`FlushFits` is the central lemma: committing a copy that fits leaves the row
sound (`Sound`), removes its claims all or none, and every other copy of the
same row still fits. From it, `Evolves` describes what any commit does to a row;
`TickCommit`, `RequestCommit` and `DeleteNode` are each shown to satisfy it
(`...Evolves`), and one lemma (`EvolveKeeps`) preserves `ClaimInv` for all of
them, while another (`EvolveRefines`) maps them to `GiveBack` of `GpuClaims`. Only
`Reserve` and `AttachExternal` are different: there the row did not exist, so
nobody has a copy of it. `NothingStranded` adds `StrandInv`: a copy that still
names the reservation says that the deployment is live. `ClaimInv` and
`StrandInv` were also checked with TLC on the instances above.

The last two hold only under restrictions because the code keeps them only then:
TLC violates `ActiveHoldsGpus` as soon as stops or restarts are allowed, and
`RoutableIsServing` with any one of restarts, reconciliation and crashes
(section 3, divergences). The theorems then cover everything else: every other request
and fault, and any number of deployments and operators, where `DepLive` and
`DepRace` run a few.
For `ActiveStaysHeld` the strengthening `HoldInv` says that the worker's tick is the
only session that changes a row before it is deleted, so the copy it commits is the
row, and that a copy which has not failed has released nothing. For
`RoutableStaysServing`, `ServeInv` says that a container is made only for a row
without one, and taken away only by a stop or delete that read the row with
it; so a row with container and address either serves, or a stop is about to commit that
clears the address. Both were checked with TLC on two deployments, two devices and two
operators before they were proved.

Of placement it proves `PlansFit` and `IdlersFirst`, for every set of cards and samples. A
plan takes the devices whose rank is below the number asked for. That these are exactly so
many is the heart of it: the devices before one that is before another are fewer, so ranks
differ, and ranks that differ and stay below the number of devices take every value
there is. That a plan exists whenever a node has enough devices (`PlansFound`) stays with
TLC: the least of the averages of nodes is an induction over the nodes.

`NodeEnrollmentProofs` proves, for every set of enrolments, names, nodes and
concurrent requests and every positive limit (`EnrollmentAssumption`: `None` is
none of the ids):

| Theorem | Statement |
|---|---|
| `TypesCorrect` | `Spec => []TypeOK` |
| `TokensAdmitOnce` | `Spec => ImplementsTickets` |
| `SpentTokensHaveNodes` | `Spec => []SpentHasNode` |
| `NamesUnique` | `Spec => []OnePerName` |
| `OpenTokensHaveAttempts` | `Spec => []OpenHasAttemptsLeft` |

The argument. A request acts on what it loaded before the probe, so the
invariant `Inv` says what such a copy is still worth: `Remembers` (names never
change, and as long as the row is open it points at the node it pointed at
then), `RowSound` (a row agrees with the audit log and with the node it points
at), and `LockSound` (a row changed and not committed is open, and belongs to one
session). `Evolves` says how a step may change the tables under a request that
takes no part in it: nothing is reborn, names stay, what is open was open.
Each action is shown to satisfy it, and `RemembersKept` and `LocksKept` turn it into the
invariant of all other requests; what is left is the acting request
(`QuietKeeps`, `CommitKeeps`, `CommitAloneKeeps`, `RewriteKeeps`). The refinement
follows from `Inv`: `Enrol` spends a ticket because the row it holds is PENDING
(`LockSound`) and thus unused (`RowSound`); `CreateInsert` issues one and voids
what it swept; all else voids or stutters (`ClosingVoids`). `NamesUnique`
and `OpenTokensHaveAttempts` are inductive on top of `Inv`. `Inv` and
`Evolves` were also checked with TLC.

`AgentRunsProofs` begins with the registry that runs are composed with, and proves
for every set of tools, sessions and versions `RegistryTypes`, `VersionsStayNumbered`
and `GrantsStayAlive`. The argument: an
edit that has read or numbered may be out of date, but one that has *inserted* its
row keeps others off that number (the unique index) and keeps the tools it grants
alive (the foreign keys), until it commits.

Of runs it proves, for every number of sessions and steps
(`NoneAssumption`: `None` is neither a row nor a state):

| Theorem | Statement |
|---|---|
| `RunTypes` | `Spec => []TypeOK` |
| `TraceStaysGapless` | `Spec => []TraceGapless` |
| `EffectStaysAtMostOnce` | `Spec => []EffectAtMostOnce` |
| `WaitingStaysAnswerable` | `Spec => []WaitingIsAnswerable` |
| `EndStaysLast` | `Spec => []EndIsLast` |

The argument for the trace (`TraceInv`) is that one session
writes at a time: a session that holds events got its first number past the unique
index when nothing committed and nothing in flight had it, and that number is the one
after the committed trace (`OneWriter`, `Writes`). A second session can only want a
number that is committed or in flight, because a checkpoint never lies beyond the
trace (`Sound`, `Checkpoints`); so it waits, then conflicts. A commit appends exactly
what its session numbered.

The other three rest on `AnswersInv`, over `TraceInv`. A session acts on the run it
read, and what it read still holds as long as its checkpoint is the end of the
committed trace (`Current`): every commit moves that end, except a cancellation, which
only takes the pending call away. So of two people who answer one call, the second to
commit is no longer current and conflicts; a call that ran is nobody else's to run; and a
run that waits has one pending call where its trace stops. `AnswersInv` was checked with
TLC before it was proved.

The same module ends with what becomes of one tool call, for every tool, caller and answer of
its far side (`MaxChars` is at least 1): `RefusedRunsNothing`, `SuccessIsSaid`,
`ApprovedAsUnheld`, `ValidIsRunnable` and `CredentialStaysBehind`. The proofs found an
error of the model, not of the code: `Rest`, `Internal` and `Denial` had `CASE` guards that
overlapped, of which TLC takes the first and TLA+ any; they are disjoint now, in the
order of the code's returns.

Last come the events that a run leaves for the collector of traces, for every size of queue and
batch: `EventsHaveOneFate` and `GenerationsHaveTraces`. `Fated` says where an event may be, that
it is in one place only, and that what is in the pipe is there in the order of recording; an
answer that is lost loses a whole batch and no order.

`KnowledgeProofs` proves, for every set of documents, workers and requests and every
number of batches and attempts (`KnowledgeAssumption`, and `NoneAssumption`: `None` is
no document), `KnowledgeTypes`, `IndexedStaysSearchable`, `VectorsStayAccounted` and
`OriginalStaysStored`. Neither store is in the transaction, so the invariant
(`KnowledgeInv`) ties each to what a session holds: vectors to the one worker whose claim
locks the row (`OneWorkerEach`, `Fits`: as long as nobody asked to delete the document, what
the worker has upserted is there), the original to the one upload that has the new id
(`OneUploadEach`), and what a committed row says to what its worker had at the commit.

Of memories it proves, for every person, every store and whichever of the two stores does
not answer: `MemoriesStayMatched`, `RecallIsOwn`, `ErasureIsBounded` and `ThreadsStayCounted`.
`Matched` carries them: no two vectors share an id, and the vector a row names is of the row's
own person, so that a search, which only sees vectors, finds nobody else's rows.
`ErasureIsBounded` is for every bound on a listing and every way patterns match names
(`EraseAtOnce`, `KeyName` and `Matches` are parameters): it says what one erasure takes and what
it leaves, not that nothing is left. Ids are
taken to be fresh when they are made, as UUIDs are.

`FleetVoiceProofs` holds three sets of theorems. Of the fleet, `FleetTypes`, for
every fleet and every number of sessions and operators; the rest of section 7's properties are
liveness.

Of voice, `VoiceTypes` and `MessagesStayNumbered`, for every number of sockets and turns. A
turn's question and answer are numbered from a count that it read in the same
transaction, and the row's own count moves with them, but a turn may be interrupted, fail or
die with the process between the two. The invariant (`VoiceInv`) says that, as long as no turn
was begun during another, one turn at most is under way (`OneTurn`), the row counts the
messages that are there (`RowCounts`), and what the turn has read is still that count
(`TurnsCount`). It was checked with TLC (235,699 states, two sockets and two turns)
before it was proved.

Of a container request, five theorems about the operators of `HostContainers`, for every
host (`IsHost`: Docker gives an id once) and every way the calls may end:
`DeployingLeavesNoStray`, `ForeignUntouched` (where `allow_unmanaged_control` is off),
`StoppingAgainEnds`, `OperatorsKnow` and `OursAreListed`. They go along the layers: what
Docker makes of a verb (`LeftIs`), what the agent makes of that (`ControlIs`), what the
client can conclude from an answer (`RequestIs`), and so what any request by an id leaves
alone (`AskSpares`). `StoppingAgainEnds` says what may be relied on when a stop is
repeated; one attempt alone may report as stopped a container that still runs
(`compute_backend.py:127`).

`ApiKeysProofs` proves `KeysTyped` and `ActiveStaysGranted`, for every number of keys and
administrators and every grace period. The invariant relates a key's expiry, the copy a
rotation holds of it, and the replacement it has minted, to what the first key of the chain
was granted: none lies beyond it.

`GatewayProofs` proves `GatewayTypes`, `LimitAlwaysHolds`, `AlwaysAccountedOnce`,
`NothingEverDangles` and `CallableAlwaysListed`, for every limit, number of windows,
calls, models, aliases and deployments. The invariant has two halves. `NamesInv`: an
alias or deployment points at a model that is there. An administrator checked that
earlier, but the foreign keys let no commit through that another's deletion has made
untrue, and a manifest's alias is for the manifest's own model. `CallsInv`: as long
as calls of a window may still come, its counter exists and counts at least the calls it
let through; it expires only after that (`WindowsSound`), because a call is at most one
window late at its counter (`CallSound`).

`AccountsProofs` proves `AccountTypes`, `AccountsAreForLife`, `EverySignInIsOnesOwn`,
`DisabledAccountsStay` and `SuperStaysAppointed`, for every set of people, names,
accounts and requests (`AccountsAssumption`). A request decides on rows it read
earlier; `AccountsInv` says what they are still worth. A row's name and subject are
written once, when it is made, and until then its id is one request's alone
(`OneMakerEach`, `Blank`), and two rows never share either (`OneAccountEach`); so who has
signed in is the subject of that row, then and now. What is written later is a difference of roles or a flag,
never the row as it was read, and the difference of a sign-in never holds SUPER_ADMIN
(`Sound`). `AccountsInv` was checked with TLC on the instance of section 9.

Of the audit log the same module proves `TrailSharesFate`, for every request: what it staged
is in the log if and only if its changes are kept, and what was committed alone, above all
a refusal, is there either way. The theorem follows a request through its operations; that
who may not is refused before anything is kept is part of it.

Type invariants are proved rather than run, all of them. Every safety invariant and every
refinement that a run checks is a theorem.

Model-checked only: what is computed without a state machine and has no theorem above (the
other `ASSUME`s of the MC modules), which are enumerations; and every liveness property
(`PendingSettles`, `RequestsEnd`, `SessionsEnd`, `QueueDrains`, `ComesBack`,
`SilentGoesOffline`, `InventoryConverges`, `RotatedKeyEnds`, `NobodyHangs`), which is beyond
the prover.

## 12. Not modelled

* Frontends, the MCP bridge, the mock runtime, fixtures, packaging, migrations and
  seeds of demonstration data: no logic of the platform's core.
* Dashboards, monitoring pages, skills and prompt definitions: they read, aggregate or store one row.
* Permission tables and the wiring of requests (`api/deps.py`), settings and the command line:
  constants and construction.
* Document parsing, OCR and prompt formatting: pure data, abstracted to their outcomes in
  `Knowledge` and `AgentRuns`.
* Telemetry history and health events, the facts a node agent reports of its host,
  and fencing of devices by hand.
* The expiry of session memory, which is the store's, and the redaction of audit
  details.

The model checker also leaves open what the sections above exclude by name in a
property (`Clash`, `BoxesKnown`, overlapping turns, lost originals, unexpected
exceptions): each of these is a case in which the code does not keep the property,
described there among the divergences.
