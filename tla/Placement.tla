----------------------------- MODULE Placement -----------------------------
(***************************************************************************)
(* Which devices a deployment is planned on (services/scheduler.py, with   *)
(* _pick_node and _place of services/deployment.py): a pure choice over    *)
(* the inventory, the latest telemetry and the committed claims.  That the *)
(* choice still holds when it is made is the index's business, in module   *)
(* Deployments, where any free devices of one node may be planned.         *)
(* A device is [node, index, total, used, util, reserved]; a request is    *)
(* [pin, gpus, count, need]: the pinned node as a set of at most one, the  *)
(* explicit indices in the order given, how many devices, and the memory   *)
(* each must have free.  A plan is [node, gpus]; none is a refusal.        *)
(* Left out: wording, and which of equally loaded nodes comes first.       *)
(***************************************************************************)
EXTENDS Naturals, Sequences, FiniteSets, FiniteSetsExt

\* GpuResource.memory_free_mib: telemetry may say more than there is.
MemoryFree(g) == IF g.used < g.total THEN g.total - g.used ELSE 0

OnNode(devices, n) == {g \in devices : g.node = n}
Nodes(devices) == {g.node : g \in devices}

----------------------------------------------------------------------------
(* What is available.                                                      *)

\* NodeRepository.list_pollable: any status; a label disables a node.
Pollable(node) == {n \in DOMAIN node : ~node[n].disabled}

\* _pick_node: refused, or the nodes whose devices are looked at.
Picked(node, pin) ==
    IF pin = {} THEN {Pollable(node)}
    ELSE {{n} : n \in {m \in pin \cap DOMAIN node : node[m].status = "ONLINE"}}

\* free_indices: no live claim on the index.
FreeIndices(cards, claimed, n) == {c.index : c \in OnNode(cards, n)} \ claimed[n]

\* gpu_resources_for: a card without a sample counts as idle and empty.
Resources(cards, sample, claimed, ns) ==
    {[node |-> c.node, index |-> c.index, total |-> c.total,
      used |-> IF c \in DOMAIN sample THEN sample[c].used ELSE 0,
      util |-> IF c \in DOMAIN sample THEN sample[c].util ELSE 0,
      reserved |-> c.index \notin FreeIndices(cards, claimed, c.node)] :
        c \in {d \in cards : d.node \in ns}}

----------------------------------------------------------------------------
(* The choice.                                                             *)

Usable(g, r) == ~g.reserved /\ MemoryFree(g) >= r.need

\* by_node, narrowed to the pinned node.
Fitting(r, devices) ==
    LET usable == {g \in devices : Usable(g, r)} IN
    {n \in Nodes(usable) : /\ r.pin = {} \/ n \in r.pin
                           /\ Cardinality(OnNode(usable, n)) >= r.count}

\* The sum of the loads of a set of devices.
Load(devices) == MapThenSumSet(LAMBDA g : g.util, devices)

\* The least loaded on average: sums are compared across the sizes.
LeastLoaded(r, devices) ==
    LET On(n) == {g \in OnNode(devices, n) : Usable(g, r)} IN
    {n \in Fitting(r, devices) : \A m \in Fitting(r, devices) :
        Load(On(n)) * Cardinality(On(m)) <= Load(On(m)) * Cardinality(On(n))}

\* sorted(...)[: gpu_count], by load and then by index.
Before(g, h) == g.util < h.util \/ (g.util = h.util /\ g.index < h.index)
Chosen(r, devices, n) ==
    LET on == {g \in OnNode(devices, n) : Usable(g, r)} IN
    {g.index : g \in {h \in on : Cardinality({k \in on : Before(k, h)}) < r.count}}

PlanAuto(r, devices) ==
    {[node |-> n, gpus |-> Chosen(r, devices, n)] : n \in LeastLoaded(r, devices)}

\* _plan_explicit: the operator's indices, if all are there, free and large enough.
PlanExplicit(r, devices) ==
    {[node |-> n, gpus |-> {r.gpus[i] : i \in DOMAIN r.gpus}] :
        n \in {m \in r.pin : \A i \in DOMAIN r.gpus :
                  \E g \in OnNode(devices, m) : g.index = r.gpus[i] /\ Usable(g, r)}}

Plan(r, devices) == IF r.gpus # <<>> THEN PlanExplicit(r, devices) ELSE PlanAuto(r, devices)

\* _explain_failure: per node of those looked at, how many devices would do.
Explained(r, devices) ==
    [n \in Nodes(devices) |->
       [usable |-> Cardinality({g \in OnNode(devices, n) : Usable(g, r)}),
        total |-> Cardinality(OnNode(devices, n)),
        reserved |-> Cardinality({g \in OnNode(devices, n) : g.reserved})]]

\* GpuService.reserve, before it inserts: a device named twice is refused there.
Reservable(r) == \A i, j \in DOMAIN r.gpus : r.gpus[i] = r.gpus[j] => i = j

\* _place, for a runtime that needs devices: what request_deployment may reserve.
Placed(r, node, cards, sample, claimed) ==
    LET req == [r EXCEPT !.count = IF r.gpus # <<>> THEN Len(r.gpus) ELSE r.count] IN
    UNION {Plan(req, Resources(cards, sample, claimed, ns)) : ns \in Picked(node, r.pin)}
=============================================================================
