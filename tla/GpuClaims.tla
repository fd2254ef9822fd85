----------------------------- MODULE GpuClaims -----------------------------
(***************************************************************************)
(* What the platform promises about GPUs, with the database, the worker    *)
(* and the agents left out: every deployment takes at most one lease in    *)
(* its life, a lease is granted whole and only on devices nobody leases,   *)
(* it is given back whole, and it is never regained.                       *)
(*                                                                         *)
(* Deployments.tla implements this module (see Claims there): a lease is   *)
(* the set of gpu_allocations rows of one reservation with released_at     *)
(* NULL, which the partial unique index uq_gpu_allocations_active guards.  *)
(***************************************************************************)
CONSTANTS Dep,   \* deployments (one reservation each)
          Gpu    \* (node, device index) pairs

VARIABLE lease   \* [Dep -> Lease]

Lease == [phase : {"unused", "held", "released"}, gpus : SUBSET Gpu]

NoLease(phase) == [phase |-> phase, gpus |-> {}]

TypeOK == lease \in [Dep -> Lease]

Init == lease = [d \in Dep |-> NoLease("unused")]

\* Devices somebody leases.
Leased == UNION {lease[d].gpus : d \in Dep}

\* A deployment is placed. The devices are granted all together or not at all.
Grant(d, gpus) ==
    /\ lease[d].phase = "unused"
    /\ gpus # {}
    /\ gpus \cap Leased = {}
    /\ lease' = [lease EXCEPT ![d] = [phase |-> "held", gpus |-> gpus]]

\* A deployment that needs no device (mock and external runtimes) never leases.
Decline(d) ==
    /\ lease[d].phase = "unused"
    /\ lease' = [lease EXCEPT ![d] = NoLease("released")]

\* Leases are given back whole. One database transaction may end several.
GiveBack(deps) ==
    /\ \A d \in deps : lease[d].phase = "held"
    /\ lease' = [d \in Dep |-> IF d \in deps THEN NoLease("released") ELSE lease[d]]

Next ==
    \/ \E d \in Dep, gpus \in SUBSET Gpu : Grant(d, gpus)
    \/ \E d \in Dep : Decline(d)
    \/ \E deps \in SUBSET Dep : GiveBack(deps)

Spec == Init /\ [][Next]_lease

-----------------------------------------------------------------------------
\* No device is in two leases (scheduler.py reserve, uq_gpu_allocations_active).
Exclusive == \A d, e \in Dep : d # e => lease[d].gpus \cap lease[e].gpus = {}
=============================================================================
