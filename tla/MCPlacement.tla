---------------------------- MODULE MCPlacement ----------------------------
(***************************************************************************)
(* The choice of devices that MCDeployments leaves open, checked on every  *)
(* fleet of three small cards on two nodes (two on the first): loads 0 and *)
(* 1, memory full or free, any of them claimed, any node pinned.           *)
(***************************************************************************)
EXTENDS MCDeployments, Naturals, FiniteSets, Sequences

P == INSTANCE Placement

Cards == {[node |-> n, index |-> i, total |-> 2] : n \in {1}, i \in {0, 1}}
         \cup {[node |-> 2, index |-> 0, total |-> 2]}

Fleet == [{1, 2} -> [disabled: BOOLEAN, status: {"ONLINE", "OFFLINE"}]]

\* Samples: one card may have none.
Samples == UNION {[S -> [used: {0, 3}, util: {0, 1}]] :
                    S \in {Cards} \cup {Cards \ {c} : c \in Cards}}

Claimings == [{1, 2} -> SUBSET {0, 1}]

Requests ==
    [pin: {{}, {1}, {2}}, gpus: {<<>>}, count: {1, 2}, need: {1}]
    \cup [pin: {{}, {1}}, gpus: {<<0>>, <<1, 0>>, <<0, 0>>}, count: {1}, need: {1}]

AllOn == [n \in {1, 2} |-> [disabled |-> FALSE, status |-> "ONLINE"]]

\* What the platform knows of a card lets it be used.
Fit(c, r, sample, claimed) ==
    /\ c.index \notin claimed[c.node]
    /\ r.need <= IF c \in DOMAIN sample
                 THEN IF sample[c].used > c.total THEN 0 ELSE c.total - sample[c].used
                 ELSE c.total

FitOn(n, r, sample, claimed) == {c \in Cards : c.node = n /\ Fit(c, r, sample, claimed)}

Asked(r) == IF r.gpus = <<>> THEN r.count ELSE Len(r.gpus)

\* A plan names as many devices as asked for, all of one node, all of them fit
\* (plan, _plan_explicit), unless a device is named twice, which reserve refuses.
PlansFit(r, sample, claimed) ==
    \A p \in P!Placed(r, AllOn, Cards, sample, claimed) :
       /\ r.pin = {} \/ p.node \in r.pin
       /\ p.gpus \subseteq {c.index : c \in FitOn(p.node, r, sample, claimed)}
       /\ P!Reservable(r) => Cardinality(p.gpus) = Asked(r)

\* Whoever leaves the choice to the scheduler gets a plan whenever a node has
\* enough devices, and else is told of each node that it has not
\* (plan, _explain_failure).
PlansFound(r, sample, claimed) ==
    LET looked == IF r.pin = {} THEN {1, 2} ELSE r.pin
        plans == P!Placed(r, AllOn, Cards, sample, claimed)
        devices == P!Resources(Cards, sample, claimed, looked) IN
    r.gpus = <<>> =>
       /\ plans # {} <=>
             \E n \in looked : Cardinality(FitOn(n, r, sample, claimed)) >= r.count
       /\ plans = {} => \A n \in looked : P!Explained(r, devices)[n].usable < r.count

\* No busier device is taken while an idler one of the node fits.
PlansIdle(r, sample, claimed) ==
    LET Busy(c) == IF c \in DOMAIN sample THEN sample[c].util ELSE 0 IN
    r.gpus = <<>> =>
       \A p \in P!Placed(r, AllOn, Cards, sample, claimed) :
          \A c, d \in FitOn(p.node, r, sample, claimed) :
             c.index \in p.gpus /\ d.index \notin p.gpus => Busy(c) <= Busy(d)

ASSUME PlacementChecked ==
    \A r \in Requests, sample \in Samples, claimed \in Claimings :
       /\ PlansFit(r, sample, claimed)
       /\ PlansFound(r, sample, claimed)
       /\ PlansIdle(r, sample, claimed)

\* A pinned node must be there, enabled or not, and ONLINE; else only disabled
\* nodes are left out (_pick_node, list_pollable).
ASSUME PinsChecked ==
    \A fleet \in Fleet, pin \in {{}, {1}, {3}} :
       LET sets == P!Picked(fleet, pin) IN
       /\ pin = {} => sets = {{n \in {1, 2} : ~fleet[n].disabled}}
       /\ pin = {1} => (sets = {{1}} <=> fleet[1].status = "ONLINE")
       /\ pin = {3} => sets = {}
=============================================================================
