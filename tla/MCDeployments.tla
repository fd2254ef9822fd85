--------------------------- MODULE MCDeployments ---------------------------
(***************************************************************************)
(* Small instances of Deployments for TLC.                                 *)
(***************************************************************************)
EXTENDS Deployments, TLC

\* All devices on one host.
OneHost == [g \in Gpu |-> CHOOSE n \in Node : TRUE]

\* Every host has a device (used without symmetry of devices).
EachHost == CHOOSE f \in [Gpu -> Node] : \A n \in Node : \E g \in Gpu : f[g] = n

Symmetry == Permutations(Dep) \cup Permutations(Gpu) \cup Permutations(Client)
SymmetryOnHosts == Permutations(Dep) \cup Permutations(Client)
=============================================================================
