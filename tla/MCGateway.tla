----------------------------- MODULE MCGateway -----------------------------
(***************************************************************************)
(* Small instances of Gateway for TLC: administrators who overlap, calls   *)
(* that overlap, and calls between what an administrator reads and commits.*)
(***************************************************************************)
EXTENDS Gateway, FiniteSets, TLC

Symmetry == Permutations(Name) \cup Permutations(Model) \cup Permutations(Call) \cup Permutations(Admin)

Open == {s \in Admin : adm[s] # Idle}
Reading(c) == At(c, "name") \/ At(c, "served")

\* Bound: sessions overlap before the first call.  From then on one at a time is open,
\* where its commit would change what some call reads: a call reads only what was
\* committed and writes nothing an administrator reads, so elsewhere their order is
\* of no consequence.
OverlapFirst ==
    \/ \A c \in Call : At(c, "new")
    \/ Open = {}
    \/ /\ Cardinality(Open) = 1 /\ \A s \in Open : Fits(adm[s])
       /\ \E c \in Call : Reading(c)
       /\ \A c \in Call : Reading(c) \/ At(c, "new") \/ At(c, "over")
=============================================================================
