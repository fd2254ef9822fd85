----------------------------- MODULE MCAgentRuns -----------------------------
(***************************************************************************)
(* Small instances of AgentRuns for TLC.                                   *)
(***************************************************************************)
EXTENDS AgentRuns, TLC

Symmetry == Permutations(Sess)

\* Bound of AgentRuns: a server is registered only while no tool of another origin holds
\* the name; until then it has nothing to discover and nothing to take with it.
ServersOffer == server => \A t \in Here : tool[t].found
=============================================================================
