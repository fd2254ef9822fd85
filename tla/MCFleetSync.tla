---------------------------- MODULE MCFleetSync ----------------------------
(***************************************************************************)
(* A small instance of FleetSync for TLC.                                  *)
(***************************************************************************)
EXTENDS FleetSync

\* All containers on one host.
OneHost == [b \in Box |-> CHOOSE n \in Node : TRUE]
=============================================================================
