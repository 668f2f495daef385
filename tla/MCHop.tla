------------------------------- MODULE MCHop -------------------------------
(* Investigations over the APIs of two nodes on a small instance.           *)
EXTENDS Hop

CONSTANTS n1, n2

\* Requests of one node may be late or repeated, or hops go to two nodes.
MCWorlds ==
  {[plans |-> {<<n1>>}, late |-> TRUE],
   [plans |-> {<<n1, n2>>}, late |-> FALSE]}
=============================================================================
