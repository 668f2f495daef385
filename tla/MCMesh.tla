------------------------------- MODULE MCMesh -------------------------------
(* One incident on a small instance: two planned nodes, one or two        *)
(* techniques, two concurrent operators and a bounded number of crashes.  *)
EXTENDS Mesh
=============================================================================
