----------------------------- MODULE MCPipeline -----------------------------
(* Three alerts of one site: the first two belong together, the third ends *)
(* more than delta_t after them; or all three belong to other incidents.   *)
EXTENDS Pipeline, TLC

CONSTANTS m1, m2, m3

MCEnd == m1 :> 0 @@ m2 :> 1 @@ m3 :> 3

MCEndApart == m1 :> 0 @@ m2 :> 2 @@ m3 :> 4
=============================================================================
