---------------------------- MODULE MCFederation ----------------------------
(* Two nodes: a's budget was calibrated for three rounds of at most two    *)
(* steps, b's for fewer, so b is exhausted on the way.                     *)
EXTENDS Federation, TLC

CONSTANTS a, b

MCBudget == a :> 8 @@ b :> 5
=============================================================================
