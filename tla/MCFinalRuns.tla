---------------------------- MODULE MCFinalRuns ----------------------------
(* Two runs of different priority, two clients, and two events from outside.          *)
EXTENDS FinalRuns

CONSTANTS x1, x2

MCRank == [r \in {x1, x2} |-> IF r = x1 THEN 0 ELSE 1]
=============================================================================
