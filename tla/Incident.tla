------------------------------ MODULE Incident ------------------------------
(***************************************************************************)
(* What the mesh promises for one incident, without agents, hops, tables   *)
(* or crashes: the incident is opened once, one verdict is reached and     *)
(* never revised, every action of the verdict is recorded once and         *)
(* announced once, and the incident is completed only when all of them     *)
(* are announced (mesh/graph.py and mesh/dispatcher.py, the module         *)
(* docstrings).  Mesh.tla is the detailed specification that implements it.*)
(***************************************************************************)
CONSTANTS
  Action,      \* action types
  Undecided

VARIABLES
  stage,      \* "none", "open", "abstained" or "completed"
  verdict,    \* Undecided, or the actions to be taken (none: abstain)
  recorded,   \* actions with a row
  announced   \* actions published on the site's topic

ivars == <<stage, verdict, recorded, announced>>

IInit ==
  /\ stage = "none"
  /\ verdict = Undecided
  /\ recorded = {}
  /\ announced = {}

IOpen ==
  /\ stage = "none"
  /\ stage' = "open"
  /\ UNCHANGED <<verdict, recorded, announced>>

IDecide ==
  /\ stage = "open"
  /\ verdict = Undecided
  /\ \E V \in SUBSET Action : verdict' = V
  /\ UNCHANGED <<stage, recorded, announced>>

IRecord ==
  /\ stage = "open"
  /\ verdict # Undecided
  /\ \E a \in verdict \ recorded : recorded' = recorded \cup {a}
  /\ UNCHANGED <<stage, verdict, announced>>

IAnnounce ==
  /\ stage = "open"
  /\ \E a \in recorded \ announced : announced' = announced \cup {a}
  /\ UNCHANGED <<stage, verdict, recorded>>

IClose ==
  /\ stage = "open"
  /\ verdict # Undecided
  /\ announced = verdict
  /\ stage' = IF announced = {} THEN "abstained" ELSE "completed"
  /\ UNCHANGED <<verdict, recorded, announced>>

INext == IOpen \/ IDecide \/ IRecord \/ IAnnounce \/ IClose

ISpec == IInit /\ [][INext]_ivars

-----------------------------------------------------------------------------
(* What follows from the promise alone *)

ITypeOK ==
  /\ stage \in {"none", "open", "abstained", "completed"}
  /\ verdict \in (SUBSET Action) \cup {Undecided}
  /\ recorded \subseteq Action /\ announced \subseteq recorded

\* Nothing is recorded or announced but what the verdict says, and an incident that
\* ended has announced all of it: nothing if and only if it abstained.
ISafe ==
  /\ verdict = Undecided => recorded = {}
  /\ verdict # Undecided => recorded \subseteq verdict
  /\ stage = "none" => verdict = Undecided
  /\ stage = "completed" => announced = verdict /\ verdict # {}
  /\ stage = "abstained" => verdict = {}

\* A verdict is not revised, nothing recorded or announced is taken back, and
\* nothing happens to an incident that ended.
IFinal ==
  [][/\ verdict # Undecided => verdict' = verdict
     /\ recorded \subseteq recorded' /\ announced \subseteq announced'
     /\ stage \in {"abstained", "completed"} => UNCHANGED ivars]_ivars
=============================================================================
