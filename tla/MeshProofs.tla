----------------------------- MODULE MeshProofs -----------------------------
(***************************************************************************)
(* Proofs about Mesh.tla for every plan of nodes, hop budget, set of       *)
(* techniques and operators and every number of crashes.                   *)
(*                                                                         *)
(* None of the properties is inductive alone: that the graph never asks    *)
(* for a refused transition depends on which steps can be recorded at      *)
(* which status (TablesAgree, true of the tables alone and therefore kept  *)
(* by a crash), and on what the running process remembers of the tables    *)
(* (ProcessAgrees, about pc and the local variables).  How far documented  *)
(* claims hold that crashes break (HopsKept, CompletedTruly, DecisionsKept)*)
(* rests on two more: EvidenceKept, for up to one crash, and FirstRun.     *)
(***************************************************************************)
EXTENDS Mesh, FiniteSetTheorems, TLAPS

Attributed == attStep # Nothing /\ attStep.technique # NoTechnique

\* Status and recorded steps of a session agree, whenever the process dies.
TablesAgree ==
  /\ status # "FAILED"
  /\ status \in {"NONE", "OPEN"} => invStep = Nothing /\ attStep = Nothing
  /\ status = "NONE" => Done = {}
  /\ status \notin {"NONE", "OPEN", "INVESTIGATING"} => invStep # Nothing
  /\ attStep # Nothing => invStep # Nothing
  /\ status = "INVESTIGATING" => ~Attributed
  /\ (status = "INVESTIGATING" /\ attStep # Nothing) => invStep.evidence = {}
  /\ (status = "ATTRIBUTING" /\ attStep = Nothing) => invStep.evidence # {}
  /\ status = "ABSTAINED" => attStep # Nothing /\ ~Attributed
  /\ status \in {"DISPATCHING"} \cup Completed => Attributed
  /\ dispStep => /\ status \in {"DISPATCHING"} \cup Completed
                 /\ \A a \in Proposed(attStep) : msg[a] # Nothing
  /\ status \in Completed => dispStep
  /\ \A a \in Action : row[a] # Nothing => status \in {"DISPATCHING"} \cup Completed

\* What the running process holds agrees with the tables.
ProcessAgrees ==
  /\ pc \notin {"idle", "raised"} => status # "NONE"
  /\ pc \notin {"idle", "triage", "raised"} => status \notin TERMINAL
  /\ pc \in {"hops", "hop_step", "hop_row"} =>
       status = "INVESTIGATING" /\ invStep = Nothing /\ todo \cap Done = {}
  /\ pc \in {"hop_step", "hop_row"} => node \in todo /\ outcome \in Outcome
  /\ pc \notin {"hop_step", "hop_row"} => node = Nothing
  /\ pc \in {"attribute", "attributing"} => invStep # Nothing /\ evidence = invStep.evidence
  /\ pc \in {"attribute", "attributing", "dispatch", "record", "publish", "finish"} =>
       invStep # Nothing /\ degraded = invStep.degraded
  /\ pc = "attributing" =>
       /\ attStep = Nothing
       /\ status = IF evidence = {} THEN "INVESTIGATING" ELSE "ATTRIBUTING"
  /\ pc = "abstain" => attStep # Nothing /\ ~Attributed
  /\ pc \in {"dispatch", "record", "publish"} => Attributed /\ att = attStep
  /\ pc \in {"record", "publish"} =>
       /\ status = "DISPATCHING"
       /\ acts \subseteq Proposed(attStep)
       /\ \A a \in Proposed(attStep) \ acts : msg[a] # Nothing
  /\ pc = "publish" => act \in acts /\ row[act] # Nothing
  /\ pc = "finish" => dispStep /\ status = "DISPATCHING"

IInv ==
  /\ TypeOK
  /\ TablesAgree
  /\ ProcessAgrees
  /\ NeverRaises
  /\ HopsNotRepeated
  /\ OneAttribution
  /\ StatusTellsDegraded
  /\ DecisionsConsistent
-----------------------------------------------------------------------------
(* Each action preserves the invariant. *)

\* Invariants about tables an action leaves alone.
LEMMA Frame ==
  ASSUME IInv
  PROVE  /\ UNCHANGED <<status, severity, hopRow, invStep, attStep, dispStep, msg, row>> => TablesAgree'
         /\ UNCHANGED <<hopCount, hopRow, node>> => HopsNotRepeated'
         /\ UNCHANGED <<severity, attStep, row, msg>> => OneAttribution'
         /\ UNCHANGED <<status, invStep>> => StatusTellsDegraded'
         /\ UNCHANGED <<row, decided, request>> => DecisionsConsistent'
<1>1. UNCHANGED <<status, severity, hopRow, invStep, attStep, dispStep, msg, row>> => TablesAgree'
  BY DEF IInv, TablesAgree, Attributed, Proposed, Done
<1>2. UNCHANGED <<hopCount, hopRow, node>> => HopsNotRepeated'
  BY DEF IInv, HopsNotRepeated, Done
<1>3. UNCHANGED <<severity, attStep, row, msg>> => OneAttribution'
  BY DEF IInv, OneAttribution, Proposed
<1>4. UNCHANGED <<status, invStep>> => StatusTellsDegraded'
  BY DEF IInv, StatusTellsDegraded
<1>5. UNCHANGED <<row, decided, request>> => DecisionsConsistent'
  BY DEF IInv, DecisionsConsistent
<1>6. QED
  BY <1>1, <1>2, <1>3, <1>4, <1>5

LEMMA OpenSessionInv ==
  ASSUME IInv, OpenSession
  PROVE  IInv'
<1> USE DEF OpenSession, Blank, IInv, tables, TERMINAL
<1>1. TypeOK'
  BY MeshAssumption DEF TypeOK, Done, Proposed, InitialStatus, Attribution, Abstention, InvPayload, HopPayload, ActionRow, Outcome, Status, TERMINAL
<1>2. TablesAgree'
  BY MeshAssumption DEF TypeOK, TablesAgree, ProcessAgrees, Attributed, Completed, TERMINAL, Status, Done, Proposed
<1>3. ProcessAgrees'
  BY MeshAssumption DEF TypeOK, TablesAgree, ProcessAgrees, Attributed, Completed, TERMINAL, Status, Done, Proposed
<1>4. NeverRaises'
  BY MeshAssumption DEF NeverRaises, ProcessAgrees, TablesAgree, TypeOK, Completed, TERMINAL, Status, Attributed
<1>5. StatusTellsDegraded'
  BY MeshAssumption DEF StatusTellsDegraded, ProcessAgrees, TablesAgree, TERMINAL, Completed
<1>6. HopsNotRepeated'
  BY MeshAssumption DEF TypeOK, HopsNotRepeated, ProcessAgrees, Done
<1>7. QED
  BY <1>1, <1>2, <1>3, <1>4, <1>5, <1>6, Frame

LEMMA RouteTriageInv ==
  ASSUME IInv, RouteTriage
  PROVE  IInv'
<1> USE DEF RouteTriage, IInv, tables
<1>1. TypeOK'
  BY MeshAssumption DEF TypeOK, Done, Proposed, InitialStatus, Attribution, Abstention, InvPayload, HopPayload, ActionRow, Outcome, Status, TERMINAL
<1>2. ProcessAgrees'
  BY MeshAssumption DEF TypeOK, TablesAgree, ProcessAgrees, Attributed, Completed, TERMINAL, Status, Done, Proposed
<1>3. NeverRaises'
  BY MeshAssumption DEF NeverRaises, ProcessAgrees, TablesAgree, TypeOK, Completed, TERMINAL, Status, Attributed
<1>4. QED
  BY <1>1, <1>2, <1>3, Frame

LEMMA ReuseInvestigationInv ==
  ASSUME IInv, ReuseInvestigation
  PROVE  IInv'
<1> USE DEF ReuseInvestigation, IInv, tables
<1>1. TypeOK'
  BY MeshAssumption DEF TypeOK, Done, Proposed, InitialStatus, Attribution, Abstention, InvPayload, HopPayload, ActionRow, Outcome, Status, TERMINAL
<1>2. ProcessAgrees'
  BY MeshAssumption DEF TypeOK, TablesAgree, ProcessAgrees, Attributed, Completed, TERMINAL, Status, Done, Proposed
<1>3. NeverRaises'
  BY MeshAssumption DEF NeverRaises, ProcessAgrees, TablesAgree, TypeOK, Completed, TERMINAL, Status, Attributed
<1>4. QED
  BY <1>1, <1>2, <1>3, Frame

LEMMA PlanHopsInv ==
  ASSUME IInv, PlanHops
  PROVE  IInv'
<1> USE DEF PlanHops, IInv, tables, Advance, Allowed, TRANSITIONS
<1>1. TypeOK'
  BY MeshAssumption DEF TypeOK, Done, Proposed, InitialStatus, Attribution, Abstention, InvPayload, HopPayload, ActionRow, Outcome, Status, TERMINAL
<1>2. TablesAgree'
  BY MeshAssumption DEF TypeOK, TablesAgree, ProcessAgrees, Attributed, Completed, TERMINAL, Status, Done, Proposed
<1>3. ProcessAgrees'
  BY MeshAssumption DEF TypeOK, TablesAgree, ProcessAgrees, Attributed, Completed, TERMINAL, Status, Done, Proposed
<1>4. NeverRaises'
  BY MeshAssumption DEF NeverRaises, ProcessAgrees, TablesAgree, TypeOK, Completed, TERMINAL, Status, Attributed
<1>5. StatusTellsDegraded'
  BY MeshAssumption DEF StatusTellsDegraded, ProcessAgrees, TablesAgree, TERMINAL, Completed
<1>6. QED
  BY <1>1, <1>2, <1>3, <1>4, <1>5, Frame

LEMMA AskNodeInv ==
  ASSUME IInv, NEW n \in Plan, NEW o \in Outcome, AskNode(n, o)
  PROVE  IInv'
<1> USE DEF AskNode, IInv, tables
<1>1. TypeOK'
  BY MeshAssumption DEF TypeOK, Done, Proposed, InitialStatus, Attribution, Abstention, InvPayload, HopPayload, ActionRow, Outcome, Status, TERMINAL
<1>2. ProcessAgrees'
  BY MeshAssumption DEF TypeOK, TablesAgree, ProcessAgrees, Attributed, Completed, TERMINAL, Status, Done, Proposed
<1>3. NeverRaises'
  BY MeshAssumption DEF NeverRaises, ProcessAgrees, TablesAgree, TypeOK, Completed, TERMINAL, Status, Attributed
<1>4. HopsNotRepeated'
  BY MeshAssumption DEF TypeOK, HopsNotRepeated, ProcessAgrees, Done
<1>5. QED
  BY <1>1, <1>2, <1>3, <1>4, Frame

LEMMA RecordHopStepInv ==
  ASSUME IInv, RecordHopStep
  PROVE  IInv'
<1> USE DEF RecordHopStep, IInv, tables
<1>1. TypeOK'
  <2>1. [outcome |-> outcome, found |-> node \in evidence] \in HopPayload /\ node \in Plan
    BY DEF HopPayload, ProcessAgrees, TypeOK
  <2>2. hopStep' \in [Plan -> HopPayload \cup {Nothing}]
    BY <2>1 DEF TypeOK
  <2>3. QED
    BY <2>2 DEF TypeOK
<1>2. ProcessAgrees'
  BY MeshAssumption DEF TypeOK, TablesAgree, ProcessAgrees, Attributed, Completed, TERMINAL, Status, Done, Proposed
<1>3. NeverRaises'
  BY MeshAssumption DEF NeverRaises, ProcessAgrees, TablesAgree, TypeOK, Completed, TERMINAL, Status, Attributed
<1>4. QED
  BY <1>1, <1>2, <1>3, Frame

\* The hop just made is a new one of the plan, so there was room for it.
LEMMA RecordHopInv ==
  ASSUME IInv, RecordHop
  PROVE  IInv'
<1> USE DEF IInv, tables
<1>1. node \in Plan /\ node \notin Done /\ outcome \in Outcome
  BY DEF RecordHop, ProcessAgrees, TypeOK
<1>2. IsFiniteSet(Done) /\ Cardinality(Done) \in Nat
  BY MeshAssumption, FS_Subset, FS_CardinalityType DEF Done
<1>3. Cardinality(Done \cup {node}) = Cardinality(Done) + 1
  BY <1>1, <1>2, FS_AddElement
<1>4. Cardinality(Done \cup {node}) <= Cardinality(Plan) /\ Cardinality(Plan) \in Nat
  BY <1>1, MeshAssumption, FS_Subset, FS_CardinalityType DEF Done
<1>5. hopCount < MaxHops
  BY <1>2, <1>3, <1>4, MeshAssumption DEF HopsNotRepeated
<1>6. /\ hopRow' = [hopRow EXCEPT ![node] = outcome]
      /\ hopCount' = hopCount + 1
      /\ pc' = "hops"
  BY <1>5, MeshAssumption DEF RecordHop, TypeOK
<1>7. Done' = Done \cup {node}
  BY <1>1, <1>6, MeshAssumption DEF Done, TypeOK
<1>8. TypeOK'
  BY <1>1, <1>5, <1>6, MeshAssumption DEF RecordHop, TypeOK
<1>9. TablesAgree'
  BY <1>6, <1>7 DEF RecordHop, TablesAgree, ProcessAgrees, Attributed, Proposed
<1>10. ProcessAgrees'
  BY <1>1, <1>6, <1>7 DEF RecordHop, ProcessAgrees, Attributed, TERMINAL
<1>11. NeverRaises' /\ HopsNotRepeated'
  BY <1>3, <1>6, <1>7 DEF RecordHop, NeverRaises, HopsNotRepeated
<1>12. QED
  BY <1>8, <1>9, <1>10, <1>11, Frame DEF RecordHop

LEMMA EndInvestigationInv ==
  ASSUME IInv, NEW late \in BOOLEAN, EndInvestigation(late)
  PROVE  IInv'
<1> USE DEF EndInvestigation, IInv, tables
<1>1. TypeOK'
  BY MeshAssumption DEF TypeOK, Done, Proposed, InitialStatus, Attribution, Abstention, InvPayload, HopPayload, ActionRow, Outcome, Status, TERMINAL
<1>2. TablesAgree'
  BY MeshAssumption DEF TypeOK, TablesAgree, ProcessAgrees, Attributed, Completed, TERMINAL, Status, Done, Proposed
<1>3. ProcessAgrees'
  <2>1. /\ invStep'.evidence = evidence' /\ invStep'.degraded = degraded'
        /\ invStep' \in InvPayload
    BY DEF InvPayload, TypeOK
  <2>2. invStep' # Nothing
    BY <2>1, MeshAssumption
  <2>3. QED
    BY <2>1, <2>2 DEF ProcessAgrees, Attributed, Proposed, TERMINAL, Done
<1>4. NeverRaises'
  BY MeshAssumption DEF NeverRaises, ProcessAgrees, TablesAgree, TypeOK, Completed, TERMINAL, Status, Attributed
<1>5. StatusTellsDegraded'
  BY MeshAssumption DEF StatusTellsDegraded, ProcessAgrees, TablesAgree, TERMINAL, Completed
<1>6. QED
  BY <1>1, <1>2, <1>3, <1>4, <1>5, Frame

LEMMA ReuseAttributionInv ==
  ASSUME IInv, ReuseAttribution
  PROVE  IInv'
<1> USE DEF ReuseAttribution, IInv, tables, AfterAttribution
<1>1. TypeOK'
  BY MeshAssumption DEF TypeOK, Done, Proposed, InitialStatus, Attribution, Abstention, InvPayload, HopPayload, ActionRow, Outcome, Status, TERMINAL
<1>2. ProcessAgrees'
  BY MeshAssumption DEF TypeOK, TablesAgree, ProcessAgrees, Attributed, Completed, TERMINAL, Status, Done, Proposed
<1>3. NeverRaises'
  BY MeshAssumption DEF NeverRaises, ProcessAgrees, TablesAgree, TypeOK, Completed, TERMINAL, Status, Attributed
<1>4. QED
  BY <1>1, <1>2, <1>3, Frame

LEMMA StartAttributionInv ==
  ASSUME IInv, StartAttribution
  PROVE  IInv'
<1> USE DEF StartAttribution, IInv, tables, Advance, Allowed, TRANSITIONS
<1>1. TypeOK'
  BY MeshAssumption DEF TypeOK, Done, Proposed, InitialStatus, Attribution, Abstention, InvPayload, HopPayload, ActionRow, Outcome, Status, TERMINAL
<1>2. TablesAgree'
  BY MeshAssumption DEF TypeOK, TablesAgree, ProcessAgrees, Attributed, Completed, TERMINAL, Status, Done, Proposed
<1>3. ProcessAgrees'
  BY MeshAssumption DEF TypeOK, TablesAgree, ProcessAgrees, Attributed, Completed, TERMINAL, Status, Done, Proposed
<1>4. NeverRaises'
  BY MeshAssumption DEF NeverRaises, ProcessAgrees, TablesAgree, TypeOK, Completed, TERMINAL, Status, Attributed
<1>5. StatusTellsDegraded'
  BY MeshAssumption DEF StatusTellsDegraded, ProcessAgrees, TablesAgree, TERMINAL, Completed
<1>6. QED
  BY <1>1, <1>2, <1>3, <1>4, <1>5, Frame

LEMMA RecordAttributionInv ==
  ASSUME IInv, NEW a \in Attribution, RecordAttribution(a)
  PROVE  IInv'
<1> USE DEF RecordAttribution, IInv, tables, AfterAttribution, Abstention
<1>1. TypeOK'
  BY MeshAssumption DEF TypeOK, Done, Proposed, InitialStatus, Attribution, Abstention, InvPayload, HopPayload, ActionRow, Outcome, Status, TERMINAL
<1>2. TablesAgree'
  BY MeshAssumption DEF TypeOK, TablesAgree, ProcessAgrees, Attributed, Completed, TERMINAL, Status, Done, Proposed
<1>3. ProcessAgrees'
  BY MeshAssumption DEF TypeOK, TablesAgree, ProcessAgrees, Attributed, Completed, TERMINAL, Status, Done, Proposed
<1>4. NeverRaises'
  BY MeshAssumption DEF NeverRaises, ProcessAgrees, TablesAgree, TypeOK, Completed, TERMINAL, Status, Attributed
<1>5. OneAttribution'
  BY MeshAssumption DEF TypeOK, OneAttribution, TablesAgree, ProcessAgrees, Attributed, Proposed
<1>6. QED
  BY <1>1, <1>2, <1>3, <1>4, <1>5, Frame

LEMMA AbstainInv ==
  ASSUME IInv, Abstain
  PROVE  IInv'
<1> USE DEF Abstain, IInv, tables, Finish, Allowed, TRANSITIONS
<1>1. TypeOK'
  <2>1. status' \in Status /\ att' \in Attribution
    BY DEF TypeOK, Status, TERMINAL, Attribution
  <2>2. QED
    BY <2>1 DEF TypeOK
<1>2. TablesAgree'
  BY MeshAssumption DEF TypeOK, TablesAgree, ProcessAgrees, Attributed, Completed, TERMINAL, Status, Done, Proposed
<1>3. ProcessAgrees'
  BY MeshAssumption DEF TypeOK, TablesAgree, ProcessAgrees, Attributed, Completed, TERMINAL, Status, Done, Proposed
<1>4. NeverRaises'
  BY MeshAssumption DEF NeverRaises, ProcessAgrees, TablesAgree, TypeOK, Completed, TERMINAL, Status, Attributed
<1>5. StatusTellsDegraded'
  BY MeshAssumption DEF StatusTellsDegraded, ProcessAgrees, TablesAgree, TERMINAL, Completed
<1>6. QED
  BY <1>1, <1>2, <1>3, <1>4, <1>5, Frame

LEMMA ReuseDispatchInv ==
  ASSUME IInv, ReuseDispatch
  PROVE  IInv'
<1> USE DEF ReuseDispatch, IInv, tables
<1>1. TypeOK'
  BY MeshAssumption DEF TypeOK, Done, Proposed, InitialStatus, Attribution, Abstention, InvPayload, HopPayload, ActionRow, Outcome, Status, TERMINAL
<1>2. ProcessAgrees'
  BY MeshAssumption DEF TypeOK, TablesAgree, ProcessAgrees, Attributed, Completed, TERMINAL, Status, Done, Proposed
<1>3. NeverRaises'
  BY MeshAssumption DEF NeverRaises, ProcessAgrees, TablesAgree, TypeOK, Completed, TERMINAL, Status, Attributed
<1>4. QED
  BY <1>1, <1>2, <1>3, Frame

LEMMA StartDispatchInv ==
  ASSUME IInv, StartDispatch
  PROVE  IInv'
<1> USE DEF StartDispatch, IInv, tables, Advance, Allowed, TRANSITIONS
<1>1. TypeOK'
  BY MeshAssumption DEF TypeOK, Done, Proposed, InitialStatus, Attribution, Abstention, InvPayload, HopPayload, ActionRow, Outcome, Status, TERMINAL
<1>2. TablesAgree'
  BY MeshAssumption DEF TypeOK, TablesAgree, ProcessAgrees, Attributed, Completed, TERMINAL, Status, Done, Proposed
<1>3. ProcessAgrees'
  BY MeshAssumption DEF TypeOK, TablesAgree, ProcessAgrees, Attributed, Completed, TERMINAL, Status, Done, Proposed
<1>4. NeverRaises'
  BY MeshAssumption DEF NeverRaises, ProcessAgrees, TablesAgree, TypeOK, Completed, TERMINAL, Status, Attributed
<1>5. StatusTellsDegraded'
  BY MeshAssumption DEF StatusTellsDegraded, ProcessAgrees, TablesAgree, TERMINAL, Completed
<1>6. QED
  BY <1>1, <1>2, <1>3, <1>4, <1>5, Frame

LEMMA RecordActionInv ==
  ASSUME IInv, NEW a \in Action, RecordAction(a)
  PROVE  IInv'
<1> USE DEF RecordAction, IInv, tables, InitialStatus
<1>1. TypeOK'
  BY MeshAssumption DEF TypeOK, Done, Proposed, InitialStatus, Attribution, Abstention, InvPayload, HopPayload, ActionRow, Outcome, Status, TERMINAL
<1>2. TablesAgree'
  BY MeshAssumption DEF TypeOK, TablesAgree, ProcessAgrees, Attributed, Completed, TERMINAL, Status, Done, Proposed
<1>3. ProcessAgrees'
  <2>1. [status |-> InitialStatus(a), att |-> att] \in ActionRow
    BY DEF TypeOK, ActionRow, InitialStatus
  <2>2. row'[a] # Nothing
    BY <2>1, MeshAssumption DEF TypeOK
  <2>3. QED
    BY <2>2 DEF ProcessAgrees, Attributed, Proposed, TERMINAL, Done
<1>4. NeverRaises'
  BY MeshAssumption DEF NeverRaises, ProcessAgrees, TablesAgree, TypeOK, Completed, TERMINAL, Status, Attributed
<1>5. OneAttribution'
  BY MeshAssumption DEF TypeOK, OneAttribution, TablesAgree, ProcessAgrees, Attributed, Proposed
<1>6. DecisionsConsistent'
  BY MeshAssumption DEF TypeOK, DecisionsConsistent
<1>7. QED
  BY <1>1, <1>2, <1>3, <1>4, <1>5, <1>6, Frame

LEMMA PublishActionInv ==
  ASSUME IInv, PublishAction
  PROVE  IInv'
<1> USE DEF PublishAction, IInv, tables, InitialStatus
<1>1. TypeOK'
  <2>1. act \in Action /\ [status |-> InitialStatus(act), att |-> att] \in ActionRow
    BY DEF ProcessAgrees, TypeOK, ActionRow, InitialStatus
  <2>2. msg' \in [Action -> ActionRow \cup {Nothing}]
    BY <2>1 DEF TypeOK
  <2>3. QED
    BY <2>2 DEF TypeOK
<1>2. TablesAgree'
  BY MeshAssumption DEF TypeOK, TablesAgree, ProcessAgrees, Attributed, Completed, TERMINAL, Status, Done, Proposed
<1>3. ProcessAgrees'
  <2>1. act \in Action /\ [status |-> InitialStatus(act), att |-> att] \in ActionRow
    BY DEF ProcessAgrees, TypeOK, ActionRow, InitialStatus
  <2>2. msg'[act] # Nothing /\ \A a \in Action : msg[a] # Nothing => msg'[a] # Nothing
    BY <2>1, MeshAssumption DEF TypeOK
  <2>3. \A a \in Proposed(attStep) \ acts' : msg'[a] # Nothing
    BY <2>2 DEF ProcessAgrees, Proposed
  <2>4. QED
    BY <2>3 DEF ProcessAgrees, Attributed, Proposed, TERMINAL, Done
<1>4. NeverRaises'
  BY MeshAssumption DEF NeverRaises, ProcessAgrees, TablesAgree, TypeOK, Completed, TERMINAL, Status, Attributed
<1>5. OneAttribution'
  BY MeshAssumption DEF TypeOK, OneAttribution, TablesAgree, ProcessAgrees, Attributed, Proposed
<1>6. QED
  BY <1>1, <1>2, <1>3, <1>4, <1>5, Frame

LEMMA RecordDispatchInv ==
  ASSUME IInv, RecordDispatch
  PROVE  IInv'
<1> USE DEF RecordDispatch, IInv, tables
<1>1. TypeOK'
  BY MeshAssumption DEF TypeOK, Done, Proposed, InitialStatus, Attribution, Abstention, InvPayload, HopPayload, ActionRow, Outcome, Status, TERMINAL
<1>2. TablesAgree'
  BY MeshAssumption DEF TypeOK, TablesAgree, ProcessAgrees, Attributed, Completed, TERMINAL, Status, Done, Proposed
<1>3. ProcessAgrees'
  BY MeshAssumption DEF TypeOK, TablesAgree, ProcessAgrees, Attributed, Completed, TERMINAL, Status, Done, Proposed
<1>4. NeverRaises'
  BY MeshAssumption DEF NeverRaises, ProcessAgrees, TablesAgree, TypeOK, Completed, TERMINAL, Status, Attributed
<1>5. QED
  BY <1>1, <1>2, <1>3, <1>4, Frame

LEMMA CompleteInv ==
  ASSUME IInv, Complete
  PROVE  IInv'
<1> USE DEF Complete, IInv, tables, Finish, Allowed, TRANSITIONS
<1>1. TypeOK'
  <2>1. status' \in Status /\ att' \in Attribution
    BY DEF TypeOK, Status, TERMINAL, Attribution
  <2>2. QED
    BY <2>1 DEF TypeOK
<1>2. TablesAgree'
  BY MeshAssumption DEF TypeOK, TablesAgree, ProcessAgrees, Attributed, Completed, TERMINAL, Status, Done, Proposed
<1>3. ProcessAgrees'
  BY MeshAssumption DEF TypeOK, TablesAgree, ProcessAgrees, Attributed, Completed, TERMINAL, Status, Done, Proposed
<1>4. NeverRaises'
  BY MeshAssumption DEF NeverRaises, ProcessAgrees, TablesAgree, TypeOK, Completed, TERMINAL, Status, Attributed
<1>5. StatusTellsDegraded'
  BY MeshAssumption DEF StatusTellsDegraded, ProcessAgrees, TablesAgree, TERMINAL, Completed
<1>6. QED
  BY <1>1, <1>2, <1>3, <1>4, <1>5, Frame

LEMMA CrashInv ==
  ASSUME IInv, Crash
  PROVE  IInv'
<1> USE DEF Crash, IInv, tables, Blank
<1>1. TypeOK'
  <2>1. crashes' \in 0..MaxCrashes
    BY MeshAssumption DEF TypeOK
  <2>2. QED
    BY <2>1 DEF TypeOK, Attribution
<1>2. ProcessAgrees'
  BY MeshAssumption DEF TypeOK, TablesAgree, ProcessAgrees, Attributed, Completed, TERMINAL, Status, Done, Proposed
<1>3. NeverRaises'
  BY MeshAssumption DEF NeverRaises, ProcessAgrees, TablesAgree, TypeOK, Completed, TERMINAL, Status, Attributed
<1>4. HopsNotRepeated'
  BY MeshAssumption DEF TypeOK, HopsNotRepeated, ProcessAgrees, Done
<1>5. QED
  BY <1>1, <1>2, <1>3, <1>4, Frame

LEMMA DecideInv ==
  ASSUME IInv, NEW o \in Operator, NEW a \in Action,
         NEW d \in {"approved", "rejected"}, Decide(o, a, d)
  PROVE  IInv'
<1> USE DEF IInv, tables, local
<1>1. /\ row[a] \in ActionRow
      /\ row'[a] = [row[a] EXCEPT !.status = d]
      /\ row[a].status = "pending_approval"
      /\ \A b \in Action \ {a} : row'[b] = row[b]
      /\ row' \in [Action -> ActionRow \cup {Nothing}]
  BY DEF Decide, TypeOK, ActionRow
<1>2. row'[a] # Nothing /\ row'[a].status = d /\ row'[a].att = row[a].att
  BY <1>1, MeshAssumption DEF ActionRow
<1>3. /\ request[o] = Nothing
      /\ request'[o] = <<a, d>>
      /\ \A q \in Operator \ {o} : request'[q] = request[q]
      /\ request' \in [Operator -> (Action \X {"approved", "rejected"}) \cup {Nothing}]
  BY DEF Decide, TypeOK
<1>4. \A b \in Action : row'[b] # Nothing <=> row[b] # Nothing
  BY <1>1, <1>2, MeshAssumption
<1> HIDE DEF Decide
<1>5. UNCHANGED <<severity, holds, status, hopCount, hopRow, hopStep, invStep, attStep,
                  dispStep, msg, decided, pc, node, outcome, todo, evidence, degraded,
                  att, acts, act, crashes>>
  BY DEF Decide
<1>6. TypeOK'
  BY <1>1, <1>3, <1>5 DEF TypeOK
<1>7. TablesAgree'
  BY <1>4, <1>5 DEF TablesAgree, Attributed, Proposed, Done
<1>8. ProcessAgrees'
  BY <1>4, <1>5 DEF ProcessAgrees, TypeOK, Attributed, Proposed, Done
<1>9. NeverRaises'
  BY <1>5 DEF NeverRaises
<1>10. OneAttribution'
  <2>1. \A b \in Action : row[b] # Nothing => row'[b].att = row[b].att
    BY <1>1, <1>2
  <2>2. QED
    BY <2>1, <1>4, <1>5 DEF OneAttribution, Proposed
<1>11. DecisionsConsistent'
  <2> SUFFICES ASSUME NEW b \in Action, NEW e \in {"approved", "rejected"},
                      <<b, e>> \in decided' \/ \E q \in Operator : request'[q] = <<b, e>>
               PROVE  row'[b] # Nothing /\ row'[b].status = e
    BY DEF DecisionsConsistent
  <2>1. CASE b = a /\ e = d
    BY <2>1, <1>2
  <2>2. CASE <<b, e>> \in decided \/ \E q \in Operator : request[q] = <<b, e>>
    <3>1. row[b] # Nothing /\ row[b].status = e
      BY <2>2 DEF DecisionsConsistent
    <3>2. b # a
      BY <3>1, <1>1
    <3>3. QED
      BY <3>1, <3>2, <1>1
  <2>3. QED
    BY <2>1, <2>2, <1>3, <1>5
<1>12. QED
  BY <1>5, <1>6, <1>7, <1>8, <1>9, <1>10, <1>11, Frame

LEMMA PublishDecisionInv ==
  ASSUME IInv, NEW o \in Operator, PublishDecision(o)
  PROVE  IInv'
<1> USE DEF PublishDecision, IInv, tables, local
<1>1. TypeOK'
  BY MeshAssumption DEF TypeOK, Done, Proposed, InitialStatus, Attribution, Abstention, InvPayload, HopPayload, ActionRow, Outcome, Status, TERMINAL
<1>2. ProcessAgrees'
  BY MeshAssumption DEF TypeOK, TablesAgree, ProcessAgrees, Attributed, Completed, TERMINAL, Status, Done, Proposed
<1>3. NeverRaises'
  BY MeshAssumption DEF NeverRaises, ProcessAgrees, TablesAgree, TypeOK, Completed, TERMINAL, Status, Attributed
<1>4. DecisionsConsistent'
  <2> SUFFICES ASSUME NEW b \in Action, NEW e \in {"approved", "rejected"},
                      <<b, e>> \in decided' \/ \E q \in Operator : request'[q] = <<b, e>>
               PROVE  row[b] # Nothing /\ row[b].status = e
    BY DEF DecisionsConsistent
  <2>1. <<b, e>> # Nothing
    BY MeshAssumption
  <2>2. <<b, e>> \in decided \/ \E q \in Operator : request[q] = <<b, e>>
    BY <2>1 DEF TypeOK
  <2>3. QED
    BY <2>2 DEF DecisionsConsistent
<1>5. QED
  BY <1>1, <1>2, <1>3, <1>4, Frame

LEMMA CrashApiInv ==
  ASSUME IInv, CrashApi
  PROVE  IInv'
<1> USE DEF CrashApi, IInv, tables, local
<1>1. TypeOK'
  BY MeshAssumption DEF TypeOK, Done, Proposed, InitialStatus, Attribution, Abstention, InvPayload, HopPayload, ActionRow, Outcome, Status, TERMINAL
<1>2. ProcessAgrees'
  BY MeshAssumption DEF TypeOK, TablesAgree, ProcessAgrees, Attributed, Completed, TERMINAL, Status, Done, Proposed
<1>3. NeverRaises'
  BY MeshAssumption DEF NeverRaises, ProcessAgrees, TablesAgree, TypeOK, Completed, TERMINAL, Status, Attributed
<1>4. DecisionsConsistent'
  <2> SUFFICES ASSUME NEW b \in Action, NEW e \in {"approved", "rejected"},
                      <<b, e>> \in decided' \/ \E q \in Operator : request'[q] = <<b, e>>
               PROVE  row[b] # Nothing /\ row[b].status = e
    BY DEF DecisionsConsistent
  <2>1. <<b, e>> # Nothing
    BY MeshAssumption
  <2>2. <<b, e>> \in decided
    BY <2>1
  <2>3. QED
    BY <2>2 DEF DecisionsConsistent
<1>5. QED
  BY <1>1, <1>2, <1>3, <1>4, Frame

-----------------------------------------------------------------------------
LEMMA InitInv == Init => IInv
<1> SUFFICES ASSUME Init PROVE IInv
  OBVIOUS
<1>1. Done = {} /\ Cardinality(Done) = 0
  BY FS_EmptySet DEF Init, Done
<1>2. TypeOK
  <2>1. status \in Status /\ att \in Attribution /\ 0 \in 0..MaxHops /\ 0 \in 0..MaxCrashes
    BY MeshAssumption DEF Init, Status, Attribution
  <2>2. QED
    BY <2>1 DEF Init, TypeOK
<1>3. /\ TablesAgree /\ ProcessAgrees /\ NeverRaises /\ HopsNotRepeated
      /\ OneAttribution /\ StatusTellsDegraded
  BY <1>1 DEF Init, TablesAgree, ProcessAgrees, NeverRaises, HopsNotRepeated, OneAttribution,
              StatusTellsDegraded, Completed
<1>4. DecisionsConsistent
  BY MeshAssumption DEF Init, DecisionsConsistent
<1>5. QED
  BY <1>2, <1>3, <1>4 DEF IInv

LEMMA StepInv == IInv /\ [Next]_vars => IInv'
<1> SUFFICES ASSUME IInv, [Next]_vars PROVE IInv'
  OBVIOUS
<1>1. CASE Graph
  BY <1>1, OpenSessionInv, RouteTriageInv, ReuseInvestigationInv, PlanHopsInv, AskNodeInv,
     RecordHopStepInv, RecordHopInv, EndInvestigationInv, ReuseAttributionInv,
     StartAttributionInv, RecordAttributionInv, AbstainInv, ReuseDispatchInv,
     StartDispatchInv, RecordActionInv, PublishActionInv, RecordDispatchInv, CompleteInv
     DEF Graph, RunOn
<1>2. CASE Approvals
  BY <1>2, DecideInv, PublishDecisionInv DEF Approvals
<1>3. CASE Crash \/ CrashApi
  BY <1>3, CrashInv, CrashApiInv
<1>4. CASE UNCHANGED vars
  <2> USE <1>4 DEF vars, tables, local, IInv
  <2>1. TypeOK'
    BY DEF TypeOK
  <2>2. ProcessAgrees' /\ NeverRaises'
    BY DEF ProcessAgrees, NeverRaises, Attributed, Proposed, Done
  <2>3. QED
    BY <2>1, <2>2, Frame
<1>5. QED
  BY <1>1, <1>2, <1>3, <1>4 DEF Next

\* The inductive invariant holds in every reachable state, for every number of
\* crashes of the mesh and of the approval API.
THEOREM MeshInvariant == Spec => []IInv
<1>1. QED
  BY InitInv, StepInv, PTL DEF Spec

-----------------------------------------------------------------------------
(* How far the hops and the status of a session can be trusted: until the   *)
(* first crash everywhere, and for the evidence until the second.           *)

Early  == {"idle", "triage", "investigate"}
Asking == {"hops", "hop_step", "hop_row"}

\* Records of the incident were found at the nodes of S, wherever a hop succeeded.
Covers(S) == \A n \in holds : hopRow[n] = "ok" => n \in S

\* What PlanHops restores from the steps of the hops.
Found == {n \in Plan : hopStep[n] # Nothing /\ hopStep[n].found}

\* The evidence at hand: of the running process, of the recorded investigation, or
\* of the recorded hops, from which the next run starts.
EvidenceKept ==
  /\ (pc \in {"hop_step", "hop_row"} /\ outcome = "ok" /\ node \in holds) => node \in evidence
  /\ crashes <= 1 =>
       /\ pc \in Asking => Covers(evidence)
       /\ invStep # Nothing => Covers(invStep.evidence)
       /\ (pc \in Early /\ invStep = Nothing) => Covers(Found)

\* Before the first crash, steps and rows of hops are written together and
\* degraded remembers every hop.
FirstRun ==
  crashes = 0 =>
    /\ Covers(Found)
    /\ (pc \in Early /\ invStep = Nothing) =>
         ~degraded /\ Done = {} /\ \A n \in Plan : hopStep[n] = Nothing
    /\ pc \in Asking =>
         /\ todo = Plan \ Done
         /\ \A n \in todo : hopStep[n] # Nothing => pc = "hop_row" /\ n = node
         /\ degraded <=> \/ \E n \in Done : hopRow[n] # "ok"
                         \/ pc # "hops" /\ outcome # "ok"
    /\ (pc = "hop_row" /\ outcome = "ok" /\ node \in holds) => node \in Found
    /\ invStep # Nothing => (invStep.degraded <=> \E n \in Plan : hopRow[n] # "ok")

\* What both say is about the hops and the investigation: the steps of the graph
\* after the investigation, and of the operators, change none of it.
LEMMA ClaimsFrame ==
  ASSUME EvidenceKept, FirstRun,
         UNCHANGED <<holds, hopRow, hopStep, invStep, crashes>>,
         pc' \notin Asking,
         pc' \in Early => invStep # Nothing
  PROVE  EvidenceKept' /\ FirstRun'
  BY DEF EvidenceKept, FirstRun, Covers, Found, Early, Asking

LEMMA ClaimsOpen ==
  ASSUME IInv, EvidenceKept, FirstRun, OpenSession \/ RouteTriage
  PROVE  EvidenceKept' /\ FirstRun'
<1>1. pc \in Early
  BY DEF OpenSession, RouteTriage, IInv, NeverRaises, Early
<1>2. /\ UNCHANGED <<holds, hopRow, hopStep, invStep, crashes>>
      /\ pc' \in Early
      /\ degraded' = FALSE \/ degraded' = degraded
  BY DEF OpenSession, RouteTriage, Blank, tables, Early
<1>3. QED
  BY <1>1, <1>2 DEF EvidenceKept, FirstRun, Covers, Found, Done, Early, Asking

LEMMA ClaimsPlan ==
  ASSUME IInv, EvidenceKept, FirstRun, PlanHops
  PROVE  EvidenceKept' /\ FirstRun'
<1>1. /\ pc = "investigate" /\ invStep = Nothing
      /\ UNCHANGED <<holds, hopRow, hopStep, invStep, crashes, degraded, node, outcome>>
      /\ todo' = Plan \ Done
      /\ evidence' = Done \cap Found
  BY DEF PlanHops, Done, Found
<1>2. pc' = "hops"
  BY DEF PlanHops, Advance, Allowed, TRANSITIONS, IInv, ProcessAgrees, TablesAgree, TypeOK,
         Status, TERMINAL, Completed
<1>3. holds \subseteq Plan /\ \A n \in Plan : hopRow[n] = "ok" => n \in Done
  BY MeshAssumption DEF IInv, TypeOK, Done, Outcome
<1>4. EvidenceKept'
  BY <1>1, <1>2, <1>3 DEF EvidenceKept, Covers, Found, Early, Asking
<1>5. FirstRun'
  BY <1>1, <1>2 DEF FirstRun, Covers, Found, Done, Early, Asking
<1>6. QED
  BY <1>4, <1>5

LEMMA ClaimsAsk ==
  ASSUME IInv, EvidenceKept, FirstRun, NEW n \in Plan, NEW o \in Outcome, AskNode(n, o)
  PROVE  EvidenceKept' /\ FirstRun'
<1>1. /\ pc = "hops" /\ pc' = "hop_step"
      /\ UNCHANGED <<holds, hopRow, hopStep, invStep, crashes, todo>>
      /\ n \in todo /\ node' = n /\ outcome' = o
      /\ evidence \subseteq evidence'
      /\ o = "ok" /\ n \in holds => n \in evidence'
      /\ degraded' = (degraded \/ o # "ok")
  BY DEF AskNode, tables
<1>2. EvidenceKept'
  BY <1>1 DEF EvidenceKept, Covers, Found, Early, Asking
<1>3. FirstRun'
  BY <1>1 DEF FirstRun, Covers, Found, Done, Early, Asking
<1>4. QED
  BY <1>2, <1>3

LEMMA ClaimsStep ==
  ASSUME IInv, EvidenceKept, FirstRun, RecordHopStep
  PROVE  EvidenceKept' /\ FirstRun'
<1>1. /\ pc = "hop_step" /\ pc' = "hop_row"
      /\ UNCHANGED <<holds, hopRow, invStep, crashes, todo, node, outcome, evidence, degraded>>
      /\ node \in todo /\ node \in Plan
  BY DEF RecordHopStep, IInv, ProcessAgrees, TypeOK
<1>2. /\ \A n \in Plan \ {node} : hopStep'[n] = hopStep[n]
      /\ hopStep[node] = Nothing => /\ hopStep'[node] # Nothing
                                    /\ hopStep'[node].found = (node \in evidence)
      /\ hopStep[node] # Nothing => hopStep'[node] = hopStep[node]
  <2>1. DEFINE p == [outcome |-> outcome, found |-> node \in evidence]
  <2>2. p \in HopPayload /\ p.found = (node \in evidence)
    BY <1>1 DEF HopPayload, IInv, ProcessAgrees
  <2>3. p # Nothing
    BY <2>2, MeshAssumption
  <2>4. hopStep' = [hopStep EXCEPT ![node] = IF hopStep[node] = Nothing THEN p ELSE hopStep[node]]
    BY DEF RecordHopStep
  <2>5. hopStep \in [Plan -> HopPayload \cup {Nothing}]
    BY DEF IInv, TypeOK
  <2> HIDE DEF p
  <2>6. QED
    BY <1>1, <2>2, <2>3, <2>4, <2>5
<1>3. EvidenceKept'
  BY <1>1 DEF EvidenceKept, Covers, Early, Asking
<1>4. FirstRun'
  <2> SUFFICES ASSUME crashes = 0 PROVE FirstRun'
    BY <1>1 DEF FirstRun
  <2>1. hopStep[node] = Nothing
    BY <1>1 DEF FirstRun, Asking
  <2>2. Found \subseteq Found' /\ (outcome = "ok" /\ node \in holds => node \in Found')
    BY <1>1, <1>2, <2>1 DEF Found, EvidenceKept
  <2>3. \A n \in todo : hopStep'[n] # Nothing => n = node
    BY <1>1, <1>2 DEF FirstRun, Asking, IInv, TypeOK
  <2>4. QED
    BY <1>1, <2>2, <2>3 DEF FirstRun, Covers, Done, Early, Asking
<1>5. QED
  BY <1>3, <1>4

LEMMA ClaimsRow ==
  ASSUME IInv, EvidenceKept, FirstRun, RecordHop
  PROVE  EvidenceKept' /\ FirstRun'
<1>1. /\ pc = "hop_row" /\ pc' = "hops"
      /\ hopRow' = [hopRow EXCEPT ![node] = outcome]
      /\ todo' = todo \ {node}
      /\ UNCHANGED <<holds, hopStep, invStep, crashes, evidence, degraded>>
      /\ invStep = Nothing
  BY RecordHopInv DEF RecordHop, IInv, NeverRaises, ProcessAgrees
<1>2. /\ node \in Plan /\ node \notin Done /\ node \in todo /\ outcome \in Outcome
      /\ hopRow'[node] = outcome
      /\ \A n \in Plan \ {node} : hopRow'[n] = hopRow[n]
  BY <1>1 DEF IInv, ProcessAgrees, TypeOK
<1>3. Done' = Done \cup {node}
  BY <1>2, MeshAssumption DEF Done
<1>4. holds \subseteq Plan
  BY DEF IInv, TypeOK
<1>5. EvidenceKept'
  BY <1>1, <1>2, <1>4 DEF EvidenceKept, Covers, Early, Asking
<1>6. FirstRun'
  <2> SUFFICES ASSUME crashes = 0 PROVE FirstRun'
    BY <1>1 DEF FirstRun
  <2>1. Covers(Found)'
    BY <1>1, <1>2, <1>4 DEF FirstRun, Covers, Found
  <2>2. (\E n \in Done : hopRow[n] # "ok") \/ outcome # "ok"
          <=> \E n \in Done' : hopRow'[n] # "ok"
    BY <1>2, <1>3 DEF Done
  <2>3. todo' = Plan \ Done' /\ \A n \in todo' : hopStep'[n] = Nothing
    BY <1>1, <1>2, <1>3 DEF FirstRun, Asking
  <2>4. degraded <=> \E n \in Done' : hopRow'[n] # "ok"
    BY <1>1, <2>2 DEF FirstRun, Asking
  <2>5. QED
    BY <1>1, <2>1, <2>3, <2>4 DEF FirstRun, Early, Asking
<1>7. QED
  BY <1>5, <1>6

LEMMA ClaimsEnd ==
  ASSUME IInv, EvidenceKept, FirstRun, NEW late \in BOOLEAN, EndInvestigation(late)
  PROVE  EvidenceKept' /\ FirstRun'
<1>1. /\ pc = "hops" /\ pc' = "attribute"
      /\ UNCHANGED <<holds, hopRow, hopStep, crashes>>
      /\ invStep'.evidence = evidence
      /\ invStep'.degraded = (degraded \/ todo # {})
  BY DEF EndInvestigation
<1>2. EvidenceKept'
  BY <1>1 DEF EvidenceKept, Covers, Early, Asking
<1>3. FirstRun'
  <2> SUFFICES ASSUME crashes = 0 PROVE FirstRun'
    BY <1>1 DEF FirstRun
  <2>1. todo = Plan \ Done /\ (degraded <=> \E n \in Done : hopRow[n] # "ok")
    BY <1>1 DEF FirstRun, Asking
  <2>2. invStep'.degraded <=> \E n \in Plan : hopRow[n] # "ok"
    BY <1>1, <2>1, MeshAssumption DEF Done, Outcome
  <2>3. QED
    BY <1>1, <2>2 DEF FirstRun, Covers, Found, Early, Asking
<1>4. QED
  BY <1>2, <1>3

LEMMA ClaimsCrash ==
  ASSUME IInv, EvidenceKept, FirstRun, Crash
  PROVE  EvidenceKept' /\ FirstRun'
<1>1. /\ UNCHANGED <<holds, hopRow, hopStep, invStep>>
      /\ crashes \in Nat /\ crashes' = crashes + 1 /\ pc' = "idle"
  BY MeshAssumption DEF Crash, tables, IInv, TypeOK
<1>2. QED
  BY <1>1 DEF EvidenceKept, FirstRun, Covers, Found, Early, Asking

LEMMA ClaimsCrashApi ==
  ASSUME IInv, EvidenceKept, FirstRun, CrashApi
  PROVE  EvidenceKept' /\ FirstRun'
<1>1. /\ UNCHANGED <<holds, hopRow, hopStep, invStep, pc, node, outcome, evidence>>
      /\ crashes \in Nat /\ crashes' = crashes + 1
  BY MeshAssumption DEF CrashApi, tables, local, IInv, TypeOK
<1>2. QED
  BY <1>1 DEF EvidenceKept, FirstRun, Covers, Found, Early, Asking

\* Neither an operator nor a stuttering step touches what the claims are about.
LEMMA ClaimsAside ==
  ASSUME EvidenceKept, FirstRun, UNCHANGED <<holds, hopRow, hopStep, invStep, local, crashes>>
  PROVE  EvidenceKept' /\ FirstRun'
  BY DEF EvidenceKept, FirstRun, Covers, Found, Done, Early, Asking, local

LEMMA ClaimsStepInv ==
  IInv /\ EvidenceKept /\ FirstRun /\ [Next]_vars => EvidenceKept' /\ FirstRun'
<1> SUFFICES ASSUME IInv, EvidenceKept, FirstRun, [Next]_vars
             PROVE  EvidenceKept' /\ FirstRun'
  OBVIOUS
<1>1. CASE OpenSession \/ RouteTriage \/ PlanHops \/ RecordHopStep \/ RecordHop
  BY <1>1, ClaimsOpen, ClaimsPlan, ClaimsStep, ClaimsRow
<1>2. CASE \/ \E n \in Plan, o \in Outcome : AskNode(n, o)
           \/ \E late \in BOOLEAN : EndInvestigation(late)
  BY <1>2, ClaimsAsk, ClaimsEnd
<1>3. CASE \/ ReuseInvestigation \/ ReuseAttribution \/ StartAttribution
           \/ \E a \in Attribution : RecordAttribution(a)
           \/ Abstain \/ ReuseDispatch \/ StartDispatch
           \/ \E a \in Action : RecordAction(a)
           \/ PublishAction \/ RecordDispatch \/ Complete
  <2>1. UNCHANGED <<holds, hopRow, hopStep, invStep, crashes>>
    BY <1>3 DEF ReuseInvestigation, ReuseAttribution, StartAttribution, RecordAttribution,
       Abstain, ReuseDispatch, StartDispatch, RecordAction, PublishAction, RecordDispatch,
       Complete, tables
  <2>2. pc' \notin Asking /\ (pc' \in Early => invStep # Nothing)
    BY <1>3 DEF ReuseInvestigation, ReuseAttribution, StartAttribution, RecordAttribution,
       Abstain, ReuseDispatch, StartDispatch, RecordAction, PublishAction, RecordDispatch,
       Complete, Advance, Finish, AfterAttribution, Early, Asking, IInv, ProcessAgrees,
       TablesAgree
  <2>3. QED
    BY <2>1, <2>2, ClaimsFrame
<1>4. CASE Approvals
  BY <1>4, ClaimsAside DEF Approvals, Decide, PublishDecision
<1>5. CASE UNCHANGED vars
  BY <1>5, ClaimsAside DEF vars, tables
<1>6. CASE Crash \/ CrashApi
  BY <1>6, ClaimsCrash, ClaimsCrashApi
<1>7. QED
  BY <1>1, <1>2, <1>3, <1>4, <1>5, <1>6 DEF Next, Graph, RunOn

\* The two hold in every reachable state.
THEOREM MeshRemembers == Spec => [](EvidenceKept /\ FirstRun)
<1>1. Init => EvidenceKept /\ FirstRun
  BY MeshAssumption DEF Init, EvidenceKept, FirstRun, Covers, Found, Done, Early, Asking, Outcome
<1>2. QED
  BY <1>1, ClaimsStepInv, MeshInvariant, PTL DEF Spec

-----------------------------------------------------------------------------
(* What a crash of the approval API, and nothing else, undoes *)

\* The body of OnlyApiCrashLosesDecisions.
LEMMA DecisionsStep ==
  ASSUME IInv, [Next]_vars, DecisionsArePublished, ~CrashApi
  PROVE  DecisionsArePublished'
<1> SUFFICES ASSUME NEW a \in Action, NEW d \in {"approved", "rejected"},
                    row'[a] # Nothing, row'[a].status = d
             PROVE  <<a, d>> \in decided' \/ \E o \in Operator : request'[o] = <<a, d>>
  BY DEF DecisionsArePublished
<1>1. ASSUME NEW o \in Operator, NEW b \in Action, NEW e \in {"approved", "rejected"},
             Decide(o, b, e)
      PROVE  <<a, d>> \in decided' \/ \E q \in Operator : request'[q] = <<a, d>>
  <2>1. /\ row[b] \in ActionRow
        /\ row'[b] = [row[b] EXCEPT !.status = e]
        /\ b # a => row'[a] = row[a]
        /\ request[o] = Nothing
        /\ request'[o] = <<b, e>>
        /\ \A q \in Operator \ {o} : request'[q] = request[q]
        /\ decided' = decided
    BY <1>1 DEF Decide, IInv, TypeOK
  <2>2. CASE b = a
    <3>1. e = d
      BY <2>1, <2>2 DEF ActionRow
    <3>2. QED
      BY <2>1, <2>2, <3>1
  <2>3. CASE b # a
    <3>1. <<a, d>> # Nothing
      BY MeshAssumption
    <3>2. <<a, d>> \in decided \/ \E q \in Operator : request[q] = <<a, d>>
      BY <2>1, <2>3 DEF DecisionsArePublished
    <3>3. QED
      BY <2>1, <3>1, <3>2
  <2>4. QED
    BY <2>2, <2>3
<1>2. ASSUME row' = row, decided \subseteq decided',
             \A q \in Operator : request[q] = <<a, d>> => <<a, d>> \in decided' \/ request'[q] = request[q]
      PROVE  <<a, d>> \in decided' \/ \E q \in Operator : request'[q] = <<a, d>>
  BY <1>2 DEF DecisionsArePublished
<1>3. ASSUME NEW o \in Operator, PublishDecision(o)
      PROVE  <<a, d>> \in decided' \/ \E q \in Operator : request'[q] = <<a, d>>
  BY <1>2, <1>3 DEF PublishDecision, IInv, TypeOK
<1>4. ASSUME NEW b \in Action, RecordAction(b)
      PROVE  <<a, d>> \in decided' \/ \E q \in Operator : request'[q] = <<a, d>>
  <2>1. /\ UNCHANGED <<decided, request>>
        /\ \A x \in Action : row[x] # Nothing \/ x # b => row'[x] = row[x]
    BY <1>4 DEF RecordAction, IInv, TypeOK
  <2>2. row[b] = Nothing => row'[b].status = InitialStatus(b)
    BY <1>4 DEF RecordAction, IInv, TypeOK
  <2>3. row'[a] = row[a]
    BY <2>1, <2>2 DEF InitialStatus
  <2>4. QED
    BY <2>1, <2>3 DEF DecisionsArePublished
<1>5. CASE Graph /\ ~\E b \in Action : RecordAction(b)
  <2>1. UNCHANGED <<row, decided, request>>
    BY <1>5 DEF Graph, RunOn, OpenSession, RouteTriage, ReuseInvestigation, PlanHops, AskNode,
       RecordHopStep, RecordHop, EndInvestigation, ReuseAttribution, StartAttribution,
       RecordAttribution, Abstain, ReuseDispatch, StartDispatch, PublishAction,
       RecordDispatch, Complete, tables
  <2>2. QED
    BY <2>1, <1>2
<1>6. CASE Crash \/ UNCHANGED vars
  BY <1>2, <1>6 DEF Crash, vars, tables
<1>7. QED
  BY <1>1, <1>3, <1>4, <1>5, <1>6 DEF Next, Approvals

\* A decision committed to a row stays published or about to be, except that a crash
\* of the approval API may forget it: no step of the mesh process, no crash of it and
\* no other operator ever does.
THEOREM OnlyApiCrashLosesDecisions ==
  Spec => [][DecisionsArePublished => DecisionsArePublished' \/ CrashApi]_vars
<1>1. IInv /\ [Next]_vars => [DecisionsArePublished => DecisionsArePublished' \/ CrashApi]_vars
  BY DecisionsStep
<1>2. QED
  BY <1>1, MeshInvariant, PTL DEF Spec

-----------------------------------------------------------------------------
(* Messages and rows of actions *)

LEMMA AnnouncedStep == TypeOK /\ AnnouncedAsRecorded /\ [Next]_vars => AnnouncedAsRecorded'
<1> SUFFICES ASSUME TypeOK, AnnouncedAsRecorded, [Next]_vars PROVE AnnouncedAsRecorded'
  OBVIOUS
<1> USE DEF AnnouncedAsRecorded, TypeOK
<1>1. ASSUME NEW b \in Action, RecordAction(b) PROVE AnnouncedAsRecorded'
  BY <1>1 DEF RecordAction
<1>2. CASE PublishAction
  BY <1>2 DEF PublishAction
<1>3. ASSUME NEW o \in Operator, NEW b \in Action, NEW d \in {"approved", "rejected"},
             Decide(o, b, d)
      PROVE  AnnouncedAsRecorded'
  <2>1. /\ row[b] \in ActionRow /\ Policy[b].impact = "high" /\ UNCHANGED msg
        /\ row'[b] = [row[b] EXCEPT !.status = d]
        /\ \A a \in Action \ {b} : row'[a] = row[a]
    BY <1>3 DEF Decide
  <2>2. row'[b].status = d
    BY <2>1 DEF ActionRow
  <2>3. QED
    BY <2>1, <2>2
<1>4. CASE Graph /\ ~PublishAction /\ ~\E b \in Action : RecordAction(b)
  BY <1>4 DEF Graph, RunOn, OpenSession, RouteTriage, ReuseInvestigation, PlanHops, AskNode,
     RecordHopStep, RecordHop, EndInvestigation, ReuseAttribution, StartAttribution,
     RecordAttribution, Abstain, ReuseDispatch, StartDispatch, RecordDispatch, Complete, tables
<1>5. CASE (\E o \in Operator : PublishDecision(o)) \/ Crash \/ CrashApi \/ UNCHANGED vars
  BY <1>5 DEF PublishDecision, Crash, CrashApi, vars, tables
<1>6. QED
  BY <1>1, <1>2, <1>3, <1>4, <1>5 DEF Next, Approvals

-----------------------------------------------------------------------------
(* What the invariants say to a reader of the runs *)

\* Tables and local variables keep their types; hop_count stays within max_hops.
THEOREM TypeCorrect == Spec => []TypeOK
<1>1. IInv => TypeOK
  BY DEF IInv
<1>2. QED
  BY <1>1, MeshInvariant, PTL

\* No restart makes the session store refuse a transition or a hop.
THEOREM NeverRaisesHolds == Spec => []NeverRaises
<1>1. IInv => NeverRaises
  BY DEF IInv
<1>2. QED
  BY <1>1, MeshInvariant, PTL

\* No node is asked twice once its hop is recorded, and one crash, wherever it
\* strikes, loses no evidence.
THEOREM HopsKeptHolds == Spec => []HopsKept
<1>1. IInv /\ EvidenceKept => HopsKept
  BY DEF IInv, ProcessAgrees, HopsKept, EvidenceKept, EvidenceComesBack, Covers
<1>2. QED
  BY <1>1, MeshInvariant, MeshRemembers, PTL

\* All actions of a session follow from its one recorded attribution.
THEOREM OneAttributionHolds == Spec => []OneAttribution
<1>1. IInv => OneAttribution
  BY DEF IInv
<1>2. QED
  BY <1>1, MeshInvariant, PTL

\* A completed session has published every action it proposes, its status tells
\* whether the recorded investigation was degraded, and before the first crash it
\* tells whether every planned node answered.
THEOREM CompletedTrulyHolds == Spec => []CompletedTruly
<1>1. IInv => OutboxComplete
  BY DEF IInv, OutboxComplete, TablesAgree, OneAttribution, Proposed
<1>2. IInv => StatusTellsDegraded
  BY DEF IInv
<1>3. IInv /\ FirstRun => DegradedUnlessCrashed
  BY DEF IInv, TablesAgree, StatusTellsDegraded, FirstRun, DegradedUnlessCrashed, Completed
<1>4. IInv /\ FirstRun => CompletedTruly
  BY <1>1, <1>2, <1>3 DEF CompletedTruly
<1>5. QED
  BY <1>4, MeshInvariant, MeshRemembers, PTL

\* An action has at most one decision, it is the one its row holds, a message differs
\* from its row only by such a decision, and before the
\* first crash every decided row is published or about to be.
THEOREM DecisionsKeptHolds == Spec => []DecisionsKept
<1>1. IInv => DecisionsConsistent
  BY DEF IInv
<1>2. Init => (crashes = 0 => DecisionsArePublished)
  BY DEF Init, DecisionsArePublished
<1>3. IInv /\ (crashes = 0 => DecisionsArePublished) /\ [Next]_vars
        => (crashes = 0 => DecisionsArePublished)'
  <2> SUFFICES ASSUME IInv, crashes = 0 => DecisionsArePublished, [Next]_vars, crashes' = 0
               PROVE  DecisionsArePublished'
    OBVIOUS
  <2>1. crashes = 0 /\ ~CrashApi
    <3>1. crashes \in Nat
      BY MeshAssumption DEF IInv, TypeOK
    <3>2. CASE Crash \/ CrashApi
      BY <3>1, <3>2 DEF Crash, CrashApi
    <3>3. CASE ~Crash /\ ~CrashApi
      BY <3>3 DEF Next, Graph, RunOn, Approvals, vars, OpenSession, RouteTriage, ReuseInvestigation,
         PlanHops, AskNode, RecordHopStep, RecordHop, EndInvestigation, ReuseAttribution,
         StartAttribution, RecordAttribution, Abstain, ReuseDispatch, StartDispatch,
         RecordAction, PublishAction, RecordDispatch, Complete, Decide, PublishDecision
    <3>4. QED
      BY <3>2, <3>3
  <2>2. QED
    BY <2>1, DecisionsStep
<1>4. Init => AnnouncedAsRecorded
  BY DEF Init, AnnouncedAsRecorded
<1>5. IInv /\ AnnouncedAsRecorded /\ [Next]_vars => AnnouncedAsRecorded'
  BY AnnouncedStep DEF IInv
<1>6. QED
  BY <1>1, <1>2, <1>3, <1>4, <1>5, MeshInvariant, PTL DEF Spec, DecisionsKept

-----------------------------------------------------------------------------
(* Action property *)

\* The body of HighImpactGate.
RowChange ==
  \A a \in Action :
    (row[a] # Nothing /\ row'[a] # row[a]) =>
      /\ Policy[a].impact = "high"
      /\ row[a].status = "pending_approval"
      /\ \E o \in Operator, d \in {"approved", "rejected"} :
           /\ request'[o] = <<a, d>> /\ request[o] = Nothing
           /\ row' = [row EXCEPT ![a].status = d]

LEMMA StepKeepsRows == IInv /\ [Next]_vars => RowChange
<1> SUFFICES ASSUME IInv, [Next]_vars PROVE RowChange
  OBVIOUS
<1> USE DEF IInv, TypeOK, tables
<1>1. ASSUME NEW o \in Operator, NEW b \in Action, NEW d \in {"approved", "rejected"},
             Decide(o, b, d)
      PROVE  RowChange
  <2>1. \A a \in Action \ {b} : row'[a] = row[a]
    BY <1>1 DEF Decide
  <2>2. /\ Policy[b].impact = "high"
        /\ row[b].status = "pending_approval"
        /\ request'[o] = <<b, d>> /\ request[o] = Nothing
        /\ row' = [row EXCEPT ![b].status = d]
    BY <1>1 DEF Decide
  <2>3. QED
    BY <2>1, <2>2 DEF RowChange
<1>2. CASE \E a \in Action : RecordAction(a)
  BY <1>2 DEF RecordAction, RowChange
<1>3. CASE row' = row
  BY <1>3 DEF RowChange
<1>4. CASE Graph /\ ~\E a \in Action : RecordAction(a)
  <2>1. row' = row
    BY <1>4 DEF Graph, RunOn, OpenSession, RouteTriage, ReuseInvestigation, PlanHops, AskNode,
       RecordHopStep, RecordHop, EndInvestigation, ReuseAttribution, StartAttribution,
       RecordAttribution, Abstain, ReuseDispatch, StartDispatch, PublishAction,
       RecordDispatch, Complete
  <2>2. QED
    BY <2>1, <1>3
<1>5. CASE (\E o \in Operator : PublishDecision(o)) \/ Crash \/ CrashApi \/ UNCHANGED vars
  BY <1>5, <1>3 DEF PublishDecision, Crash, CrashApi, vars
<1>6. QED
  BY <1>1, <1>2, <1>4, <1>5 DEF Next, Approvals

\* No step but an operator's decision changes a recorded action.
THEOREM HighImpactGateHolds == Spec => HighImpactGate
<1>1. IInv /\ [Next]_vars => [RowChange]_vars
  BY StepKeepsRows
<1>2. QED
  BY <1>1, MeshInvariant, PTL DEF Spec, HighImpactGate, RowChange

-----------------------------------------------------------------------------
(* Refinement: every step of the mesh is a step of Incident or a stutter. *)

Rows     == {a \in Action : row[a] # Nothing}
Messages == {a \in Action : msg[a] # Nothing}
Choice   == IF attStep = Nothing THEN Nothing ELSE Proposed(attStep)

\* An attribution with a technique always proposes an action, an abstention none.
LEMMA ProposedNonempty ==
  ASSUME severity \in 0..2, NEW a \in Attribution
  PROVE  Proposed(a) = {} <=> a.technique = NoTechnique
<1>1. /\ "operator_alert" \in Action
      /\ ~Policy["operator_alert"].initiated
      /\ Policy["operator_alert"].minSeverity = 0
      /\ ~Policy["operator_alert"].sure
  BY DEF Action, Policy
<1>2. a.technique # NoTechnique => "operator_alert" \in Proposed(a)
  BY <1>1 DEF Proposed
<1>3. QED
  BY <1>2 DEF Proposed

LEMMA InitRefines == Init => I!IInit
  BY DEF Init, I!IInit, stageBar

\* A step that touches none of the mapped tables stutters.
LEMMA Stutters ==
  ASSUME UNCHANGED <<severity, attStep>>,
         stageBar' = stageBar,
         \A a \in Action : (row'[a] # Nothing <=> row[a] # Nothing)
                           /\ (msg'[a] # Nothing <=> msg[a] # Nothing)
  PROVE  UNCHANGED I!ivars
  BY DEF I!ivars, Proposed

LEMMA OpenRefines == IInv /\ OpenSession => I!IOpen \/ UNCHANGED I!ivars
<1> SUFFICES ASSUME IInv, OpenSession PROVE I!IOpen \/ UNCHANGED I!ivars
  OBVIOUS
<1>1. CASE status = "NONE"
  BY <1>1 DEF OpenSession, I!IOpen, stageBar, Proposed, Completed
<1>2. CASE status # "NONE"
  BY <1>2, Stutters DEF OpenSession, stageBar
<1>3. QED
  BY <1>1, <1>2

LEMMA AttributionRefines ==
  ASSUME IInv, NEW a \in Attribution, RecordAttribution(a)
  PROVE  I!IDecide
<1>1. stageBar = "open" /\ stageBar' = "open" /\ attStep = Nothing /\ attStep' = a
  BY DEF RecordAttribution, IInv, TablesAgree, ProcessAgrees, stageBar, Completed, TERMINAL
<1>2. a # Nothing /\ Proposed(a)' = Proposed(a) /\ Proposed(a) \in SUBSET Action
  BY MeshAssumption DEF RecordAttribution, Proposed
<1>3. QED
  BY <1>1, <1>2 DEF RecordAttribution, I!IDecide, Proposed

\* While an incident is dispatched, its stage is open and its choice is made.
LEMMA Dispatching ==
  ASSUME IInv, pc \in {"record", "publish", "finish"}
  PROVE  /\ stageBar = "open"
         /\ Choice = Proposed(attStep) /\ Choice # Nothing
         /\ Rows \subseteq Choice /\ Messages \subseteq Rows
         /\ Choice # {}
<1>1. stageBar = "open" /\ Attributed
  BY DEF IInv, ProcessAgrees, TablesAgree, stageBar, Completed
<1>2. Choice = Proposed(attStep) /\ Choice \in SUBSET Action
  BY <1>1 DEF Choice, Attributed, Proposed
<1>3. Choice # Nothing /\ Choice # {}
  BY <1>1, <1>2, MeshAssumption, ProposedNonempty DEF Attributed, IInv, TypeOK
<1>4. Rows \subseteq Choice /\ Messages \subseteq Rows
  BY <1>2 DEF IInv, OneAttribution, Rows, Messages
<1>5. QED
  BY <1>1, <1>2, <1>3, <1>4

LEMMA RecordRefines ==
  ASSUME IInv, NEW a \in Action, RecordAction(a)
  PROVE  I!IRecord \/ UNCHANGED I!ivars
<1>1. CASE row[a] # Nothing
  BY <1>1, Stutters DEF RecordAction, stageBar, IInv, TypeOK
<1>2. CASE row[a] = Nothing
  <2>1. /\ pc = "record" /\ a \in Proposed(attStep)
        /\ UNCHANGED <<severity, status, attStep, msg>>
    BY DEF RecordAction, IInv, ProcessAgrees
  <2>2. [status |-> InitialStatus(a), att |-> att] \in ActionRow
    BY DEF IInv, TypeOK, ActionRow, InitialStatus
  <2>3. Rows' = Rows \cup {a}
    BY <1>2, <2>2, MeshAssumption DEF RecordAction, Rows, IInv, TypeOK
  <2>4. a \in Choice \ Rows
    BY <1>2, <2>1, Dispatching DEF Rows
  <2>5. Choice' = Choice /\ Messages' = Messages /\ stageBar' = stageBar
    BY <2>1 DEF Choice, Messages, stageBar, Proposed
  <2>6. QED
    BY <2>1, <2>3, <2>4, <2>5, Dispatching DEF I!IRecord, Rows, Messages, Choice
<1>3. QED
  BY <1>1, <1>2

LEMMA PublishRefines ==
  ASSUME IInv, PublishAction
  PROVE  I!IAnnounce \/ UNCHANGED I!ivars
<1>0. act \in Action /\ pc = "publish" /\ row[act] # Nothing
      /\ UNCHANGED <<severity, status, attStep, row>>
  BY DEF PublishAction, IInv, ProcessAgrees, TypeOK
<1>1. CASE msg[act] # Nothing
  BY <1>0, <1>1, Stutters DEF PublishAction, stageBar, IInv, TypeOK
<1>2. CASE msg[act] = Nothing
  <2>1. [status |-> InitialStatus(act), att |-> att] \in ActionRow
    BY <1>0 DEF IInv, TypeOK, ActionRow, InitialStatus
  <2>2. Messages' = Messages \cup {act}
    BY <1>0, <1>2, <2>1, MeshAssumption DEF PublishAction, Messages, IInv, TypeOK
  <2>3. act \in Rows \ Messages
    BY <1>0, <1>2 DEF Rows, Messages
  <2>4. Choice' = Choice /\ Rows' = Rows /\ stageBar' = stageBar
    BY <1>0 DEF Choice, Rows, stageBar, Proposed
  <2>5. QED
    BY <1>0, <2>2, <2>3, <2>4, Dispatching DEF I!IAnnounce, Rows, Messages, Choice
<1>3. QED
  BY <1>1, <1>2

LEMMA AbstainRefines == IInv /\ Abstain => I!IClose
<1> SUFFICES ASSUME IInv, Abstain PROVE I!IClose
  OBVIOUS
<1>1. attStep # Nothing /\ attStep \in Attribution /\ Proposed(attStep) = {}
  BY ProposedNonempty DEF Abstain, IInv, ProcessAgrees, TypeOK, Attributed
<1>2. Choice = {} /\ Rows = {} /\ Messages = {} /\ Choice # Nothing
  BY <1>1, MeshAssumption DEF Choice, Rows, Messages, IInv, OneAttribution
<1>3. stageBar = "open" /\ stageBar' = "abstained"
  BY DEF Abstain, Finish, Allowed, TRANSITIONS, IInv, ProcessAgrees, TablesAgree,
     TypeOK, Status, TERMINAL, stageBar, Completed, Attributed
<1>4. Choice' = Choice /\ Rows' = Rows /\ Messages' = Messages
  BY DEF Abstain, Choice, Rows, Messages, Proposed
<1>5. QED
  BY <1>2, <1>3, <1>4 DEF I!IClose, Rows, Messages, Choice

LEMMA CompleteRefines == IInv /\ Complete => I!IClose
<1> SUFFICES ASSUME IInv, Complete PROVE I!IClose
  OBVIOUS
<1>1. Messages = Choice
  BY Dispatching DEF Complete, IInv, ProcessAgrees, TablesAgree, Messages, Rows, Proposed
<1>2. stageBar = "open" /\ stageBar' = "completed"
  BY DEF Complete, Finish, Allowed, TRANSITIONS, IInv, ProcessAgrees, stageBar, Completed
<1>3. Choice' = Choice /\ Rows' = Rows /\ Messages' = Messages
  BY DEF Complete, Choice, Rows, Messages, Proposed
<1>4. QED
  BY <1>1, <1>2, <1>3, Dispatching DEF Complete, I!IClose, Rows, Messages, Choice

\* Advances and the steps between them stay within one stage.
LEMMA QuietRefines ==
  ASSUME IInv,
         \/ RouteTriage \/ ReuseInvestigation \/ PlanHops
         \/ \E n \in Plan, o \in Outcome : AskNode(n, o)
         \/ RecordHopStep \/ RecordHop
         \/ \E late \in BOOLEAN : EndInvestigation(late)
         \/ ReuseAttribution \/ StartAttribution \/ ReuseDispatch \/ StartDispatch
         \/ RecordDispatch \/ Crash \/ CrashApi
         \/ \E o \in Operator : PublishDecision(o)
  PROVE  UNCHANGED I!ivars
<1>1. UNCHANGED <<severity, attStep, row, msg>>
  BY DEF RouteTriage, ReuseInvestigation, PlanHops, AskNode, RecordHopStep, RecordHop,
     EndInvestigation, ReuseAttribution, StartAttribution, ReuseDispatch, StartDispatch,
     RecordDispatch, Crash, CrashApi, PublishDecision, tables
<1>2. CASE PlanHops \/ StartAttribution \/ StartDispatch
  <2>1. status # "NONE" /\ status \notin TERMINAL
    BY <1>2 DEF PlanHops, StartAttribution, StartDispatch, IInv, ProcessAgrees
  <2>2. status' # "NONE" /\ status' \notin TERMINAL
    BY <1>2, <2>1 DEF PlanHops, StartAttribution, StartDispatch, Advance, Allowed, TERMINAL
  <2>3. stageBar' = stageBar
    BY <2>1, <2>2 DEF stageBar, TERMINAL, Completed
  <2>4. QED
    BY <1>1, <2>3, Stutters
<1>3. CASE status' = status
  BY <1>1, <1>3, Stutters DEF stageBar
<1>4. QED
  BY <1>2, <1>3 DEF RouteTriage, ReuseInvestigation, AskNode, RecordHopStep, RecordHop,
     EndInvestigation, ReuseAttribution, ReuseDispatch,
     RecordDispatch, Crash, CrashApi, PublishDecision, tables

LEMMA DecideRefines ==
  ASSUME IInv, NEW o \in Operator, NEW b \in Action, NEW d \in {"approved", "rejected"},
         Decide(o, b, d)
  PROVE  UNCHANGED I!ivars
<1>1. row[b] \in ActionRow /\ row'[b] = [row[b] EXCEPT !.status = d]
      /\ \A a \in Action \ {b} : row'[a] = row[a]
  BY DEF Decide, IInv, TypeOK
<1>2. row'[b] \in ActionRow
  BY <1>1 DEF ActionRow
<1>3. \A a \in Action : row'[a] # Nothing <=> row[a] # Nothing
  BY <1>1, <1>2, MeshAssumption
<1>4. UNCHANGED <<severity, attStep, msg, status>>
  BY DEF Decide
<1>5. QED
  BY <1>3, <1>4, Stutters DEF stageBar

LEMMA StepRefines == IInv /\ [Next]_vars => [I!INext]_(I!ivars)
<1> SUFFICES ASSUME IInv, [Next]_vars PROVE I!INext \/ UNCHANGED I!ivars
  OBVIOUS
<1> USE DEF I!INext
<1>1. CASE Graph
  BY <1>1, OpenRefines, AttributionRefines, RecordRefines, PublishRefines, AbstainRefines,
     CompleteRefines, QuietRefines DEF Graph, RunOn
<1>2. CASE Approvals
  BY <1>2, DecideRefines, QuietRefines DEF Approvals
<1>3. CASE Crash \/ CrashApi
  BY <1>3, QuietRefines
<1>4. CASE UNCHANGED vars
  BY <1>4, Stutters DEF vars, tables, stageBar
<1>5. QED
  BY <1>1, <1>2, <1>3, <1>4 DEF Next

\* The mesh handles an incident once: one opening, one verdict, every action
\* recorded and announced once, and completion only after all of them.
THEOREM MeshImplementsIncident == Spec => ImplementsIncident
<1>1. QED
  BY InitRefines, StepRefines, MeshInvariant, PTL DEF Spec, ImplementsIncident, I!ISpec

=============================================================================
