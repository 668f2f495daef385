-------------------------------- MODULE Mesh --------------------------------
(***************************************************************************)
(* One incident in the mesh: the graph triage -> investigate -> attribute  *)
(* -> dispatch (mesh/graph.py), the Investigator's hops (investigator.py), *)
(* the Dispatcher's outbox (dispatcher.py) and the approval gate           *)
(* (approvals.py) over the session store (sessions.py).                    *)
(*                                                                         *)
(* Every database commit is an action of its own, because the mesh process *)
(* can be killed between two commits and starts the graph again if the     *)
(* incident's alerts are redelivered.  What is in tables survives; what is *)
(* in the process (pc and the variables after it) does not.  The rows are  *)
(* those of one session: tables are keyed by session and one process runs  *)
(* one session at a time.  Operators approve from the approval API, a      *)
(* process of its own that serves requests concurrently.                   *)
(***************************************************************************)
EXTENDS Naturals, FiniteSets

CONSTANTS
  Plan,        \* the nodes plan_hops returns for the incident
  MaxHops,     \* SessionStore.max_hops
  Technique,   \* techniques an attribution may name
  Operator,    \* concurrent requests to the approval API
  NoTechnique, \* attribution.technique_id is None
  Nothing,     \* no row, no step, no message
  MaxCrashes   \* bound on the crashes of either process

VARIABLES
  severity,    \* severity of the incident, a function of its alerts
  holds,       \* nodes whose evidence store has records of the incident's window
  status,      \* sessions.status; "NONE": no row
  hopCount,    \* sessions.hop_count
  hopRow,      \* table hops: the outcome recorded for a node
  hopStep,     \* steps hop:<node>: [outcome, found]
  invStep,     \* step investigate: [evidence, degraded]
  attStep,     \* step attribute: the attribution
  dispStep,    \* step dispatch: recorded or not
  row,         \* table actions: [status, att] of an action type
  msg,         \* topic actions.<site>: payload published for an action type
  decided,     \* topic approvals: <<action type, decision>> published
  pc,          \* where the graph is; "idle": no run in progress
  node,        \* the node being asked
  outcome,     \* its outcome
  todo,        \* nodes still to be asked
  evidence,    \* nodes whose records are in memory
  degraded,    \* Investigation.degraded
  att,         \* MeshState.attribution
  acts,        \* actions still to be dispatched
  act,         \* the action being dispatched
  request,     \* per operator, the decision stored but not yet published
  crashes      \* how many crashes happened (bound)

tables == <<severity, holds, status, hopCount, hopRow, hopStep, invStep, attStep,
            dispStep, row, msg, decided>>
local == <<pc, node, outcome, todo, evidence, degraded, att, acts, act>>
vars == <<tables, local, request, crashes>>

-----------------------------------------------------------------------------
(* sessions.py: states and transitions *)

TERMINAL == {"COMPLETED", "COMPLETED_DEGRADED", "ABSTAINED", "FAILED"}

TRANSITIONS ==
  {<<"OPEN", "INVESTIGATING">>, <<"OPEN", "FAILED">>,
   <<"INVESTIGATING", "ATTRIBUTING">>, <<"INVESTIGATING", "ABSTAINED">>,
   <<"INVESTIGATING", "FAILED">>,
   <<"ATTRIBUTING", "DISPATCHING">>, <<"ATTRIBUTING", "ABSTAINED">>,
   <<"ATTRIBUTING", "FAILED">>,
   <<"DISPATCHING", "COMPLETED">>, <<"DISPATCHING", "COMPLETED_DEGRADED">>,
   <<"DISPATCHING", "FAILED">>}

Status == {"NONE", "OPEN", "INVESTIGATING", "ATTRIBUTING", "DISPATCHING"} \cup TERMINAL

\* "failed" stands for transient_error (retries used up) and error.
Outcome == {"ok", "failed", "deadline", "breaker_open"}

(* attribution.py and dispatcher.py: answers and the policy table *)

Abstention  == [technique |-> NoTechnique, confident |-> FALSE]
Attribution == [technique : Technique, confident : BOOLEAN] \cup {Abstention}

\* configs/policy/actions.yaml.  confident: the confidence reaches 0.5.
Policy ==
  [operator_alert      |-> [impact |-> "low",  initiated |-> FALSE, minSeverity |-> 0, sure |-> FALSE],
   increase_monitoring |-> [impact |-> "low",  initiated |-> FALSE, minSeverity |-> 1, sure |-> FALSE],
   isolate_or_block    |-> [impact |-> "high", initiated |-> FALSE, minSeverity |-> 2, sure |-> TRUE],
   change_threshold    |-> [impact |-> "high", initiated |-> TRUE,  minSeverity |-> 0, sure |-> FALSE]]

Action == DOMAIN Policy

Proposed(a) ==
  {t \in Action :
     /\ ~Policy[t].initiated
     /\ a.technique # NoTechnique
     /\ severity >= Policy[t].minSeverity
     /\ Policy[t].sure => a.confident}

\* Mutation: a status the column does not know.
InitialStatusUnknown(t) == IF Policy[t].impact = "low" THEN "dispatched" ELSE "pending"

InitialStatus(t) == IF Policy[t].impact = "low" THEN "dispatched" ELSE "pending_approval"

-----------------------------------------------------------------------------
HopPayload == [outcome : Outcome, found : BOOLEAN]
InvPayload == [evidence : SUBSET Plan, degraded : BOOLEAN]
ActionRow  == [status : {"dispatched", "pending_approval", "approved", "rejected"},
               att : Attribution]

\* Nothing, standing for NULL or a missing row, is no value of a column.
ASSUME MeshAssumption ==
  /\ IsFiniteSet(Plan)
  /\ MaxHops \in Nat
  /\ Cardinality(Plan) <= MaxHops
  /\ NoTechnique \notin Technique
  /\ MaxCrashes \in Nat
  /\ Nothing \notin Plan \cup Outcome \cup HopPayload \cup InvPayload \cup Attribution
                  \cup ActionRow \cup Action \cup (Action \X {"approved", "rejected"})
  /\ \A V \in SUBSET Action : V # Nothing

TypeOK ==
  /\ severity \in 0..2
  /\ holds \subseteq Plan
  /\ status \in Status
  /\ hopCount \in 0..MaxHops
  /\ hopRow  \in [Plan -> Outcome \cup {Nothing}]
  /\ hopStep \in [Plan -> HopPayload \cup {Nothing}]
  /\ invStep \in InvPayload \cup {Nothing}
  /\ attStep \in Attribution \cup {Nothing}
  /\ dispStep \in BOOLEAN
  /\ row \in [Action -> ActionRow \cup {Nothing}]
  /\ msg \in [Action -> ActionRow \cup {Nothing}]
  /\ decided \subseteq Action \X {"approved", "rejected"}
  /\ pc \in {"idle", "triage", "investigate", "hops", "hop_step", "hop_row", "attribute",
             "attributing", "abstain", "dispatch", "record", "publish", "finish", "raised"}
  /\ node \in Plan \cup {Nothing}
  /\ outcome \in Outcome \cup {Nothing}
  /\ todo \subseteq Plan
  /\ evidence \subseteq Plan
  /\ degraded \in BOOLEAN
  /\ att \in Attribution
  /\ acts \subseteq Action
  /\ act \in Action \cup {Nothing}
  /\ request \in [Operator -> (Action \X {"approved", "rejected"}) \cup {Nothing}]
  /\ crashes \in 0..MaxCrashes

Init ==
  /\ severity \in 0..2
  /\ holds \in SUBSET Plan
  /\ status = "NONE"
  /\ hopCount = 0
  /\ hopRow  = [n \in Plan |-> Nothing]
  /\ hopStep = [n \in Plan |-> Nothing]
  /\ invStep = Nothing
  /\ attStep = Nothing
  /\ dispStep = FALSE
  /\ row = [a \in Action |-> Nothing]
  /\ msg = [a \in Action |-> Nothing]
  /\ decided = {}
  /\ pc = "idle"
  /\ node = Nothing /\ outcome = Nothing
  /\ todo = {} /\ evidence = {} /\ degraded = FALSE
  /\ att = Abstention /\ acts = {} /\ act = Nothing
  /\ request = [o \in Operator |-> Nothing]
  /\ crashes = 0

-----------------------------------------------------------------------------
(* graph.py: _advance and _finish *)

Allowed(to) == <<status, to>> \in TRANSITIONS

\* Mutation: a session that is already in the state to be reached is refused.
AdvanceStrict(to, next) ==
  /\ status' = IF Allowed(to) THEN to ELSE status
  /\ pc' = IF Allowed(to) THEN next ELSE "raised"

\* _advance: a refused transition raises, and the exception ends the run.
Advance(to, next) ==
  /\ status' = IF Allowed(to) THEN to ELSE status
  /\ pc' = IF Allowed(to) \/ status = to \/ status \in TERMINAL THEN next ELSE "raised"

\* _finish: the last commit of a run.
Finish(to) ==
  /\ status' = IF Allowed(to) THEN to ELSE status
  /\ pc' = IF Allowed(to) \/ status \in TERMINAL THEN "idle" ELSE "raised"

\* A process holds nothing when it starts, and nothing of it is left when it ends.
Blank ==
  /\ node' = Nothing /\ outcome' = Nothing
  /\ todo' = {} /\ evidence' = {} /\ degraded' = FALSE
  /\ att' = Abstention /\ acts' = {} /\ act' = Nothing

-----------------------------------------------------------------------------
(* Node triage *)

\* store.open, when the incident's alerts are delivered: also for an incident
\* that is closed already, and again after a run that raised.
OpenSession ==
  /\ pc \in {"idle", "raised"}
  /\ status' = IF status = "NONE" THEN "OPEN" ELSE status
  /\ pc' = "triage"
  /\ Blank
  /\ UNCHANGED <<severity, holds, hopCount, hopRow, hopStep, invStep, attStep, dispStep, row, msg,
                 decided, request, crashes>>

\* Mutation: only a session this run has created is worked on.
RouteNewOnly ==
  /\ pc = "triage"
  /\ pc' = IF status = "OPEN" THEN "investigate" ELSE "idle"
  /\ UNCHANGED <<tables, node, outcome, todo, evidence, degraded, att, acts, act,
                 request, crashes>>

\* record_step("triage"), which nothing reads, and _after_triage.
RouteTriage ==
  /\ pc = "triage"
  /\ pc' = IF status \in TERMINAL THEN "idle" ELSE "investigate"
  /\ UNCHANGED <<tables, node, outcome, todo, evidence, degraded, att, acts, act,
                 request, crashes>>

-----------------------------------------------------------------------------
(* Node investigate *)

\* A recorded investigation is reused.
ReuseInvestigation ==
  /\ pc = "investigate"
  /\ invStep # Nothing
  /\ evidence' = invStep.evidence
  /\ degraded' = invStep.degraded
  /\ pc' = "attribute"
  /\ UNCHANGED <<tables, node, outcome, todo, att, acts, act, request, crashes>>

Done == {n \in Plan : hopRow[n] # Nothing}

\* Mutation: all planned nodes are asked, also those with a hop.
PlanAllHops ==
  /\ pc = "investigate"
  /\ invStep = Nothing
  /\ Advance("INVESTIGATING", "hops")
  /\ todo' = Plan
  /\ evidence' = {n \in Done : hopStep[n] # Nothing /\ hopStep[n].found}
  /\ UNCHANGED <<severity, holds, hopCount, hopRow, hopStep, invStep, attStep, dispStep, row, msg,
                 decided, node, outcome, degraded, att, acts, act, request, crashes>>

\* Investigator.run up to its loop: hops already made are not repeated, their
\* evidence comes from their steps.
PlanHops ==
  /\ pc = "investigate"
  /\ invStep = Nothing
  /\ Advance("INVESTIGATING", "hops")
  /\ todo' = Plan \ Done
  /\ evidence' = {n \in Done : hopStep[n] # Nothing /\ hopStep[n].found}
  /\ UNCHANGED <<severity, holds, hopCount, hopRow, hopStep, invStep, attStep, dispStep, row, msg,
                 decided, node, outcome, degraded, att, acts, act, request, crashes>>

\* One turn of the loop: the breaker and the retries end in one outcome.  A
\* node that is asked again returns the same records.
AskNode(n, o) ==
  /\ pc = "hops"
  /\ n \in todo
  /\ node' = n
  /\ outcome' = o
  /\ evidence' = IF o = "ok" /\ n \in holds THEN evidence \cup {n} ELSE evidence
  /\ degraded' = (degraded \/ o # "ok")
  /\ pc' = "hop_step"
  /\ UNCHANGED <<tables, todo, att, acts, act, request, crashes>>

\* _hop, first commit: INSERT OR IGNORE of the step hop:<node>.
RecordHopStep ==
  /\ pc = "hop_step"
  /\ hopStep' = [hopStep EXCEPT ![node] =
       IF @ = Nothing THEN [outcome |-> outcome, found |-> node \in evidence] ELSE @]
  /\ pc' = "hop_row"
  /\ UNCHANGED <<severity, holds, status, hopCount, hopRow, invStep, attStep, dispStep, row, msg,
                 decided, node, outcome, todo, evidence, degraded, att, acts, act,
                 request, crashes>>

\* _hop, second commit: record_hop, which refuses a hop beyond max_hops.
RecordHop ==
  /\ pc = "hop_row"
  /\ \/ /\ hopCount < MaxHops
        /\ hopRow' = [hopRow EXCEPT ![node] = outcome]
        /\ hopCount' = hopCount + 1
        /\ pc' = "hops"
     \/ /\ hopCount >= MaxHops
        /\ pc' = "raised"
        /\ UNCHANGED <<hopRow, hopCount>>
  /\ todo' = todo \ {node}
  /\ node' = Nothing
  /\ outcome' = Nothing
  /\ UNCHANGED <<severity, holds, status, hopStep, invStep, attStep, dispStep, row, msg, decided,
                 evidence, degraded, att, acts, act, request, crashes>>

\* The loop ends, for lack of nodes or because the deadline passed (late); the
\* result is recorded as step investigate.
EndInvestigation(late) ==
  /\ pc = "hops"
  /\ late = (todo # {})
  /\ invStep' = [evidence |-> evidence, degraded |-> degraded \/ late]
  /\ degraded' = (degraded \/ late)
  /\ todo' = {}
  /\ pc' = "attribute"
  /\ UNCHANGED <<severity, holds, status, hopCount, hopRow, hopStep, attStep, dispStep, row, msg,
                 decided, node, outcome, evidence, att, acts, act, request, crashes>>

-----------------------------------------------------------------------------
(* Node attribute *)

\* Mutation: an attribution below the confidence threshold counts as none.
AfterConfident(a) == IF a.confident THEN "dispatch" ELSE "abstain"

AfterAttribution(a) == IF a.technique = NoTechnique THEN "abstain" ELSE "dispatch"

ReuseAttribution ==
  /\ pc = "attribute"
  /\ attStep # Nothing
  /\ att' = attStep
  /\ pc' = AfterAttribution(attStep)
  /\ UNCHANGED <<tables, node, outcome, todo, evidence, degraded, acts, act,
                 request, crashes>>

\* Mutation: the agent is asked again although its answer is recorded.
AskAgain ==
  /\ pc = "attribute"
  /\ Advance(IF evidence = {} THEN "INVESTIGATING" ELSE "ATTRIBUTING", "attributing")
  /\ UNCHANGED <<severity, holds, hopCount, hopRow, hopStep, invStep, attStep, dispStep, row, msg,
                 decided, node, outcome, todo, evidence, degraded, att, acts, act,
                 request, crashes>>

StartAttribution ==
  /\ pc = "attribute"
  /\ attStep = Nothing
  /\ Advance(IF evidence = {} THEN "INVESTIGATING" ELSE "ATTRIBUTING", "attributing")
  /\ UNCHANGED <<severity, holds, hopCount, hopRow, hopStep, invStep, attStep, dispStep, row, msg,
                 decided, node, outcome, todo, evidence, degraded, att, acts, act,
                 request, crashes>>

\* The agent answers, differently each time it is asked, and the answer is
\* recorded as step attribute; without evidence the agent is not asked.
RecordAttribution(a) ==
  /\ pc = "attributing"
  /\ evidence = {} => a = Abstention
  /\ attStep' = IF attStep = Nothing THEN a ELSE attStep
  /\ att' = a
  /\ pc' = AfterAttribution(a)
  /\ UNCHANGED <<severity, holds, status, hopCount, hopRow, hopStep, invStep, dispStep, row, msg,
                 decided, node, outcome, todo, evidence, degraded, acts, act,
                 request, crashes>>

Abstain ==
  /\ pc = "abstain"
  /\ Finish("ABSTAINED")
  /\ evidence' = {} /\ degraded' = FALSE /\ att' = Abstention
  /\ UNCHANGED <<severity, holds, hopCount, hopRow, hopStep, invStep, attStep, dispStep, row, msg,
                 decided, node, outcome, todo, acts, act, request, crashes>>

-----------------------------------------------------------------------------
(* Node dispatch *)

ReuseDispatch ==
  /\ pc = "dispatch"
  /\ dispStep
  /\ pc' = "finish"
  /\ UNCHANGED <<tables, node, outcome, todo, evidence, degraded, att, acts, act,
                 request, crashes>>

StartDispatch ==
  /\ pc = "dispatch"
  /\ ~dispStep
  /\ Advance("DISPATCHING", "record")
  /\ acts' = Proposed(att)
  /\ UNCHANGED <<severity, holds, hopCount, hopRow, hopStep, invStep, attStep, dispStep, row, msg,
                 decided, node, outcome, todo, evidence, degraded, att, act,
                 request, crashes>>

\* Mutation: only a row that was inserted is published.
RecordAndPublishNew(a) ==
  /\ pc = "record"
  /\ a \in acts
  /\ row' = [row EXCEPT ![a] =
       IF @ = Nothing THEN [status |-> InitialStatus(a), att |-> att] ELSE @]
  /\ IF row[a] = Nothing THEN act' = a /\ pc' = "publish" /\ acts' = acts
                         ELSE acts' = acts \ {a} /\ UNCHANGED <<act, pc>>
  /\ UNCHANGED <<severity, holds, status, hopCount, hopRow, hopStep, invStep, attStep, dispStep, msg,
                 decided, node, outcome, todo, evidence, degraded, att,
                 request, crashes>>

\* Mutation: INSERT OR REPLACE.
RecordActionReplacing(a) ==
  /\ pc = "record"
  /\ a \in acts
  /\ row' = [row EXCEPT ![a] = [status |-> InitialStatus(a), att |-> att]]
  /\ act' = a
  /\ pc' = "publish"
  /\ UNCHANGED <<severity, holds, status, hopCount, hopRow, hopStep, invStep, attStep, dispStep, msg,
                 decided, node, outcome, todo, evidence, degraded, att, acts,
                 request, crashes>>

\* record_action: INSERT OR IGNORE, once per (session, type).
RecordAction(a) ==
  /\ pc = "record"
  /\ a \in acts
  /\ row' = [row EXCEPT ![a] =
       IF @ = Nothing THEN [status |-> InitialStatus(a), att |-> att] ELSE @]
  /\ act' = a
  /\ pc' = "publish"
  /\ UNCHANGED <<severity, holds, status, hopCount, hopRow, hopStep, invStep, attStep, dispStep, msg,
                 decided, node, outcome, todo, evidence, degraded, att, acts,
                 request, crashes>>

\* bus.publish with the action's id: a second publication is ignored.  The
\* status in the payload is the initial one, whatever the row says by now.
PublishAction ==
  /\ pc = "publish"
  /\ msg' = [msg EXCEPT ![act] =
       IF @ = Nothing THEN [status |-> InitialStatus(act), att |-> att] ELSE @]
  /\ acts' = acts \ {act}
  /\ act' = Nothing
  /\ pc' = "record"
  /\ UNCHANGED <<severity, holds, status, hopCount, hopRow, hopStep, invStep, attStep, dispStep, row,
                 decided, node, outcome, todo, evidence, degraded, att,
                 request, crashes>>

RecordDispatch ==
  /\ pc = "record"
  /\ acts = {}
  /\ dispStep' = TRUE
  /\ pc' = "finish"
  /\ UNCHANGED <<severity, holds, status, hopCount, hopRow, hopStep, invStep, attStep, row, msg,
                 decided, node, outcome, todo, evidence, degraded, att, acts, act,
                 request, crashes>>

Complete ==
  /\ pc = "finish"
  /\ Finish(IF degraded THEN "COMPLETED_DEGRADED" ELSE "COMPLETED")
  /\ evidence' = {} /\ degraded' = FALSE /\ att' = Abstention
  /\ UNCHANGED <<severity, holds, hopCount, hopRow, hopStep, invStep, attStep, dispStep, row, msg,
                 decided, node, outcome, todo, acts, act, request, crashes>>

-----------------------------------------------------------------------------
(* The process is killed. *)

Crash ==
  /\ pc \notin {"idle", "raised"}
  /\ crashes < MaxCrashes
  /\ crashes' = crashes + 1
  /\ pc' = "idle"
  /\ Blank
  /\ UNCHANGED <<tables, request>>

-----------------------------------------------------------------------------
(* approvals.py: decide, called with a valid token *)

\* Mutation: the row is set without comparing.
DecideBlindly(o, a, d) ==
  /\ request[o] = Nothing
  /\ row[a] # Nothing
  /\ Policy[a].impact = "high"
  /\ row' = [row EXCEPT ![a].status = d]
  /\ request' = [request EXCEPT ![o] = <<a, d>>]
  /\ UNCHANGED <<severity, holds, status, hopCount, hopRow, hopStep, invStep, attStep, dispStep, msg,
                 decided, local, crashes>>

\* The row is read and compared-and-set; only the set matters, since impact and
\* existence of a row never change.
Decide(o, a, d) ==
  /\ request[o] = Nothing
  /\ row[a] # Nothing
  /\ Policy[a].impact = "high"
  /\ row[a].status = "pending_approval"
  /\ row' = [row EXCEPT ![a].status = d]
  /\ request' = [request EXCEPT ![o] = <<a, d>>]
  /\ UNCHANGED <<severity, holds, status, hopCount, hopRow, hopStep, invStep, attStep, dispStep, msg,
                 decided, local, crashes>>

PublishDecision(o) ==
  /\ request[o] # Nothing
  /\ decided' = decided \cup {request[o]}
  /\ request' = [request EXCEPT ![o] = Nothing]
  /\ UNCHANGED <<severity, holds, status, hopCount, hopRow, hopStep, invStep, attStep, dispStep, row,
                 msg, local, crashes>>

CrashApi ==
  /\ \E o \in Operator : request[o] # Nothing
  /\ crashes < MaxCrashes
  /\ crashes' = crashes + 1
  /\ request' = [o \in Operator |-> Nothing]
  /\ UNCHANGED <<tables, local>>

-----------------------------------------------------------------------------
\* A run in progress, that is, one call of compiled.invoke.
RunOn ==
  \/ RouteTriage
  \/ ReuseInvestigation \/ PlanHops
  \/ \E n \in Plan, o \in Outcome : AskNode(n, o)
  \/ RecordHopStep \/ RecordHop
  \/ \E late \in BOOLEAN : EndInvestigation(late)
  \/ ReuseAttribution \/ StartAttribution
  \/ \E a \in Attribution : RecordAttribution(a)
  \/ Abstain
  \/ ReuseDispatch \/ StartDispatch
  \/ \E a \in Action : RecordAction(a)
  \/ PublishAction \/ RecordDispatch \/ Complete

Graph == OpenSession \/ RunOn

Approvals ==
  \/ \E o \in Operator, a \in Action, d \in {"approved", "rejected"} : Decide(o, a, d)
  \/ \E o \in Operator : PublishDecision(o)

Next == Graph \/ Approvals \/ Crash \/ CrashApi

Spec == Init /\ [][Next]_vars

\* A run in progress is scheduled.  Nothing is assumed of what starts one: after a
\* crash the alerts may never come back, or come back as another incident
\* (Pipeline.tla), and then the session stays as it is.  Nor of the operators.
FairSpec == Spec /\ WF_vars(RunOn)

-----------------------------------------------------------------------------
(* What documents claim and the code does only in part: how far it goes is in *)
(* HopsKept, CompletedTruly and DecisionsKept below.                          *)

Completed == {"COMPLETED", "COMPLETED_DEGRADED"}

\* graph.py 16: COMPLETED_DEGRADED "when the investigation hit its deadline or
\* an open breaker"; Investigation.degraded is not restored with the hops.
DegradedIsReported ==
  status = "COMPLETED" => \A n \in Plan : hopRow[n] \notin {"deadline", "breaker_open"}

\* investigator.py 88: hops made "are not repeated; their evidence comes back
\* from the session store"; a step written before a crash keeps its first payload.
EvidenceComesBack ==
  pc = "attribute" =>
    \A n \in holds : hopRow[n] = "ok" => n \in evidence

\* approvals.py 11: "Every decision is published on the approvals topic"; the
\* row is committed before the publication and a retry is refused.
DecisionsArePublished ==
  \A a \in Action, d \in {"approved", "rejected"} :
    (row[a] # Nothing /\ row[a].status = d) =>
      <<a, d>> \in decided \/ \E o \in Operator : request[o] = <<a, d>>

-----------------------------------------------------------------------------
(* Safety *)

\* No sequence of crashes and restarts makes the graph ask for a transition
\* that TRANSITIONS refuses or for a hop beyond max_hops: such a TransitionError
\* would come back on every redelivery and the incident would never close.
NeverRaises == pc # "raised"

\* Every node has at most one hop in the session, and hop_count counts them: a
\* node with a hop is not asked again (investigator.py, the comment in run).
HopsNotRepeated ==
  /\ hopCount = Cardinality(Done)
  /\ node # Nothing => hopRow[node] = Nothing

\* Hops are not repeated and their evidence comes back (investigator.py 88) after
\* any one crash, wherever it strikes; mesh_evidence needs two to lose evidence.
HopsKept == HopsNotRepeated /\ (crashes <= 1 => EvidenceComesBack)

\* All actions of a session follow from one recorded attribution, although the
\* agent may answer differently after a restart (graph.py: "never repeats
\* completed work"); a message says the same as its row.
OneAttribution ==
  \A a \in Action :
    /\ row[a] # Nothing => /\ attStep # Nothing
                           /\ row[a].att = attStep
                           /\ a \in Proposed(attStep)
    /\ msg[a] # Nothing => /\ row[a] # Nothing
                           /\ msg[a].att = row[a].att

\* The outbox of a completed session has no gap.
OutboxComplete ==
  status \in Completed =>
    \A a \in Proposed(attStep) : row[a] # Nothing /\ msg[a] # Nothing

\* Its status is that of the recorded investigation.
StatusTellsDegraded ==
  status \in Completed =>
    invStep # Nothing /\ (invStep.degraded <=> status = "COMPLETED_DEGRADED")

\* Unless something crashed, a completed session is COMPLETED exactly when every
\* planned node answered: DegradedIsReported and its converse.
DegradedUnlessCrashed ==
  (crashes = 0 /\ status \in Completed) =>
    (status = "COMPLETED" <=> \A n \in Plan : hopRow[n] = "ok")

\* A completed session tells the truth about its steps: every action the policy
\* proposes was recorded and published, since a crash between the two writes of the
\* outbox leaves no gap (dispatcher.py: "a crash between them is repaired by running
\* again"), and the final status is the one of the recorded investigation, which
\* itself is right about the hops unless a crash made it forget one.
CompletedTruly == OutboxComplete /\ StatusTellsDegraded /\ DegradedUnlessCrashed

\* The decisions published or about to be published for an action are those its
\* row holds: two operators never both decide (approvals.decide).
DecisionsConsistent ==
  \A a \in Action, d \in {"approved", "rejected"} :
    (<<a, d>> \in decided \/ \E o \in Operator : request[o] = <<a, d>>) =>
      row[a] # Nothing /\ row[a].status = d

\* A message announces an action as it was first recorded, also one published after
\* an operator decided; the row differs from it by a decision on a high-impact
\* action only, so the two topics together tell every row (dispatcher.run).
AnnouncedAsRecorded ==
  \A a \in Action :
    /\ msg[a] # Nothing => msg[a].status = InitialStatus(a)
    /\ row[a] # Nothing => \/ row[a].status = InitialStatus(a)
                           \/ Policy[a].impact = "high" /\ row[a].status \in {"approved", "rejected"}

\* The topics and the rows agree, and both ways unless something crashed.
DecisionsKept ==
  /\ DecisionsConsistent
  /\ AnnouncedAsRecorded
  /\ crashes = 0 => DecisionsArePublished

\* Rows of actions are never lost, and the only change a row ever sees is one
\* operator's decision on a pending high-impact action: no restart of the mesh
\* dispatches it, reopens it or changes its attribution.
HighImpactGate ==
  [][\A a \in Action :
       (row[a] # Nothing /\ row'[a] # row[a]) =>
         /\ Policy[a].impact = "high"
         /\ row[a].status = "pending_approval"
         /\ \E o \in Operator, d \in {"approved", "rejected"} :
              /\ request'[o] = <<a, d>> /\ request[o] = Nothing
              /\ row' = [row EXCEPT ![a].status = d]]_vars

\* A run of the graph that nothing kills closes its session, from whatever state
\* the crashes before it left, and also when it meets the decisions of operators:
\* one resumption is enough (graph.py 10: a node "whose step is already recorded
\* reuses the stored result").
EveryRunCloses ==
  \A k \in 0..MaxCrashes :
    (pc # "idle" /\ crashes = k) ~> (crashes > k \/ (pc = "idle" /\ status \in TERMINAL))

-----------------------------------------------------------------------------
(* The mesh implements Incident. *)

stageBar ==
  IF status = "NONE" THEN "none"
  ELSE IF status = "ABSTAINED" THEN "abstained"
  ELSE IF status \in Completed THEN "completed" ELSE "open"

I == INSTANCE Incident WITH
       Undecided <- Nothing,
       stage     <- stageBar,
       verdict   <- IF attStep = Nothing THEN Nothing ELSE Proposed(attStep),
       recorded  <- {a \in Action : row[a] # Nothing},
       announced <- {a \in Action : msg[a] # Nothing}

ImplementsIncident == I!ISpec
=============================================================================
