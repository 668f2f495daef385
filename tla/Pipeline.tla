------------------------------ MODULE Pipeline ------------------------------
(***************************************************************************)
(* From alerts to incidents: mesh/runner.py consume, over the bus (Bus)    *)
(* and Triage (mesh/triage.py).  A consume run claims the alerts of one    *)
(* site in batches, groups them by the delta-t rule, runs the graph for    *)
(* every incident that closes and only then acknowledges its alerts, one   *)
(* by one.  The run can be killed between any two commits and may be       *)
(* started again, with an empty Triage, on the same database, as           *)
(* tests/chaos/worker.py is; leases run out while it works.  What happens  *)
(* within a session is Mesh; here a session is the set of its alerts (the  *)
(* idempotency key), first open and then closed.                           *)
(***************************************************************************)
EXTENDS Bus, Sequences

CONSTANTS
  Site,        \* the topic alerts.<site>
  Mesh,        \* the name all consume runs claim under
  Batch,       \* limit of a claim
  End,         \* window_end of each alert, in data time
  DeltaT,      \* Triage.delta_t_s
  MaxFailures  \* bound on crashes and timeouts

ASSUME PipelineAssumption ==
  /\ Site \in Topic
  /\ Mesh \in Consumer
  /\ Batch \in 1..MaxBatch
  /\ End \in [Msg -> Nat]
  /\ DeltaT \in Nat \ {0}
  /\ MaxFailures \in Nat

VARIABLES
  pc,        \* "down": no consume run
  seen,      \* alerts this run has been handed
  inbox,     \* fresh alerts of the last claim, still to be fed
  group,     \* Triage._open[site]
  incident,  \* alerts of the incident that closed, still to be acknowledged
  opened,    \* sessions in the store, as sets of alerts
  closed,    \* those in a terminal state
  failures,  \* crashes and timeouts so far (bound)
  cut        \* history: alerts in the hands of a run when it was cut short

store  == <<opened, closed>>
memory == <<seen, inbox, group, incident>>
past   == <<failures, cut>>
pvars  == <<vars, pc, memory, store, past>>

Elements(s) == {s[i] : i \in DOMAIN s}

\* What the run has taken from the bus and not let go.
InHand == inbox \cup Elements(group) \cup Elements(incident)

PTypeOK ==
  /\ TypeOK
  /\ pc \in {"down", "poll", "feed", "session", "running", "ack", "drain"}
  /\ seen \subseteq Msg
  /\ inbox \subseteq Msg
  /\ group \in Seq(Msg)
  /\ incident \in Seq(Msg)
  /\ opened \subseteq SUBSET Msg
  /\ closed \subseteq opened
  /\ failures \in 0..MaxFailures
  /\ cut \subseteq Msg

PInit ==
  /\ Init
  /\ pc = "down"
  /\ seen = {} /\ inbox = {} /\ group = <<>> /\ incident = <<>>
  /\ opened = {} /\ closed = {}
  /\ failures = 0
  /\ cut = {}

-----------------------------------------------------------------------------
(* The edge runtime publishes a site's alerts in data time. *)

PublishAlert(m) ==
  /\ \A n \in Msg : End[n] < End[m] => n \in Published
  /\ Publish(m, Site)
  /\ UNCHANGED <<pc, memory, store, past>>

\* Mutation: a group of one alert is never closed.
ClosesLongGroup(m) ==
  /\ Len(group) > 1
  /\ \A g \in Elements(group) : End[m] > End[g] + DeltaT

\* Triage.feed closes the open group before it adds an alert that ends more
\* than delta_t after the group's last one.
ClosesGroup(m) ==
  /\ group # <<>>
  /\ \A g \in Elements(group) : End[m] > End[g] + DeltaT

-----------------------------------------------------------------------------
(* consume *)

Start ==
  /\ pc = "down"
  /\ pc' = "poll"
  /\ UNCHANGED <<vars, memory, store, past>>

\* Mutation: alerts handed out before are not skipped.
PollAll ==
  /\ pc = "poll"
  /\ \E S \in SUBSET Claimable(Site) :
       /\ IsOldest(S, Claimable(Site), Batch)
       /\ ClaimRows(Mesh, S, Exhausted(Site))
       /\ inbox' = S
       /\ seen' = seen \cup S
       /\ pc' = IF S = {} THEN "drain" ELSE "feed"
  /\ UNCHANGED <<group, incident, store, past>>

\* An alert whose lease ran out while its incident is open is claimed again and
\* skipped; a claim without any fresh alert ends the loop.
Poll ==
  /\ pc = "poll"
  /\ \E S \in SUBSET Claimable(Site) :
       /\ IsOldest(S, Claimable(Site), Batch)
       /\ ClaimRows(Mesh, S, Exhausted(Site))
       /\ inbox' = S \ seen
       /\ seen' = seen \cup S
       /\ pc' = IF S \subseteq seen THEN "drain" ELSE "feed"
  /\ UNCHANGED <<group, incident, store, past>>

Feed(m) ==
  /\ pc = "feed"
  /\ m \in inbox
  /\ \A n \in inbox \ {m} : created[m] < created[n]
  /\ inbox' = inbox \ {m}
  /\ \/ /\ ClosesGroup(m)
        /\ incident' = group
        /\ group' = <<m>>
        /\ pc' = "session"
     \/ /\ ~ClosesGroup(m)
        /\ group' = Append(group, m)
        /\ UNCHANGED <<incident, pc>>
  /\ UNCHANGED <<vars, seen, store, past>>

EndBatch ==
  /\ pc = "feed"
  /\ inbox = {}
  /\ pc' = "poll"
  /\ UNCHANGED <<vars, memory, store, past>>

\* Mutation: the open group is forgotten.
DrainNothing ==
  /\ pc = "drain"
  /\ group' = <<>>
  /\ pc' = "down"
  /\ seen' = {}
  /\ UNCHANGED <<vars, inbox, incident, store, past>>

\* After the loop the open group, if there is one, is closed.
Drain ==
  /\ pc = "drain"
  /\ incident' = group
  /\ group' = <<>>
  /\ pc' = IF group = <<>> THEN "down" ELSE "session"
  /\ seen' = IF group = <<>> THEN {} ELSE seen
  /\ UNCHANGED <<vars, inbox, store, past>>

\* Mutation: alerts are acknowledged before the graph has ended.
OpenAndAck ==
  /\ pc = "session"
  /\ opened' = opened \cup {Elements(incident)}
  /\ pc' = "ack"
  /\ UNCHANGED <<vars, memory, closed, past>>

\* mesh.run: store.open, a no-op for a session that exists ...
OpenSession ==
  /\ pc = "session"
  /\ opened' = opened \cup {Elements(incident)}
  /\ pc' = "running"
  /\ UNCHANGED <<vars, memory, closed, past>>

\* Mutation: the group that is still open is taken for the one that closed.
CloseGroup ==
  /\ pc = "running"
  /\ closed' = closed \cup {Elements(group)}
  /\ pc' = "ack"
  /\ UNCHANGED <<vars, memory, opened, past>>

\* ... and the graph up to a terminal state, at once for a closed session.
CloseSession ==
  /\ pc = "running"
  /\ closed' = closed \cup {Elements(incident)}
  /\ pc' = "ack"
  /\ UNCHANGED <<vars, memory, opened, past>>

\* Mutation: only the incident's first alert is acknowledged.
AckFirst ==
  /\ pc = "ack"
  /\ incident # <<>>
  /\ \/ Ack(Head(incident), Mesh)
     \/ (leaseOwner[Head(incident)] # Mesh \/ Head(incident) \in acked) /\ UNCHANGED vars
  /\ incident' = <<>>
  /\ UNCHANGED <<pc, seen, inbox, group, store, past>>

\* bus.ack of the incident's next alert; its result is not looked at.
AckAlert ==
  /\ pc = "ack"
  /\ incident # <<>>
  /\ \/ Ack(Head(incident), Mesh)
     \/ (leaseOwner[Head(incident)] # Mesh \/ Head(incident) \in acked) /\ UNCHANGED vars
  /\ incident' = Tail(incident)
  /\ UNCHANGED <<pc, seen, inbox, group, store, past>>

\* The group is empty only when the run is draining: consume returns.
EndIncident ==
  /\ pc = "ack"
  /\ incident = <<>>
  /\ pc' = IF group = <<>> THEN "down" ELSE "feed"
  /\ seen' = IF group = <<>> THEN {} ELSE seen
  /\ UNCHANGED <<vars, inbox, group, incident, store, past>>

-----------------------------------------------------------------------------
(* The run ends otherwise. *)

Forget ==
  /\ pc' = "down"
  /\ seen' = {} /\ inbox' = {} /\ group' = <<>> /\ incident' = <<>>

\* Killed, or an exception out of the graph.
Crash ==
  /\ pc # "down"
  /\ failures < MaxFailures
  /\ failures' = failures + 1
  /\ cut' = cut \cup InHand
  /\ Forget
  /\ UNCHANGED <<vars, store>>

\* fut.result gives up; leaving the pool still waits for the graph to end, so
\* the session is closed but nothing is acknowledged.
TimeOut ==
  /\ pc = "running"
  /\ failures < MaxFailures
  /\ failures' = failures + 1
  /\ cut' = cut \cup InHand
  /\ closed' = closed \cup {Elements(incident)}
  /\ Forget
  /\ UNCHANGED <<vars, opened>>

Time == Tick /\ UNCHANGED <<pc, memory, store, past>>

Run ==
  \/ Start \/ Poll \/ EndBatch \/ Drain
  \/ \E m \in Msg : Feed(m)
  \/ OpenSession \/ CloseSession \/ AckAlert \/ EndIncident

PNext ==
  \/ \E m \in Msg : PublishAlert(m)
  \/ Run \/ Crash \/ TimeOut \/ Time

PSpec == PInit /\ [][PNext]_pvars

\* A run is scheduled and time passes; and, which is up to who operates the mesh and
\* no loop of the code, consume is called again after it ended or was killed.
PFairSpec == PSpec /\ WF_pvars(Run) /\ WF_pvars(Time)

\* Only sessions take time: a caller whose leases are shorter than a session.
PNextSlow ==
  \/ \E m \in Msg : PublishAlert(m)
  \/ Run \/ Crash \/ TimeOut
  \/ pc = "running" /\ Time

PSlowSpec == PInit /\ [][PNextSlow]_pvars /\ WF_pvars(Run)

-----------------------------------------------------------------------------
(* Properties *)

Handled == UNION closed

\* An alert is acknowledged only after a session that contains it reached a
\* terminal state: no crash loses an alert that the bus will not hand out again
\* (bus/base.py: ack "after the handler's own writes have committed").
AckedIsHandled == acked \subseteq Handled

\* Every alert that was ever handed out is in a closed session, in the hands of the
\* run, or was in the hands of a run that was cut short: a dead letter that nobody
\* handled, the safety half of EventuallyHandled, takes a cut on that very alert.
NothingDropped ==
  \A m \in Msg : attempts[m] > 0 => m \in Handled \cup InHand \cup cut

\* Within a run an alert is in one place at most and only once, although its
\* lease may run out and it is claimed again (runner.py, the comment on seen).
FedOnce ==
  /\ inbox \cup Elements(group) \cup Elements(incident) \subseteq seen
  /\ inbox \cap (Elements(group) \cup Elements(incident)) = {}
  /\ Elements(group) \cap Elements(incident) = {}
  /\ \A i, j \in DOMAIN group : i # j => group[i] # group[j]
  /\ \A i, j \in DOMAIN incident : i # j => incident[i] # incident[j]

\* Two different sessions share alerts of Again only.
DisjointBut(Sessions, Again) == \A S, T \in Sessions : S # T => S \cap T \subseteq Again

\* Sessions no run is working on that never ended.
LeftOpen ==
  {S \in opened \ closed : ~(pc = "running" /\ S = Elements(incident))}

\* Two sessions share only alerts that a run held when it was cut short, and a
\* session is left open only by a cut, at most one by each, with all its alerts
\* in the hands of the run that was cut: neither leases that ran out, nor later
\* runs, nor the cut of other alerts make the mesh act twice upon an alert.
HandledOnce ==
  /\ DisjointBut(opened, cut)
  /\ UNION LeftOpen \subseteq cut
  /\ Cardinality(LeftOpen) <= failures

\* No part of S is further than delta_t from the rest of it.
Chained(S) ==
  \A m \in S : \/ \A n \in S : End[n] <= End[m]
               \/ \E n \in S : End[m] < End[n] /\ End[n] <= End[m] + DeltaT

\* An incident without an alert redelivered after a cut is a chain in data time, the
\* one mesh/fusion.py's incidents forms from sorted alerts, although Triage sees
\* alerts in the order of claims (triage.py, module docstring), and also in the runs
\* after a cut, where alerts handed out before come between the new ones.
IncidentsChained == \A S \in opened : Chained(S) \/ S \cap cut # {}

\* Every published alert ends up in a closed session, also when its attempts
\* are used up while its incident is open; only an alert that was itself in the
\* hands of a run cut short can become a dead letter that nobody handled.
EventuallyHandled ==
  \A m \in Msg :
    (topic[m] # NoTopic) ~> (m \in Handled \/ m \in failed \cap cut)

-----------------------------------------------------------------------------
(* What documents claim and the code does not do *)

\* sessions.py 4-6: "Opening the same incident twice, for example after an alert
\* is redelivered, returns the existing session"; once some of the incident's
\* alerts are acknowledged, those redelivered make another key.
RedeliveryReusesSession == DisjointBut(closed, {})

\* runner.py 144: "Drain alerts.<site>"; the loop also ends when the oldest
\* claimable alerts were all seen before, with unseen ones behind the limit.
DrainsTheTopic ==
  [][(pc = "poll" /\ pc' = "drain") => Claimable(Site) \subseteq seen]_pvars

-----------------------------------------------------------------------------
(* The pipeline implements Handling. *)

H == INSTANCE Handling WITH
       Alert   <- Msg,
       offered <- Published,
       inHand  <- InHand,
       dead    <- failed

ImplementsHandling == H!HSpec
=============================================================================
