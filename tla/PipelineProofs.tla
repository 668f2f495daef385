--------------------------- MODULE PipelineProofs ---------------------------
(***************************************************************************)
(* Proofs about Pipeline.tla for every set of alerts, batch size, window,  *)
(* lease and number of crashes.  The pipeline is a user of the bus, so the *)
(* bus's invariant (BusProofs) carries over; on top of it RunInv says what *)
(* a consume run holds in memory and how that relates to the bus's rows    *)
(* and to the session store.                                               *)
(***************************************************************************)
EXTENDS Pipeline, BusProofs

(* Facts about sequences as the lists of a run *)

LEMMA ElementsEmpty == Elements(<<>>) = {}
  BY DEF Elements

LEMMA ElementsSingle ==
  ASSUME NEW m
  PROVE  Elements(<<m>>) = {m}
  BY DEF Elements

Injective(s) == \A i, j \in DOMAIN s : i # j => s[i] # s[j]

LEMMA ElementsAppend ==
  ASSUME NEW s \in Seq(Msg), NEW m \in Msg
  PROVE  /\ Append(s, m) \in Seq(Msg)
         /\ Append(s, m) # <<>>
         /\ Elements(Append(s, m)) = Elements(s) \cup {m}
         /\ Injective(s) /\ m \notin Elements(s) => Injective(Append(s, m))
<1>1. /\ Append(s, m) \in Seq(Msg)
      /\ DOMAIN Append(s, m) = 1..(Len(s) + 1)
      /\ DOMAIN s = 1..Len(s)
      /\ Len(s) \in Nat
      /\ \A i \in 1..Len(s) : Append(s, m)[i] = s[i]
      /\ Append(s, m)[Len(s) + 1] = m
  OBVIOUS
<1>2. Elements(Append(s, m)) = Elements(s) \cup {m}
  BY <1>1 DEF Elements
<1>3. Injective(s) /\ m \notin Elements(s) => Injective(Append(s, m))
  BY <1>1 DEF Elements, Injective
<1>4. Append(s, m) # <<>>
  <2>1. Len(Append(s, m)) = Len(s) + 1 /\ Len(s) \in Nat /\ Len(<<>>) = 0
    OBVIOUS
  <2>2. QED
    BY <2>1
<1>5. QED
  BY <1>1, <1>2, <1>3, <1>4

LEMMA ElementsTail ==
  ASSUME NEW s \in Seq(Msg), s # <<>>
  PROVE  /\ Tail(s) \in Seq(Msg)
         /\ Head(s) \in Msg
         /\ Elements(s) = Elements(Tail(s)) \cup {Head(s)}
         /\ Injective(s) => Injective(Tail(s))
<1>1. /\ Tail(s) \in Seq(Msg)
      /\ Len(s) \in Nat \ {0}
      /\ DOMAIN s = 1..Len(s)
      /\ DOMAIN Tail(s) = 1..(Len(s) - 1)
      /\ Head(s) = s[1]
      /\ \A i \in 1..(Len(s) - 1) : Tail(s)[i] = s[i + 1]
  OBVIOUS
<1>2. Head(s) \in Msg
  BY <1>1
<1>3. Elements(s) \subseteq Elements(Tail(s)) \cup {Head(s)}
  <2>1. ASSUME NEW i \in 1..Len(s) PROVE s[i] \in Elements(Tail(s)) \cup {Head(s)}
    <3>1. CASE i = 1
      BY <1>1, <3>1
    <3>2. CASE i # 1
      <4>1. i - 1 \in 1..(Len(s) - 1) /\ s[(i - 1) + 1] = s[i]
        BY <1>1, <3>2
      <4>2. QED
        BY <1>1, <4>1 DEF Elements
    <3>3. QED
      BY <3>1, <3>2
  <2>2. QED
    BY <1>1, <2>1 DEF Elements
<1>4. Elements(Tail(s)) \cup {Head(s)} \subseteq Elements(s)
  BY <1>1 DEF Elements
<1>5. Injective(s) => Injective(Tail(s))
  BY <1>1 DEF Injective
<1>6. QED
  BY <1>1, <1>2, <1>3, <1>4, <1>5

-----------------------------------------------------------------------------
(* The pipeline uses the bus as the bus allows. *)

\* The types of what the pipeline adds to the bus.
RunType ==
  /\ pc \in {"down", "poll", "feed", "session", "running", "ack", "drain"}
  /\ seen \subseteq Msg
  /\ inbox \subseteq Msg
  /\ group \in Seq(Msg)
  /\ incident \in Seq(Msg)
  /\ opened \subseteq SUBSET Msg
  /\ closed \subseteq SUBSET Msg
  /\ failures \in 0..MaxFailures
  /\ cut \subseteq Msg

LEMMA ElementsType ==
  ASSUME NEW s \in Seq(Msg)
  PROVE  Elements(s) \subseteq Msg
  BY DEF Elements

LEMMA RunTypeStep == RunType /\ [PNext]_pvars => RunType'
<1> SUFFICES ASSUME RunType, [PNext]_pvars PROVE RunType'
  OBVIOUS
<1> USE PipelineAssumption DEF RunType
<1>0. /\ <<>> \in Seq(Msg)
      /\ Elements(incident) \subseteq Msg
      /\ InHand \subseteq Msg
  BY ElementsType DEF InHand
<1>1. CASE \E m \in Msg : PublishAlert(m)
  BY <1>1 DEF PublishAlert, memory, store, past
<1>2. CASE Start
  BY <1>2 DEF Start, memory, store, past
<1>3. CASE Poll
  <2>1. Claimable(Site) \subseteq Msg
    BY DEF Claimable
  <2>2. QED
    BY <1>3, <2>1 DEF Poll, store, past
<1>4. ASSUME NEW m \in Msg, Feed(m) PROVE RunType'
  <2>1. <<m>> \in Seq(Msg) /\ Append(group, m) \in Seq(Msg)
    BY ElementsAppend
  <2>2. QED
    BY <1>4, <2>1 DEF Feed, store, past
<1>5. CASE EndBatch
  BY <1>5 DEF EndBatch, memory, store, past
<1>6. CASE Drain
  BY <1>6, <1>0 DEF Drain, store, past
<1>7. CASE OpenSession
  BY <1>7, <1>0 DEF OpenSession, memory, past
<1>8. CASE CloseSession
  BY <1>8, <1>0 DEF CloseSession, memory, past
<1>9. CASE AckAlert
  BY <1>9, ElementsTail DEF AckAlert, store, past
<1>10. CASE EndIncident
  BY <1>10 DEF EndIncident, store, past
<1>11. CASE Crash
  BY <1>11, <1>0 DEF Crash, Forget, store
<1>12. CASE TimeOut
  BY <1>12, <1>0 DEF TimeOut, Forget
<1>13. CASE Time
  BY <1>13 DEF Time, memory, store, past
<1>14. CASE UNCHANGED pvars
  BY <1>14 DEF pvars, memory, store, past
<1>15. QED
  BY <1>1, <1>2, <1>3, <1>4, <1>5, <1>6, <1>7, <1>8, <1>9, <1>10, <1>11, <1>12, <1>13, <1>14
     DEF PNext, Run

LEMMA RunTypeInit == PInit => RunType
  BY PipelineAssumption DEF PInit, RunType

LEMMA BusStep == RunType /\ [PNext]_pvars => [Next]_vars
<1> SUFFICES ASSUME RunType, [PNext]_pvars PROVE [Next]_vars
  OBVIOUS
<1>1. CASE \E m \in Msg : PublishAlert(m)
  BY <1>1, PipelineAssumption DEF PublishAlert, Next
<1>2. CASE Poll
  <2>1. PICK S \in SUBSET Claimable(Site) :
          IsOldest(S, Claimable(Site), Batch) /\ ClaimRows(Mesh, S, Exhausted(Site))
    BY <1>2 DEF Poll
  <2>2. Claim(Site, Mesh)
    BY <2>1, PipelineAssumption DEF Claim
  <2>3. QED
    BY <2>2, PipelineAssumption DEF Next
<1>3. CASE AckAlert
  <2>1. Head(incident) \in Msg
    BY <1>3, ElementsTail DEF AckAlert, RunType
  <2>2. CASE Ack(Head(incident), Mesh)
    BY <2>1, <2>2, PipelineAssumption DEF Next
  <2>3. CASE UNCHANGED vars
    BY <2>3
  <2>4. QED
    BY <1>3, <2>2, <2>3 DEF AckAlert
<1>4. CASE Time
  BY <1>4 DEF Time, Next
<1>5. CASE UNCHANGED vars
  BY <1>5
<1>6. QED
  BY <1>1, <1>2, <1>3, <1>4, <1>5
     DEF PNext, Run, Start, Feed, EndBatch, Drain, OpenSession, CloseSession, EndIncident,
         Crash, TimeOut, pvars

\* The pipeline is a client of the bus: every behaviour of it is one of the
\* bus, so what BusProofs shows of the bus holds in the pipeline.
THEOREM PipelineUsesBus == PSpec => Spec
<1>1. PSpec => []RunType
  BY RunTypeInit, RunTypeStep, PTL DEF PSpec
<1>2. PInit => Init
  BY DEF PInit
<1>3. QED
  BY <1>1, <1>2, BusStep, PTL DEF PSpec, Spec

-----------------------------------------------------------------------------
(* What a run holds in memory, and what it owes to the bus and the store *)

\* Where the lists of the run are filled.
Phases ==
  /\ pc = "down" => seen = {} /\ group = <<>>
  /\ pc \in {"down", "poll", "drain"} => inbox = {}
  /\ pc \in {"session", "running", "ack"} /\ group = <<>> => inbox = {}
  /\ pc \in {"down", "poll", "feed", "drain"} => incident = <<>>
  /\ pc = "running" => Elements(incident) \in opened
  /\ pc = "ack" => Elements(incident) \subseteq Handled
  /\ closed \subseteq opened

\* The run has not lost track of an alert it was handed: the alert is settled,
\* or it is in one of the lists and still claimed by the run.
Accounted ==
  /\ seen \subseteq inbox \cup Elements(group) \cup Elements(incident) \cup acked \cup failed
  /\ \A m \in seen : m \in acked \cup failed \/ leaseOwner[m] = Mesh

\* What was in a session comes back from the bus to no later run, and is not in a
\* later incident of this one, unless it was in the hands of a run cut short.
NotAgain ==
  /\ UNION opened \subseteq seen \cup acked \cup failed \cup cut
  /\ (UNION opened) \cap (inbox \cup Elements(group)) \subseteq cut
  /\ pc = "session" => (UNION opened) \cap Elements(incident) \subseteq cut

RunInv ==
  RunType /\ AckedIsHandled /\ FedOnce /\ Phases /\ Accounted /\ NotAgain /\ HandledOnce

LEMMA RunInvInit == PInit => RunInv
<1> SUFFICES ASSUME PInit PROVE RunInv
  OBVIOUS
<1>1. RunType
  BY RunTypeInit
<1>2. LeftOpen = {} /\ failures = 0 /\ opened = {}
  BY DEF PInit, LeftOpen
<1>3. HandledOnce
  BY <1>2, FS_EmptySet DEF HandledOnce, DisjointBut
<1>4. QED
  BY <1>1, <1>3, ElementsEmpty
     DEF PInit, Init, RunInv, AckedIsHandled, Handled, FedOnce, Phases, Accounted, NotAgain

\* A run that is cut short, or ends by itself, loses track of what it held only.
LEMMA SeenIsHeld ==
  ASSUME RunInv
  PROVE  seen \subseteq InHand \cup acked \cup failed
  BY DEF RunInv, Accounted, InHand

\* Sessions are left open only by cutting a run short.
LEMMA LeftOpenFinite ==
  ASSUME RunType
  PROVE  IsFiniteSet(LeftOpen) /\ Cardinality(LeftOpen) \in Nat
<1>1. LeftOpen \subseteq SUBSET Msg
  BY DEF LeftOpen, RunType
<1>2. IsFiniteSet(SUBSET Msg)
  BY BusAssumption, FS_SUBSET
<1>3. QED
  BY <1>1, <1>2, FS_Subset, FS_CardinalityType

LEMMA HandledOnceKept ==
  ASSUME RunInv, RunType', opened' = opened, LeftOpen' \subseteq LeftOpen,
         cut \subseteq cut', failures <= failures'
  PROVE  HandledOnce'
<1>1. Cardinality(LeftOpen') <= Cardinality(LeftOpen)
  BY LeftOpenFinite, FS_Subset DEF RunInv
<1>2. Cardinality(LeftOpen') \in Nat /\ Cardinality(LeftOpen) \in Nat
  <2>1. IsFiniteSet(LeftOpen) /\ Cardinality(LeftOpen) \in Nat
    BY LeftOpenFinite DEF RunInv
  <2>2. QED
    BY <2>1, FS_Subset, FS_CardinalityType
<1>3. failures \in Nat /\ failures' \in Nat
  BY PipelineAssumption DEF RunInv, RunType
<1>4. Cardinality(LeftOpen') <= failures'
  BY <1>1, <1>2, <1>3 DEF RunInv, HandledOnce
<1>5. UNION LeftOpen' \subseteq cut'
  BY DEF RunInv, HandledOnce
<1>6. DisjointBut(opened', cut')
  BY DEF RunInv, HandledOnce, DisjointBut
<1>7. QED
  BY <1>4, <1>5, <1>6 DEF HandledOnce

LEMMA PollInv ==
  ASSUME IInv, RunInv, RunType', Poll
  PROVE  RunInv'
<1> DEFINE X == Exhausted(Site)
<1>1. PICK S \in SUBSET Claimable(Site) :
        /\ ClaimRows(Mesh, S, X)
        /\ inbox' = S \ seen
        /\ seen' = seen \cup S
        /\ pc' = IF S \subseteq seen THEN "drain" ELSE "feed"
  BY DEF Poll
<1>2. /\ X \subseteq Msg /\ S \subseteq Msg
      /\ S \cap (acked \cup failed) = {}
  BY DEF Claimable, Exhausted, Free
<1> HIDE DEF X
<1>3. /\ acked' = acked /\ failed' = failed \cup X
      /\ \A m \in S : leaseOwner'[m] = Mesh
      /\ \A m \in Msg \ (S \cup X) : leaseOwner'[m] = leaseOwner[m]
  BY <1>1, <1>2 DEF ClaimRows
<1>4. /\ pc = "poll" /\ incident = <<>> /\ inbox = {}
      /\ UNCHANGED <<group, incident, opened, closed, failures, cut>>
      /\ Elements(group)' = Elements(group)
      /\ Elements(incident)' = Elements(incident)
      /\ Elements(incident) = {}
      /\ seen \subseteq Msg
      /\ failures \in Nat
  BY ElementsEmpty DEF Poll, store, past, RunInv, Phases, RunType
<1>5. FedOnce' /\ AckedIsHandled'
  BY <1>1, <1>3, <1>4 DEF RunInv, FedOnce, AckedIsHandled, Handled
<1>6. Phases'
  BY <1>1, <1>4 DEF RunInv, Phases, Handled
<1>7. Accounted'
  BY <1>1, <1>2, <1>3, <1>4 DEF RunInv, Accounted
<1>8. NotAgain'
  BY <1>1, <1>2, <1>3, <1>4 DEF RunInv, NotAgain
<1>9. HandledOnce'
  <2>1. LeftOpen' = LeftOpen
    BY <1>1, <1>4 DEF LeftOpen
  <2>2. QED
    BY <2>1, <1>4, HandledOnceKept
<1>10. QED
  BY <1>5, <1>6, <1>7, <1>8, <1>9 DEF RunInv

LEMMA FeedInv ==
  ASSUME RunInv, RunType', NEW m \in Msg, Feed(m)
  PROVE  RunInv'
<1>1. /\ pc = "feed" /\ m \in inbox /\ inbox' = inbox \ {m} /\ incident = <<>>
      /\ m \in seen /\ m \notin Elements(group)
      /\ UNCHANGED <<acked, failed, leaseOwner, seen, opened, closed, failures, cut>>
      /\ Elements(incident) = {}
      /\ group \in Seq(Msg)
      /\ pc' # "running" /\ failures \in Nat
  BY ElementsEmpty DEF Feed, RunInv, Phases, FedOnce, vars, store, past, RunType
<1>0. HandledOnce'
  <2>1. LeftOpen' = LeftOpen
    BY <1>1 DEF LeftOpen
  <2>2. QED
    BY <2>1, <1>1, HandledOnceKept
<1>2. CASE incident' = group /\ group' = <<m>> /\ pc' = "session"
  <2>1. /\ Elements(group)' = {m} /\ Elements(incident)' = Elements(group)
        /\ Injective(group') /\ Injective(group) /\ group' # <<>>
    BY <1>2, ElementsSingle DEF Injective, RunInv, FedOnce
  <2>2. FedOnce' /\ AckedIsHandled'
    BY <1>1, <1>2, <2>1 DEF RunInv, FedOnce, AckedIsHandled, Handled, Injective
  <2>3. Phases' /\ Accounted'
    BY <1>1, <1>2, <2>1 DEF RunInv, Phases, Accounted, FedOnce, Handled
  <2>4. NotAgain'
    BY <1>1, <1>2, <2>1 DEF RunInv, NotAgain
  <2>5. QED
    BY <1>0, <2>2, <2>3, <2>4 DEF RunInv
<1>3. CASE group' = Append(group, m) /\ UNCHANGED <<incident, pc>>
  <2>1. /\ Elements(group)' = Elements(group) \cup {m}
        /\ Elements(incident)' = {}
        /\ Injective(group) => Injective(group')
        /\ group' # <<>>
    BY <1>1, <1>3, ElementsAppend
  <2>2. FedOnce' /\ AckedIsHandled'
    BY <1>1, <1>3, <2>1 DEF RunInv, FedOnce, AckedIsHandled, Handled, Injective
  <2>3. Phases' /\ Accounted'
    BY <1>1, <1>3, <2>1 DEF RunInv, Phases, Accounted, FedOnce, Handled
  <2>4. NotAgain'
    BY <1>1, <1>3, <2>1 DEF RunInv, NotAgain
  <2>5. QED
    BY <1>0, <2>2, <2>3, <2>4 DEF RunInv
<1>4. QED
  BY <1>2, <1>3 DEF Feed

LEMMA AckAlertInv ==
  ASSUME IInv, RunInv, RunType', AckAlert
  PROVE  RunInv'
<1> DEFINE m == Head(incident)
<1>1. /\ incident' = Tail(incident)
      /\ Elements(incident) = Elements(incident') \cup {m}
      /\ m \in Msg /\ m \in seen /\ m \in Handled
      /\ Injective(incident) => Injective(incident')
      /\ pc = "ack"
      /\ UNCHANGED <<pc, seen, inbox, group, opened, closed, failures, cut>>
      /\ failures \in Nat
  BY ElementsTail DEF AckAlert, RunInv, RunType, FedOnce, Phases, store, past
<1>2. /\ failed' = failed /\ acked \subseteq acked'
      /\ acked' \subseteq acked \cup {m}
      /\ m \in acked' \cup failed'
      /\ \A n \in Msg \ {m} : leaseOwner'[n] = leaseOwner[n]
  <2>1. CASE Ack(m, Mesh)
    BY <2>1, <1>1 DEF Ack, IInv, TypeOK
  <2>2. CASE (leaseOwner[m] # Mesh \/ m \in acked) /\ UNCHANGED vars
    BY <2>2, <1>1 DEF vars, RunInv, Accounted
  <2>3. QED
    BY <2>1, <2>2 DEF AckAlert
<1> HIDE DEF m
<1>3. FedOnce'
  BY <1>1 DEF RunInv, FedOnce, Injective
<1>4. AckedIsHandled'
  BY <1>1, <1>2 DEF RunInv, AckedIsHandled, Handled
<1>5. Phases'
  BY <1>1 DEF RunInv, Phases, Handled
<1>6. Accounted'
  BY <1>1, <1>2 DEF RunInv, RunType, Accounted
<1>7. NotAgain'
  BY <1>1, <1>2 DEF RunInv, NotAgain
<1>8. HandledOnce'
  <2>1. LeftOpen' = LeftOpen
    BY <1>1 DEF LeftOpen
  <2>2. QED
    BY <2>1, <1>1, HandledOnceKept
<1>9. QED
  BY <1>3, <1>4, <1>5, <1>6, <1>7, <1>8 DEF RunInv

\* The steps that touch only the run and the store.
LEMMA LocalInv ==
  ASSUME RunInv, RunType', UNCHANGED vars, UNCHANGED past,
         Start \/ EndBatch \/ Drain \/ CloseSession \/ EndIncident \/ UNCHANGED <<pc, memory, store>>
  PROVE  RunInv'
<1> USE ElementsEmpty DEF vars, memory, store, past
<1>1. FedOnce' /\ AckedIsHandled' /\ Phases' /\ Accounted' /\ NotAgain'
  <2> USE DEF RunInv, FedOnce, AckedIsHandled, Handled, Phases, Accounted, NotAgain
  <2>1. CASE Start
    BY <2>1 DEF Start
  <2>2. CASE EndBatch
    BY <2>2 DEF EndBatch
  <2>3. CASE Drain
    BY <2>3 DEF Drain
  <2>4. CASE CloseSession
    BY <2>4 DEF CloseSession
  <2>5. CASE EndIncident
    BY <2>5 DEF EndIncident
  <2>6. CASE UNCHANGED <<pc, memory, store>>
    BY <2>6
  <2>7. QED
    BY <2>1, <2>2, <2>3, <2>4, <2>5, <2>6
<1>2. LeftOpen' \subseteq LeftOpen /\ opened' = opened
  BY DEF LeftOpen, Start, EndBatch, Drain, CloseSession, EndIncident
<1>3. failures \in Nat
  BY DEF RunInv, RunType
<1>4. QED
  BY <1>1, <1>2, <1>3, HandledOnceKept DEF RunInv

\* A session is opened on alerts of which other sessions have those only that were
\* in the hands of a run cut short.
LEMMA OpenSessionInv ==
  ASSUME RunInv, RunType', OpenSession
  PROVE  RunInv'
<1> DEFINE S == Elements(incident)
<1>1. /\ opened' = opened \cup {S} /\ pc = "session" /\ pc' = "running"
      /\ Elements(group)' = Elements(group) /\ Elements(incident)' = S
      /\ UNCHANGED <<seen, inbox, group, incident, closed, failures, cut, acked, failed, leaseOwner>>
  BY DEF OpenSession, vars, memory, past
<1>2. UNION (opened') = (UNION opened) \cup S
  BY <1>1
<1>3. \A T \in opened : T \cap S \subseteq cut
  BY <1>1 DEF RunInv, NotAgain
<1>4. LeftOpen' \subseteq LeftOpen
  BY <1>1 DEF LeftOpen
<1> HIDE DEF S
<1>5. FedOnce' /\ AckedIsHandled' /\ Phases' /\ Accounted'
  BY <1>1 DEF RunInv, FedOnce, AckedIsHandled, Handled, Phases, Accounted
<1>6. NotAgain'
  BY <1>1, <1>2 DEF S, RunInv, NotAgain, FedOnce
<1>7. HandledOnce'
  <2>1. DisjointBut(opened', cut')
    BY <1>1, <1>3 DEF RunInv, HandledOnce, DisjointBut
  <2>2. UNION LeftOpen' \subseteq cut'
    BY <1>1, <1>4 DEF RunInv, HandledOnce
  <2>3. IsFiniteSet(LeftOpen) /\ Cardinality(LeftOpen) \in Nat
    BY LeftOpenFinite DEF RunInv
  <2>4. Cardinality(LeftOpen') \in Nat /\ Cardinality(LeftOpen') <= Cardinality(LeftOpen)
    BY <2>3, <1>4, FS_Subset, FS_CardinalityType
  <2>5. Cardinality(LeftOpen') <= failures'
    BY <2>3, <2>4, <1>1 DEF RunInv, HandledOnce, RunType
  <2>6. QED
    BY <2>1, <2>2, <2>5 DEF HandledOnce
<1>8. QED
  BY <1>5, <1>6, <1>7 DEF RunInv

\* What a run held when it is cut short is on record from then on, and so is the
\* session it leaves open, if it leaves one.
LEMMA CutInv ==
  ASSUME RunInv, RunType', Crash \/ TimeOut
  PROVE  RunInv'
<1>1. /\ UNCHANGED <<acked, failed, leaseOwner, opened>>
      /\ pc' = "down" /\ seen' = {} /\ inbox' = {} /\ group' = <<>> /\ incident' = <<>>
      /\ cut' = cut \cup InHand /\ failures' = failures + 1 /\ failures \in Nat
      /\ closed \subseteq closed'
      /\ closed' \subseteq closed \cup (IF pc = "running" THEN {Elements(incident)} ELSE {})
  BY DEF Crash, TimeOut, Forget, vars, store, RunInv, RunType
<1>2. Elements(group)' = {} /\ Elements(incident)' = {}
  BY <1>1, ElementsEmpty
<1>3. FedOnce' /\ AckedIsHandled' /\ Phases' /\ Accounted'
  BY <1>1, <1>2 DEF RunInv, FedOnce, AckedIsHandled, Handled, Phases, Accounted
<1>4. NotAgain'
  BY <1>1, <1>2, SeenIsHeld DEF RunInv, NotAgain
<1>5. HandledOnce'
  <2>1. LeftOpen' \subseteq LeftOpen \cup {Elements(incident)}
    BY <1>1 DEF LeftOpen
  <2>2. Elements(incident) \subseteq cut'
    BY <1>1 DEF InHand
  <2>3. IsFiniteSet(LeftOpen) /\ Cardinality(LeftOpen) \in Nat
    BY LeftOpenFinite DEF RunInv
  <2>4. /\ IsFiniteSet(LeftOpen \cup {Elements(incident)})
        /\ Cardinality(LeftOpen \cup {Elements(incident)}) <= Cardinality(LeftOpen) + 1
        /\ Cardinality(LeftOpen \cup {Elements(incident)}) \in Nat
    <3>1. /\ IsFiniteSet(LeftOpen \cup {Elements(incident)})
          /\ Cardinality(LeftOpen \cup {Elements(incident)}) =
               IF Elements(incident) \in LeftOpen THEN Cardinality(LeftOpen)
                                                   ELSE Cardinality(LeftOpen) + 1
      BY <2>3, FS_AddElement
    <3>2. QED
      BY <3>1, <2>3
  <2>5. /\ Cardinality(LeftOpen') \in Nat
        /\ Cardinality(LeftOpen') <= Cardinality(LeftOpen \cup {Elements(incident)})
    <3>1. LeftOpen' \in SUBSET (LeftOpen \cup {Elements(incident)})
      BY <2>1
    <3>2. /\ IsFiniteSet(LeftOpen')
          /\ Cardinality(LeftOpen') <= Cardinality(LeftOpen \cup {Elements(incident)})
      BY <3>1, <2>4, FS_Subset
    <3>3. QED
      BY <3>2, FS_CardinalityType
  <2>6. Cardinality(LeftOpen') <= failures'
    BY <2>3, <2>4, <2>5, <1>1 DEF RunInv, HandledOnce
  <2>7. UNION LeftOpen' \subseteq cut'
    BY <2>1, <2>2, <1>1 DEF RunInv, HandledOnce
  <2>8. DisjointBut(opened', cut')
    BY <1>1 DEF RunInv, HandledOnce, DisjointBut
  <2>9. QED
    BY <2>6, <2>7, <2>8 DEF HandledOnce
<1>6. QED
  BY <1>3, <1>4, <1>5 DEF RunInv

\* The steps of the bus the run does not take part in.
LEMMA OutsideInv ==
  ASSUME RunInv, RunType', UNCHANGED <<pc, memory, store, past>>,
         UNCHANGED <<acked, failed, leaseOwner>>
  PROVE  RunInv'
<1>1. FedOnce' /\ AckedIsHandled' /\ Phases' /\ Accounted' /\ NotAgain'
  BY DEF RunInv, FedOnce, AckedIsHandled, Handled, Phases, Accounted, NotAgain, memory, store, past
<1>2. HandledOnce'
  BY DEF RunInv, HandledOnce, LeftOpen, memory, store, past
<1>3. QED
  BY <1>1, <1>2 DEF RunInv

LEMMA RunInvStep == IInv /\ RunInv /\ [PNext]_pvars => RunInv'
<1> SUFFICES ASSUME IInv, RunInv, [PNext]_pvars PROVE RunInv'
  OBVIOUS
<1>0. RunType'
  BY RunTypeStep DEF RunInv
<1>1. CASE \E m \in Msg : PublishAlert(m)
  BY <1>0, <1>1, OutsideInv DEF PublishAlert, Publish
<1>2. CASE Poll
  BY <1>0, <1>2, PollInv
<1>3. CASE \E m \in Msg : Feed(m)
  BY <1>0, <1>3, FeedInv
<1>4. CASE AckAlert
  BY <1>0, <1>4, AckAlertInv
<1>5. CASE Time
  BY <1>0, <1>5, OutsideInv DEF Time, Tick
<1>6. CASE Start \/ EndBatch \/ Drain \/ CloseSession \/ EndIncident \/ UNCHANGED pvars
  BY <1>0, <1>6, LocalInv DEF Start, EndBatch, Drain, CloseSession, EndIncident, pvars
<1>7. CASE OpenSession
  BY <1>0, <1>7, OpenSessionInv
<1>8. CASE Crash \/ TimeOut
  BY <1>0, <1>8, CutInv
<1>9. QED
  BY <1>1, <1>2, <1>3, <1>4, <1>5, <1>6, <1>7, <1>8 DEF PNext, Run

THEOREM PipelineInvariant == PSpec => [](IInv /\ RunInv)
<1>1. PSpec => []IInv
  BY PipelineUsesBus, BusInvariant, PTL
<1>2. QED
  BY <1>1, RunInvInit, RunInvStep, PTL DEF PSpec

\* The type invariant of the pipeline and of the bus below it.
THEOREM PipelineTypeCorrect == PSpec => []PTypeOK
<1>1. IInv /\ RunInv => PTypeOK
  BY DEF IInv, RunInv, RunType, Phases, PTypeOK
<1>2. QED
  BY <1>1, PipelineInvariant, PTL

\* An acknowledged alert is in a closed session, for any number of crashes.
THEOREM AckedIsHandledHolds == PSpec => []AckedIsHandled
<1>1. RunInv => AckedIsHandled
  BY DEF RunInv
<1>2. QED
  BY <1>1, PipelineInvariant, PTL

\* A run feeds an alert to Triage at most once, however often its lease runs out.
THEOREM FedOnceHolds == PSpec => []FedOnce
<1>1. RunInv => FedOnce
  BY DEF RunInv
<1>2. QED
  BY <1>1, PipelineInvariant, PTL

\* Sessions share only alerts that were in the hands of a run cut short; a session
\* is left open only by a cut, at most one by each.
THEOREM HandledOnceHolds == PSpec => []HandledOnce
<1>1. RunInv => HandledOnce
  BY DEF RunInv
<1>2. QED
  BY <1>1, PipelineInvariant, PTL

-----------------------------------------------------------------------------
(* Incidents are chains in data time *)

LEMMA DataTime == End \in [Msg -> Nat] /\ DeltaT \in Nat
  BY PipelineAssumption

LEMMA ChainedSmall == Chained({}) /\ \A m \in Msg : Chained({m})
  BY DataTime DEF Chained

\* What feed appends to a group it does not close keeps the group a chain.
LEMMA ChainedExtends ==
  ASSUME NEW S \in SUBSET Msg, NEW m \in Msg, NEW g \in S, Chained(S),
         \A n \in S : End[n] <= End[m], End[m] <= End[g] + DeltaT
  PROVE  Chained(S \cup {m})
<1> SUFFICES ASSUME NEW x \in S \cup {m}
             PROVE  \/ \A n \in S \cup {m} : End[n] <= End[x]
                    \/ \E n \in S \cup {m} : End[x] < End[n] /\ End[n] <= End[x] + DeltaT
  BY DEF Chained
<1>1. CASE x = m
  BY <1>1, DataTime
<1>2. CASE x \in S /\ \E n \in S : End[x] < End[n] /\ End[n] <= End[x] + DeltaT
  BY <1>2
<1>3. CASE x \in S /\ \A n \in S : End[n] <= End[x]
  <2>1. End[m] <= End[x] + DeltaT
    BY <1>3, DataTime
  <2>2. End[m] <= End[x] \/ End[x] < End[m]
    BY <1>3, DataTime
  <2>3. QED
    BY <2>1, <2>2, <1>3, DataTime
<1>4. QED
  BY <1>1, <1>2, <1>3 DEF Chained

\* The rows of the site's alerts, which are published in data time.
RowsInOrder ==
  /\ seen \subseteq Published
  /\ \A m \in Published : topic[m] = Site
  /\ \A m \in Msg : availIn[m] = 0
  /\ \A m \in acked : attempts[m] > 0
  /\ \A m \in Published : created[m] <= Cardinality(Published)
  /\ \A m, n \in Published : created[m] < created[n] => End[m] <= End[n]
  /\ \A m \in Published, n \in Msg \ Published : End[m] <= End[n]

LEMMA RowsInit == PInit => RowsInOrder
  BY FS_EmptySet DEF PInit, Init, RowsInOrder, Published

LEMMA RowsPublish ==
  ASSUME IInv, RunInv, RowsInOrder, NEW m \in Msg, PublishAlert(m)
  PROVE  RowsInOrder'
<1>1. /\ m \notin Published /\ Published' = Published \cup {m}
      /\ topic'[m] = Site /\ \A n \in Published : topic'[n] = topic[n]
  BY PipelineAssumption, BusAssumption DEF PublishAlert, Publish, IInv, TypeOK, Published
<1>2. /\ created'[m] = Cardinality(Published) + 1
      /\ \A n \in Msg \ {m} : created'[n] = created[n]
      /\ created \in [Msg -> Nat]
  BY DEF PublishAlert, Publish, IInv, TypeOK
<1>3. Cardinality(Published') = Cardinality(Published) + 1 /\ Cardinality(Published) \in Nat
  <2>1. IsFiniteSet(Published)
    BY BusAssumption, FS_Subset DEF Published
  <2>2. QED
    BY <1>1, <2>1, RankType, FS_AddElement
<1>4. UNCHANGED <<seen, availIn, attempts, acked>>
  BY DEF PublishAlert, Publish, memory
<1>5. \A n \in Msg \ Published : End[m] <= End[n]
  BY <1>1, DataTime DEF PublishAlert
<1>6. Published \subseteq Msg
  BY DEF Published
<1>7. \A x, y \in Published' : created'[x] < created'[y] => End[x] <= End[y]
  <2> SUFFICES ASSUME NEW x \in Published', NEW y \in Published', created'[x] < created'[y]
               PROVE  End[x] <= End[y]
    OBVIOUS
  <2>1. CASE x = m
    <3>1. y \in Published => created[y] <= Cardinality(Published) /\ created'[y] = created[y]
      BY <1>1, <1>2, <1>6 DEF RowsInOrder
    <3>2. QED
      BY <3>1, <2>1, <1>1, <1>2, <1>3, <1>6
  <2>2. CASE x # m /\ y = m
    BY <2>2, <1>1 DEF RowsInOrder
  <2>3. CASE x # m /\ y # m
    BY <2>3, <1>1, <1>2, <1>6 DEF RowsInOrder
  <2>4. QED
    BY <2>1, <2>2, <2>3
<1>8. \A n \in Published' : created'[n] <= Cardinality(Published')
  <2>1. \A n \in Published : created[n] \in Nat /\ created[n] <= Cardinality(Published)
    BY <1>2, <1>6 DEF RowsInOrder
  <2>2. QED
    BY <2>1, <1>1, <1>2, <1>3, <1>6
<1>9. \A x \in Published', y \in Msg \ Published' : End[x] <= End[y]
  BY <1>1, <1>5 DEF RowsInOrder
<1>10. QED
  BY <1>1, <1>4, <1>7, <1>8, <1>9 DEF RowsInOrder

LEMMA RowsStep ==
  ASSUME IInv, RunInv, RowsInOrder, [PNext]_pvars
  PROVE  RowsInOrder'
<1>1. CASE \E m \in Msg : PublishAlert(m)
  BY <1>1, RowsPublish
<1>2. CASE Poll
  <2>1. PICK S \in SUBSET Claimable(Site) :
          seen' = seen \cup S /\ ClaimRows(Mesh, S, Exhausted(Site))
    BY <1>2 DEF Poll
  <2>2. S \subseteq Published
    BY ClaimSplits, PipelineAssumption
  <2>3. /\ UNCHANGED <<topic, created, availIn, acked>> /\ Published' = Published
        /\ \A m \in Msg : attempts[m] > 0 => attempts'[m] > 0
        /\ acked \subseteq Msg
    BY <2>1 DEF ClaimRows, Published, IInv, TypeOK
  <2>4. QED
    BY <2>1, <2>2, <2>3 DEF RowsInOrder
<1>3. CASE AckAlert
  <2>1. Head(incident) \in Msg
    BY <1>3, ElementsTail DEF AckAlert, RunInv, RunType
  <2>2. /\ UNCHANGED <<topic, created, availIn, attempts, seen>> /\ Published' = Published
        /\ \A m \in acked' \ acked : m \in Msg /\ leaseOwner[m] = Mesh
    BY <1>3, <2>1 DEF AckAlert, Ack, vars, Published
  <2>3. \A m \in acked' \ acked : attempts[m] > 0
    BY <2>2, PipelineAssumption, BusAssumption DEF IInv, RowsConsistent
  <2>4. QED
    BY <2>2, <2>3 DEF RowsInOrder
<1>4. CASE Time
  <2>1. /\ UNCHANGED <<topic, created, attempts, acked, seen>> /\ Published' = Published
        /\ \A m \in Msg : availIn[m] = 0 => availIn'[m] = 0
    BY <1>4 DEF Time, Tick, memory, Published
  <2>2. QED
    BY <2>1 DEF RowsInOrder
<1>5. CASE UNCHANGED vars /\ seen' \in {seen, {}}
  BY <1>5 DEF vars, RowsInOrder, Published
<1>6. QED
  BY <1>1, <1>2, <1>3, <1>4, <1>5
     DEF PNext, Run, Start, Feed, EndBatch, Drain, OpenSession, CloseSession, EndIncident,
         Crash, TimeOut, Forget, pvars, memory

\* An alert that was handed out before and comes back was in the hands of a run
\* cut short; all others are claimed and fed in the order they were published in.
InOrder ==
  /\ \A m \in Msg : attempts[m] > 0 => m \in seen \cup acked \cup failed \cup cut
  /\ \A m, n \in Published : attempts[m] > 0 /\ attempts[n] = 0 => created[m] < created[n]
  /\ \A g \in Elements(group), m \in inbox \ cut : created[g] < created[m]

\* So what is grouped is a chain, and so is every incident, but for such alerts.
Chains ==
  /\ Chained(Elements(group)) \/ Elements(group) \cap cut # {}
  /\ pc = "session" => Chained(Elements(incident)) \/ Elements(incident) \cap cut # {}
  /\ \A S \in opened : Chained(S) \/ S \cap cut # {}

LEMMA InOrderInit == PInit => InOrder /\ Chains
<1> SUFFICES ASSUME PInit PROVE InOrder /\ Chains
  OBVIOUS
<1>1. attempts = [m \in Msg |-> 0] /\ seen = {} /\ inbox = {} /\ Published = {}
  BY DEF PInit, Init, Published
<1>2. InOrder
  BY <1>1 DEF InOrder
<1>3. group = <<>> /\ pc = "down" /\ opened = {}
  BY DEF PInit
<1>4. Chains
  BY <1>3, ElementsEmpty, ChainedSmall DEF Chains
<1>5. QED
  BY <1>2, <1>4

\* The alerts a run was handed have used an attempt.
LEMMA SeenClaimed ==
  ASSUME IInv, RunInv, RowsInOrder
  PROVE  \A m \in seen : m \in Published /\ attempts[m] > 0
<1> SUFFICES ASSUME NEW m \in seen PROVE m \in Published /\ attempts[m] > 0
  OBVIOUS
<1>1. m \in Published /\ m \in Msg
  BY DEF RowsInOrder, Published
<1>2. CASE m \in acked
  BY <1>1, <1>2 DEF RowsInOrder
<1>3. CASE m \in failed
  BY <1>1, <1>3, BusAssumption DEF IInv, AttemptsRespected
<1>4. CASE leaseOwner[m] = Mesh
  BY <1>1, <1>4, PipelineAssumption, BusAssumption DEF IInv, RowsConsistent
<1>5. QED
  BY <1>1, <1>2, <1>3, <1>4 DEF RunInv, Accounted

\* Of the alerts nobody has claimed yet, a claim takes the oldest.
LEMMA FreshClaimable ==
  ASSUME IInv, RunInv, RowsInOrder, NEW m \in Published, attempts[m] = 0
  PROVE  m \in Claimable(Site) /\ m \notin seen
<1>1. m \in Msg /\ topic[m] = Site /\ availIn[m] = 0
  BY DEF RowsInOrder, Published
<1>2. leaseOwner[m] = NoOne /\ leaseLeft[m] = 0 /\ m \notin acked /\ m \notin failed
  BY <1>1, BusAssumption
     DEF IInv, TypeOK, RowsConsistent, RowsInOrder, AttemptsRespected
<1>3. m \notin seen
  BY <1>2, PipelineAssumption, BusAssumption DEF RunInv, Accounted
<1>4. QED
  BY <1>1, <1>2, <1>3, BusAssumption DEF Claimable, Exhausted, Free

LEMMA InOrderPoll ==
  ASSUME IInv, RunInv, RowsInOrder, InOrder, Poll
  PROVE  InOrder'
<1>1. PICK S \in SUBSET Claimable(Site) :
        /\ IsOldest(S, Claimable(Site), Batch)
        /\ ClaimRows(Mesh, S, Exhausted(Site))
        /\ inbox' = S \ seen
        /\ seen' = seen \cup S
  BY DEF Poll
<1>2. /\ S \subseteq Msg /\ S \subseteq Published
      /\ \A m \in S : m \notin acked \cup failed
  BY ClaimSplits, PipelineAssumption DEF Claimable, Free
<1>3. /\ UNCHANGED <<created, acked, group, cut>>
      /\ Published' = Published /\ failed \subseteq failed'
      /\ \A m \in Msg : attempts'[m] = IF m \in S THEN attempts[m] + 1 ELSE attempts[m]
      /\ attempts \in [Msg -> Nat]
  BY <1>1 DEF Poll, ClaimRows, Published, past, IInv, TypeOK
<1>4. \A m \in (S \ seen) \ cut : attempts[m] = 0
  BY <1>2, <1>3 DEF InOrder
<1>5. \A m \in Msg : attempts'[m] > 0 => m \in seen' \cup acked' \cup failed' \cup cut'
  BY <1>1, <1>3 DEF InOrder
<1>6. \A m, n \in Published' : attempts'[m] > 0 /\ attempts'[n] = 0 => created'[m] < created'[n]
  <2> SUFFICES ASSUME NEW m \in Published, NEW n \in Published, attempts'[m] > 0, attempts'[n] = 0
               PROVE  created[m] < created[n]
    BY <1>3
  <2>1. m \in Msg /\ n \in Msg /\ n \notin S /\ attempts[n] = 0
    BY <1>3 DEF Published
  <2>2. CASE m \notin S
    BY <2>1, <2>2, <1>3 DEF InOrder
  <2>3. CASE m \in S
    BY <2>1, <2>3, <1>1, FreshClaimable DEF IsOldest
  <2>4. QED
    BY <2>2, <2>3
<1>7. \A g \in Elements(group), m \in inbox' \ cut : created[g] < created[m]
  <2>1. \A g \in Elements(group) : g \in Published /\ attempts[g] > 0
    BY SeenClaimed DEF RunInv, FedOnce
  <2>2. QED
    BY <2>1, <1>1, <1>2, <1>4 DEF InOrder
<1>8. Elements(group)' = Elements(group)
  BY <1>3
<1>9. QED
  BY <1>3, <1>5, <1>6, <1>7, <1>8 DEF InOrder

LEMMA InOrderPublish ==
  ASSUME IInv, RunInv, RowsInOrder, InOrder, NEW m \in Msg, PublishAlert(m)
  PROVE  InOrder'
<1>1. /\ Published' = Published \cup {m} /\ m \notin Published
      /\ created'[m] = Cardinality(Published) + 1 /\ Cardinality(Published) \in Nat
      /\ \A n \in Msg \ {m} : created'[n] = created[n]
      /\ created \in [Msg -> Nat]
      /\ UNCHANGED <<attempts, acked, failed, seen, inbox, group, cut>>
      /\ Published \subseteq Msg
  BY RankType, PipelineAssumption, BusAssumption
     DEF PublishAlert, Publish, IInv, TypeOK, Published, memory, store, past
<1>2. \A n \in Published : n # m /\ created'[n] = created[n] /\ created'[n] < created'[m]
  BY <1>1 DEF RowsInOrder
<1>3. ~(attempts[m] > 0)
  BY <1>1 DEF IInv, RowsConsistent, Published
<1>4. inbox \subseteq Published /\ Elements(group) \subseteq Published
  BY SeenClaimed DEF RunInv, FedOnce
<1>5. \A x, n \in Published' : attempts'[x] > 0 /\ attempts'[n] = 0 => created'[x] < created'[n]
  BY <1>1, <1>2, <1>3 DEF InOrder
<1>6. \A g \in Elements(group), x \in inbox \ cut : created'[g] < created'[x]
  BY <1>2, <1>4 DEF InOrder
<1>7. Elements(group)' = Elements(group)
  BY <1>1
<1>8. QED
  BY <1>1, <1>5, <1>6, <1>7 DEF InOrder

\* A run that ends by itself has settled everything it was handed.
LEMMA InOrderEnd ==
  ASSUME RunInv, InOrder, Drain \/ EndIncident
  PROVE  InOrder'
<1>1. /\ UNCHANGED <<vars, inbox, cut>> /\ Published' = Published /\ incident = <<>>
      /\ group = <<>> => inbox = {} /\ seen' = {}
      /\ group # <<>> => seen' = seen
      /\ group' = group \/ (group' = <<>> /\ inbox = {})
  BY DEF Drain, EndIncident, store, past, vars, Published, RunInv, Phases
<1>2. seen \subseteq seen' \cup acked \cup failed /\ seen' \subseteq seen
  BY <1>1, ElementsEmpty DEF RunInv, Accounted
<1>3. inbox = {} \/ Elements(group)' = Elements(group)
  BY <1>1
<1>4. QED
  BY <1>1, <1>2, <1>3 DEF InOrder, vars

\* feed takes the oldest alert of the batch.
LEMMA InOrderFeed ==
  ASSUME RunInv, InOrder, NEW m \in Msg, Feed(m)
  PROVE  InOrder'
<1>1. /\ inbox' = inbox \ {m} /\ \A n \in inbox' : created[m] < created[n]
      /\ UNCHANGED <<vars, seen, cut>> /\ Published' = Published
      /\ group \in Seq(Msg)
  BY DEF Feed, store, past, vars, Published, RunInv, RunType
<1>2. Elements(group)' \subseteq Elements(group) \cup {m}
  BY <1>1, ElementsSingle, ElementsAppend DEF Feed
<1>3. \A g \in Elements(group)', n \in inbox' \ cut : created[g] < created[n]
  BY <1>1, <1>2 DEF InOrder
<1>4. QED
  BY <1>1, <1>3 DEF InOrder, vars

\* What a run cut short was handed and did not settle was in its hands.
LEMMA InOrderCut ==
  ASSUME RunInv, InOrder, Crash \/ TimeOut
  PROVE  InOrder'
<1>1. /\ UNCHANGED vars /\ Published' = Published
      /\ inbox' = {} /\ cut' = cut \cup InHand
  BY DEF Crash, TimeOut, Forget, vars, Published
<1>2. QED
  BY <1>1, SeenIsHeld DEF InOrder, vars

LEMMA InOrderStep ==
  ASSUME IInv, RunInv, RowsInOrder, InOrder, [PNext]_pvars
  PROVE  InOrder'
<1>1. CASE Start \/ EndBatch \/ OpenSession \/ CloseSession \/ UNCHANGED pvars
  <2>1. UNCHANGED <<vars, seen, inbox, group, cut>> /\ Published' = Published
    BY <1>1 DEF Start, EndBatch, OpenSession, CloseSession, pvars, memory, past, vars, Published
  <2>2. Elements(group)' = Elements(group)
    BY <2>1
  <2>3. QED
    BY <2>1, <2>2 DEF InOrder, vars
<1>2. CASE AckAlert
  <2>1. /\ UNCHANGED <<created, attempts, failed, seen, inbox, group, cut>>
        /\ Published' = Published /\ acked \subseteq acked'
    BY <1>2 DEF AckAlert, Ack, vars, past, Published
  <2>2. Elements(group)' = Elements(group)
    BY <2>1
  <2>3. QED
    BY <2>1, <2>2 DEF InOrder
<1>3. CASE Time
  <2>1. /\ UNCHANGED <<created, attempts, failed, acked, seen, inbox, group, cut>>
        /\ Published' = Published
    BY <1>3 DEF Time, Tick, memory, past, Published
  <2>2. Elements(group)' = Elements(group)
    BY <2>1
  <2>3. QED
    BY <2>1, <2>2 DEF InOrder
<1>4. QED
  BY <1>1, <1>2, <1>3, InOrderPublish, InOrderPoll, InOrderFeed, InOrderEnd, InOrderCut
     DEF PNext, Run

LEMMA ChainsFeed ==
  ASSUME RunInv, RowsInOrder, InOrder, Chains, NEW m \in Msg, Feed(m)
  PROVE  Chains'
<1>1. m \in inbox /\ UNCHANGED <<opened, cut>> /\ group \in Seq(Msg) /\ pc = "feed"
  BY DEF Feed, store, past, RunInv, RunType
<1>2. Elements(group) \subseteq Published /\ m \in Published /\ Elements(group) \subseteq Msg
  BY <1>1 DEF RunInv, FedOnce, RowsInOrder, Published
<1>3. m \notin cut => \A g \in Elements(group) : End[g] <= End[m]
  BY <1>1, <1>2 DEF InOrder, RowsInOrder
<1>4. CASE incident' = group /\ group' = <<m>>
  BY <1>1, <1>4, ElementsSingle, ChainedSmall DEF Chains
<1>5. CASE ~ClosesGroup(m) /\ group' = Append(group, m) /\ UNCHANGED pc
  <2>1. Elements(group)' = Elements(group) \cup {m}
    BY <1>1, <1>5, ElementsAppend
  <2>2. Chained(Elements(group) \cup {m}) \/ (Elements(group) \cup {m}) \cap cut # {}
    <3>1. CASE group = <<>>
      BY <3>1, ElementsEmpty, ChainedSmall
    <3>2. CASE m \in cut \/ Elements(group) \cap cut # {}
      BY <3>2
    <3>3. CASE group # <<>> /\ m \notin cut /\ Elements(group) \cap cut = {}
      <4>1. PICK g \in Elements(group) : ~(End[m] > End[g] + DeltaT)
        BY <3>3, <1>5 DEF ClosesGroup
      <4>2. End[m] <= End[g] + DeltaT
        BY <4>1, <1>2, DataTime
      <4>3. QED
        BY <4>2, <1>2, <1>3, <3>3, ChainedExtends DEF Chains
    <3>4. QED
      BY <3>1, <3>2, <3>3
  <2>3. QED
    BY <2>1, <2>2, <1>1, <1>5 DEF Chains
<1>6. QED
  BY <1>4, <1>5 DEF Feed

LEMMA ChainsStep ==
  ASSUME RunInv, RowsInOrder, InOrder, Chains, [PNext]_pvars
  PROVE  Chains'
<1>1. CASE UNCHANGED <<group, incident, opened, cut>> /\ (pc' = "session" => pc = "session")
  BY <1>1 DEF Chains
<1>2. CASE AckAlert
  <2>1. UNCHANGED <<group, opened, cut>> /\ pc' # "session"
    BY <1>2 DEF AckAlert, store, past
  <2>2. QED
    BY <2>1 DEF Chains
<1>3. CASE OpenSession
  <2>1. /\ UNCHANGED <<group, cut>> /\ pc = "session" /\ pc' # "session"
        /\ opened' = opened \cup {Elements(incident)}
    BY <1>3 DEF OpenSession, memory, past
  <2>2. QED
    BY <2>1 DEF Chains
<1>4. CASE Drain
  <2>1. UNCHANGED <<opened, cut>> /\ group' = <<>> /\ incident' = group
    BY <1>4 DEF Drain, store, past
  <2>2. QED
    BY <2>1, ElementsEmpty, ChainedSmall DEF Chains
<1>5. CASE \E m \in Msg : Feed(m)
  BY <1>5, ChainsFeed
<1>6. CASE Crash \/ TimeOut
  <2>1. /\ opened' = opened /\ cut \subseteq cut' /\ pc' = "down" /\ group' = <<>>
    BY <1>6 DEF Crash, TimeOut, Forget, store
  <2>2. QED
    BY <2>1, ElementsEmpty, ChainedSmall DEF Chains
<1>7. QED
  BY <1>1, <1>2, <1>3, <1>4, <1>5, <1>6
     DEF PNext, Run, PublishAlert, Start, Poll, EndBatch, CloseSession, EndIncident, Time,
         pvars, memory, store, past

\* Every incident none of whose alerts was in the hands of a run cut short is a
\* chain in data time, although Triage sees alerts in the order of claims, for any
\* set of alerts, batch and lease.
THEOREM IncidentsChainedHolds == PSpec => []IncidentsChained
<1>1. Chains => IncidentsChained
  BY DEF Chains, IncidentsChained
<1>2. IInv /\ RunInv /\ RowsInOrder /\ InOrder /\ Chains /\ [PNext]_pvars
        => RowsInOrder' /\ InOrder' /\ Chains'
  BY RowsStep, InOrderStep, ChainsStep
<1>3. PSpec => []Chains
  BY <1>2, PipelineInvariant, RowsInit, InOrderInit, PTL DEF PSpec
<1>4. QED
  BY <1>1, <1>3, PTL

-----------------------------------------------------------------------------
(* Nothing is dropped, and the pipeline implements Handling. *)

\* What the incident at work is, and what is owed to the alerts handed out.
Owed ==
  /\ pc \in {"session", "running"} => incident # <<>>
  /\ pc = "running" => Elements(incident) \cap Handled \subseteq cut
  /\ NothingDropped

LEMMA OwedInit == PInit => Owed
  BY DEF PInit, Init, Owed, NothingDropped

\* The alerts a claim hands out are new to the run, and what it dead-letters has
\* been handed out before.
LEMMA PollTakes ==
  ASSUME IInv, RunInv, Poll
  PROVE  \E S \in SUBSET Published, G \in SUBSET Published :
           /\ ClaimRows(Mesh, S, G)
           /\ inbox' = S \ seen
           /\ (S \cup G) \cap (acked \cup failed) = {}
           /\ \A m \in (S \cap seen) \cup G : attempts[m] > 0
<1>1. PICK S \in SUBSET Claimable(Site) :
        ClaimRows(Mesh, S, Exhausted(Site)) /\ inbox' = S \ seen
  BY DEF Poll
<1>2. /\ S \subseteq Published /\ Exhausted(Site) \subseteq Published
      /\ (S \cup Exhausted(Site)) \cap (acked \cup failed) = {}
      /\ \A m \in Exhausted(Site) : attempts[m] = MaxAttempts
  BY ClaimSplits, PipelineAssumption DEF Claimable, Exhausted, Free
<1>3. \A m \in Exhausted(Site) : attempts[m] > 0
  BY <1>2, BusAssumption
<1>4. \A m \in S \cap seen : attempts[m] > 0
  <2>1. \A m \in S \cap seen : m \in Msg /\ leaseOwner[m] = Mesh
    BY <1>2 DEF RunInv, Accounted, Published
  <2>2. QED
    BY <2>1, PipelineAssumption, BusAssumption DEF IInv, RowsConsistent
<1>5. QED
  BY <1>1, <1>2, <1>3, <1>4

LEMMA OwedPoll ==
  ASSUME IInv, RunInv, Owed, Poll
  PROVE  Owed'
<1>1. PICK S \in SUBSET Published, G \in SUBSET Published :
        /\ ClaimRows(Mesh, S, G)
        /\ inbox' = S \ seen
        /\ \A m \in S \cap seen : attempts[m] > 0
  BY PollTakes
<1>2. /\ pc' \notin {"session", "running"} /\ inbox = {}
      /\ UNCHANGED <<group, incident, closed, cut>>
      /\ Elements(group)' = Elements(group) /\ Elements(incident)' = Elements(incident)
      /\ Handled' = Handled
  BY DEF Poll, store, past, RunInv, Phases, Handled
<1>3. \A m \in Msg : attempts'[m] > 0 => attempts[m] > 0 \/ m \in inbox'
  <2>1. \A m \in Msg : m \notin S => attempts'[m] = attempts[m]
    BY <1>1 DEF ClaimRows
  <2>2. QED
    BY <1>1, <2>1
<1>4. QED
  BY <1>2, <1>3 DEF Owed, NothingDropped, InHand

LEMMA OwedStep ==
  ASSUME IInv, RunInv, Owed, [PNext]_pvars
  PROVE  Owed'
<1>1. CASE \E m \in Msg : PublishAlert(m)
  BY <1>1 DEF PublishAlert, Publish, Owed, NothingDropped, InHand, Handled, memory, store, past
<1>2. CASE Poll
  BY <1>2, OwedPoll
<1>3. ASSUME NEW m \in Msg, Feed(m) PROVE Owed'
  <2>1. /\ m \in inbox /\ inbox' = inbox \ {m} /\ incident = <<>> /\ pc = "feed"
        /\ UNCHANGED <<attempts, closed, cut>> /\ Handled' = Handled
        /\ group \in Seq(Msg)
    BY <1>3 DEF Feed, vars, store, past, RunInv, RunType, Phases, Handled
  <2>2. \/ /\ pc' = "session" /\ incident' = group /\ group # <<>>
           /\ Elements(group)' = {m} /\ Elements(incident)' = Elements(group)
        \/ /\ pc' = "feed" /\ incident' = incident
           /\ Elements(group)' = Elements(group) \cup {m}
    BY <1>3, <2>1, ElementsSingle, ElementsAppend DEF Feed, ClosesGroup
  <2>3. InHand \subseteq InHand'
    BY <2>1, <2>2, ElementsEmpty DEF InHand
  <2>4. QED
    BY <2>1, <2>2, <2>3 DEF Owed, NothingDropped
<1>4. CASE Drain
  <2>1. /\ incident' = group /\ group' = <<>> /\ incident = <<>>
        /\ UNCHANGED <<attempts, inbox, closed, cut>> /\ Handled' = Handled
        /\ pc' \in {"down", "session"} /\ (pc' = "session" => group # <<>>)
    BY <1>4 DEF Drain, vars, store, past, RunInv, Phases, Handled
  <2>2. InHand' = InHand
    BY <2>1, ElementsEmpty DEF InHand
  <2>3. QED
    BY <2>1, <2>2 DEF Owed, NothingDropped
<1>5. CASE OpenSession
  <2>1. /\ pc = "session" /\ pc' = "running"
        /\ UNCHANGED <<attempts, inbox, group, incident, closed, cut>>
        /\ InHand' = InHand /\ Handled' = Handled
        /\ Elements(incident)' = Elements(incident)
    BY <1>5 DEF OpenSession, vars, memory, past, InHand, Handled
  <2>2. Handled \cap Elements(incident) \subseteq cut
    BY <2>1 DEF RunInv, NotAgain, Phases, Handled
  <2>3. QED
    BY <2>1, <2>2 DEF Owed, NothingDropped
<1>6. CASE CloseSession
  <2>1. /\ pc' = "ack" /\ UNCHANGED <<attempts, cut>> /\ InHand' = InHand
        /\ Handled \subseteq Handled'
    BY <1>6 DEF CloseSession, vars, memory, past, InHand, Handled
  <2>2. QED
    BY <2>1 DEF Owed, NothingDropped
<1>7. CASE AckAlert
  <2>1. /\ pc' = "ack" /\ Handled' = Handled
        /\ UNCHANGED <<attempts, inbox, group, cut>>
    BY <1>7 DEF AckAlert, Ack, vars, store, past, Handled
  <2>2. Elements(incident) = Elements(incident') \cup {Head(incident)} /\ Head(incident) \in Handled
    BY <1>7, ElementsTail DEF AckAlert, RunInv, RunType, Phases
  <2>3. InHand \subseteq InHand' \cup Handled
    BY <2>1, <2>2 DEF InHand
  <2>4. QED
    BY <2>1, <2>3 DEF Owed, NothingDropped
<1>8. CASE Start \/ EndBatch \/ EndIncident \/ UNCHANGED pvars
  <2>1. /\ UNCHANGED <<attempts, inbox, group, incident, closed, cut>>
        /\ pc' \in {pc, "poll", "down", "feed"}
    BY <1>8 DEF Start, EndBatch, EndIncident, pvars, vars, memory, store, past
  <2>2. /\ InHand' = InHand /\ Handled' = Handled /\ Elements(incident)' = Elements(incident)
    BY <2>1 DEF InHand, Handled
  <2>3. QED
    BY <2>1, <2>2 DEF Owed, NothingDropped
<1>9. CASE Crash \/ TimeOut
  <2>1. /\ UNCHANGED attempts /\ pc' = "down" /\ cut' = cut \cup InHand
        /\ closed \subseteq closed'
    BY <1>9 DEF Crash, TimeOut, Forget, vars, store
  <2>2. Handled \subseteq Handled'
    BY <2>1 DEF Handled
  <2>3. QED
    BY <2>1, <2>2 DEF Owed, NothingDropped
<1>10. CASE Time
  <2>1. UNCHANGED <<pc, attempts, inbox, group, incident, closed, cut>>
    BY <1>10 DEF Time, Tick, memory, store, past
  <2>2. InHand' = InHand /\ Handled' = Handled /\ Elements(incident)' = Elements(incident)
    BY <2>1 DEF InHand, Handled
  <2>3. QED
    BY <2>1, <2>2 DEF Owed, NothingDropped
<1>11. QED
  BY <1>1, <1>2, <1>3, <1>4, <1>5, <1>6, <1>7, <1>8, <1>9, <1>10 DEF PNext, Run

LEMMA OwedAlways == PSpec => []Owed
<1>1. QED
  BY OwedInit, OwedStep, PipelineInvariant, PTL DEF PSpec

\* An alert that was handed out is handled or in hand, or was in the hands of a run
\* cut short: no other dead letter is left unhandled, whatever the leases, attempts
\* and batches are.
THEOREM NothingDroppedHolds == PSpec => []NothingDropped
<1>1. Owed => NothingDropped
  BY DEF Owed
<1>2. QED
  BY <1>1, OwedAlways, PTL

LEMMA InHandSeen == RunInv => InHand \subseteq seen
  BY DEF RunInv, FedOnce, InHand

\* The states of the two specifications correspond as far as Handling sees them.
LEMMA HandlingQuiet ==
  ASSUME UNCHANGED <<topic, inbox, group, incident, closed, acked, failed, cut>>
  PROVE  UNCHANGED H!hvars
  BY DEF H!hvars, Published, InHand

LEMMA HandlingInit == PInit => H!HInit
<1> SUFFICES ASSUME PInit PROVE H!HInit
  OBVIOUS
<1>1. Published = {} /\ acked = {} /\ failed = {}
  BY DEF PInit, Init, Published
<1>2. InHand = {}
  BY ElementsEmpty DEF PInit, InHand
<1>3. QED
  BY <1>1, <1>2 DEF H!HInit, PInit

LEMMA HandlingOffer ==
  ASSUME IInv, NEW m \in Msg, PublishAlert(m)
  PROVE  H!HOffer(m)
<1>1. m \notin Published /\ Published' = Published \cup {m}
  BY PipelineAssumption, BusAssumption DEF PublishAlert, Publish, IInv, TypeOK, Published
<1>2. UNCHANGED <<inbox, group, incident, closed, acked, failed, cut>>
  BY DEF PublishAlert, Publish, memory, store, past
<1>3. InHand' = InHand
  BY <1>2 DEF InHand
<1>4. QED
  BY <1>1, <1>2, <1>3 DEF H!HOffer

LEMMA HandlingTake ==
  ASSUME IInv, RunInv, Owed, Poll
  PROVE  \E S, G \in SUBSET Published : H!HTake(S, G)
<1>1. PICK S \in SUBSET Published, G \in SUBSET Published :
        /\ ClaimRows(Mesh, S, G)
        /\ inbox' = S \ seen
        /\ (S \cup G) \cap (acked \cup failed) = {}
        /\ \A m \in G : attempts[m] > 0
  BY PollTakes
<1>2. /\ inbox = {}
      /\ UNCHANGED <<group, incident, closed, cut>>
  BY DEF Poll, store, past, RunInv, Phases
<1>3. /\ Published' = Published /\ acked' = acked /\ failed' = failed \cup G
      /\ InHand' = InHand \cup (S \ seen)
  BY <1>1, <1>2 DEF ClaimRows, Published, InHand
<1>4. (S \ seen) \cap InHand = {}
  BY InHandSeen
<1>5. (S \ seen) \cap Handled \subseteq cut
  BY <1>1 DEF RunInv, NotAgain, Phases, Handled
<1>6. G \subseteq Handled \cup InHand \cup cut
  BY <1>1 DEF Owed, NothingDropped, Published
<1>7. H!HTake(S \ seen, G)
  BY <1>1, <1>2, <1>3, <1>4, <1>5, <1>6 DEF H!HTake, H!Handled, Handled
<1>8. QED
  BY <1>7

\* Feeding and draining move alerts between the lists of the run.
LEMMA HandlingMoves ==
  ASSUME IInv, RunInv, Drain \/ \E m \in Msg : Feed(m)
  PROVE  UNCHANGED H!hvars
<1>1. UNCHANGED <<topic, closed, acked, failed, cut>> /\ Published' = Published
  BY DEF Drain, Feed, vars, store, past, Published
<1>2. InHand' = InHand
  <2>1. CASE Drain
    <3>1. incident' = group /\ group' = <<>> /\ incident = <<>> /\ UNCHANGED inbox
      BY <2>1 DEF Drain, RunInv, Phases
    <3>2. QED
      BY <3>1, ElementsEmpty DEF InHand
  <2>2. ASSUME NEW m \in Msg, Feed(m) PROVE InHand' = InHand
    <3>1. m \in inbox /\ inbox' = inbox \ {m} /\ incident = <<>> /\ group \in Seq(Msg)
      BY <2>2 DEF Feed, RunInv, RunType, Phases
    <3>2. \/ Elements(group)' = {m} /\ Elements(incident)' = Elements(group)
          \/ Elements(incident)' = Elements(incident) /\ Elements(group)' = Elements(group) \cup {m}
      BY <2>2, <3>1, ElementsSingle, ElementsAppend DEF Feed
    <3>3. QED
      BY <3>1, <3>2, ElementsEmpty DEF InHand
  <2>3. QED
    BY <2>1, <2>2
<1>3. QED
  BY <1>1, <1>2 DEF H!hvars

LEMMA IncidentInHand ==
  ASSUME RunInv, Owed, pc = "running"
  PROVE  Elements(incident) \in SUBSET InHand /\ Elements(incident) # {}
<1>1. incident \in Seq(Msg) /\ incident # <<>>
  BY DEF RunInv, RunType, Owed
<1>2. Elements(incident) # {}
  BY <1>1, ElementsTail
<1>3. QED
  BY <1>2 DEF InHand

LEMMA HandlingClose ==
  ASSUME IInv, RunInv, Owed, CloseSession
  PROVE  \E S \in SUBSET InHand : H!HClose(S)
<1>1. /\ pc = "running" /\ closed' = closed \cup {Elements(incident)}
      /\ UNCHANGED <<topic, inbox, group, incident, acked, failed, cut>>
  BY DEF CloseSession, vars, memory, past
<1>2. Published' = Published /\ InHand' = InHand
  BY <1>1 DEF Published, InHand
<1>3. Elements(incident) \cap Handled \subseteq cut
  BY <1>1 DEF Owed
<1>4. H!HClose(Elements(incident))
  BY <1>1, <1>2, <1>3, IncidentInHand DEF H!HClose, H!Handled, Handled
<1>5. QED
  BY <1>1, <1>4, IncidentInHand

LEMMA HandlingLetGo ==
  ASSUME IInv, RunInv, AckAlert
  PROVE  \E m \in InHand : H!HLetGo(m)
<1> DEFINE m == Head(incident)
<1>1. /\ incident' = Tail(incident)
      /\ Elements(incident) = Elements(incident') \cup {m}
      /\ m \in Handled /\ m \in InHand /\ m \in Msg
      /\ m \notin Elements(incident') \cup inbox \cup Elements(group)
      /\ UNCHANGED <<inbox, group, closed, cut>>
  <2>1. incident \in Seq(Msg) /\ incident # <<>> /\ incident' = Tail(incident)
    BY DEF AckAlert, RunInv, RunType
  <2>2. m \notin Elements(Tail(incident))
    <3>1. \A i, j \in 1..Len(incident) : i # j => incident[i] # incident[j]
      BY <2>1 DEF RunInv, FedOnce
    <3>2. /\ Len(incident) \in Nat \ {0} /\ m = incident[1]
          /\ DOMAIN Tail(incident) = 1..(Len(incident) - 1)
          /\ \A i \in 1..(Len(incident) - 1) : Tail(incident)[i] = incident[i + 1]
      BY <2>1
    <3>3. \A i \in 1..(Len(incident) - 1) : i + 1 \in 1..Len(incident) /\ i + 1 # 1
      BY <3>2
    <3> HIDE DEF m
    <3>4. QED
      BY <3>1, <3>2, <3>3 DEF Elements
  <2>3. QED
    BY <2>1, <2>2, ElementsTail DEF AckAlert, RunInv, FedOnce, Phases, InHand, store, past
<1>2. /\ UNCHANGED <<topic, failed>>
      /\ acked' = acked \/ (m \notin failed /\ acked' = acked \cup {m})
  <2>1. CASE Ack(m, Mesh)
    <3>1. m \notin failed
      BY <2>1, <1>1, PipelineAssumption, BusAssumption DEF Ack, IInv, SettledOneWay
    <3>2. QED
      BY <2>1, <3>1 DEF Ack
  <2>2. CASE UNCHANGED vars
    BY <2>2 DEF vars
  <2>3. QED
    BY <2>1, <2>2 DEF AckAlert
<1> HIDE DEF m
<1>3. InHand' = InHand \ {m} /\ Published' = Published
  BY <1>1, <1>2 DEF InHand, Published
<1>4. H!HLetGo(m)
  BY <1>1, <1>2, <1>3 DEF H!HLetGo, H!Handled, Handled
<1>5. QED
  BY <1>1, <1>4

LEMMA HandlingCut ==
  ASSUME IInv, RunInv, Owed, Crash \/ TimeOut
  PROVE  H!HCut
<1>1. /\ UNCHANGED <<topic, acked, failed>> /\ Published' = Published
      /\ cut' = cut \cup InHand
      /\ inbox' = {} /\ group' = <<>> /\ incident' = <<>>
      /\ \/ UNCHANGED closed
         \/ pc = "running" /\ closed' = closed \cup {Elements(incident)}
  BY DEF Crash, TimeOut, Forget, vars, store, Published, RunInv, RunType
<1>2. InHand' = {}
  BY <1>1, ElementsEmpty DEF InHand
<1>3. QED
  BY <1>1, <1>2, IncidentInHand DEF H!HCut

LEMMA HandlingStep ==
  ASSUME IInv, RunInv, Owed, [PNext]_pvars
  PROVE  [H!HNext]_(H!hvars)
<1>1. CASE \E m \in Msg : PublishAlert(m)
  BY <1>1, HandlingOffer DEF H!HNext
<1>2. CASE Poll
  BY <1>2, HandlingTake DEF H!HNext
<1>3. CASE Drain \/ \E m \in Msg : Feed(m)
  BY <1>3, HandlingMoves
<1>4. CASE CloseSession
  BY <1>4, HandlingClose DEF H!HNext
<1>5. CASE AckAlert
  BY <1>5, HandlingLetGo DEF H!HNext
<1>6. CASE Crash \/ TimeOut
  BY <1>6, HandlingCut DEF H!HNext
<1>7. CASE Start \/ EndBatch \/ OpenSession \/ EndIncident \/ Time \/ UNCHANGED pvars
  BY <1>7, HandlingQuiet
     DEF Start, EndBatch, OpenSession, EndIncident, Time, Tick, pvars, vars, memory, store, past
<1>8. QED
  BY <1>1, <1>2, <1>3, <1>4, <1>5, <1>6, <1>7 DEF PNext, Run

\* The consume loop over the bus implements Handling: every step of the two, of
\* crashes, timeouts and lapsing leases is a step of the promise or a stutter.
THEOREM PipelineImplementsHandling == PSpec => ImplementsHandling
<1>1. QED
  BY HandlingInit, HandlingStep, PipelineInvariant, OwedAlways, PTL
     DEF PSpec, ImplementsHandling, H!HSpec

\* The claim of sessions.py that a redelivered alert meets its old session holds as
\* long as no run was cut short with an alert in its hands.
THEOREM SessionsReusedUnlessCut == PSpec => [](cut = {} => RedeliveryReusesSession)
<1>1. RunInv => (cut = {} => RedeliveryReusesSession)
  BY DEF RunInv, HandledOnce, Phases, RedeliveryReusesSession, DisjointBut
<1>2. QED
  BY <1>1, PipelineInvariant, PTL

\* Through the bus, the pipeline also implements Delivery.
THEOREM PipelineImplementsDelivery == PSpec => ImplementsDelivery
<1>1. QED
  BY PipelineUsesBus, BusImplementsDelivery, PTL
=============================================================================
