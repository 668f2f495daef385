----------------------------- MODULE BusProofs -----------------------------
(***************************************************************************)
(* Proofs about Bus.tla for every set of messages, topics and consumers    *)
(* and every number of attempts, lease length, delay and batch size.       *)
(* The inductive invariant is the conjunction of the type invariant with   *)
(* the three state invariants of Bus.tla: each of them needs the others.   *)
(***************************************************************************)
EXTENDS Bus, FiniteSetTheorems, TLAPS

IInv == TypeOK /\ SettledOneWay /\ AttemptsRespected /\ RowsConsistent

\* The rank given to a new row is a number: the rows are finitely many.
LEMMA RankType == Cardinality(Published) \in Nat
<1>1. IsFiniteSet(Published)
  BY BusAssumption, FS_Subset DEF Published
<1>2. QED
  BY <1>1, FS_CardinalityType

\* A claim works on free rows only: those it leases have attempts left, those
\* it gives up have none, and no row is in both sets.
LEMMA ClaimSplits ==
  ASSUME IInv, NEW t \in Topic
  PROVE  /\ Exhausted(t) \subseteq Published
         /\ Claimable(t) \subseteq Published
         /\ Exhausted(t) \cap Claimable(t) = {}
         /\ \A m \in Exhausted(t) : Free(m) /\ attempts[m] = MaxAttempts
         /\ \A m \in Claimable(t) : Free(m) /\ attempts[m] < MaxAttempts
  BY BusAssumption DEF IInv, TypeOK, AttemptsRespected, Exhausted, Claimable, Published, Free

LEMMA InitInv == Init => IInv
  BY BusAssumption
     DEF Init, IInv, TypeOK, SettledOneWay, AttemptsRespected, RowsConsistent

LEMMA PublishInv ==
  ASSUME IInv, NEW m \in Msg, NEW t \in Topic, Publish(m, t)
  PROVE  IInv'
  BY RankType, BusAssumption
     DEF Publish, IInv, TypeOK, SettledOneWay, AttemptsRespected, RowsConsistent

LEMMA ClaimInv ==
  ASSUME IInv, NEW t \in Topic, NEW c \in Consumer,
         NEW S \in SUBSET Claimable(t), ClaimRows(c, S, Exhausted(t))
  PROVE  IInv'
<1> DEFINE X == Exhausted(t)
<1>1. /\ X \subseteq Msg /\ S \subseteq Msg /\ X \cap S = {}
      /\ \A m \in X : Free(m) /\ attempts[m] = MaxAttempts /\ topic[m] # NoTopic
      /\ \A m \in S : Free(m) /\ attempts[m] < MaxAttempts /\ topic[m] # NoTopic
  BY ClaimSplits DEF Published
<1> HIDE DEF X
<1>2. ClaimRows(c, S, X)
  BY DEF X
<1>3. TypeOK'
  BY <1>1, <1>2, BusAssumption DEF ClaimRows, IInv, TypeOK
<1>4. SettledOneWay'
  BY <1>1, <1>2, BusAssumption DEF ClaimRows, IInv, TypeOK, SettledOneWay, Free
<1>5. AttemptsRespected'
  BY <1>1, <1>2, BusAssumption DEF ClaimRows, IInv, TypeOK, AttemptsRespected, SettledOneWay, Free
<1>6. RowsConsistent'
  BY <1>1, <1>2, BusAssumption DEF ClaimRows, IInv, TypeOK, RowsConsistent, Free
<1>7. QED
  BY <1>3, <1>4, <1>5, <1>6 DEF IInv

LEMMA AckInv ==
  ASSUME IInv, NEW m \in Msg, NEW c \in Consumer, Ack(m, c)
  PROVE  IInv'
  BY BusAssumption
     DEF Ack, IInv, TypeOK, SettledOneWay, AttemptsRespected, RowsConsistent

LEMMA ReleaseInv ==
  ASSUME IInv, NEW m \in Msg, NEW c \in Consumer, NEW d \in 0..MaxDelay, Release(m, c, d)
  PROVE  IInv'
  BY BusAssumption
     DEF Release, IInv, TypeOK, SettledOneWay, AttemptsRespected, RowsConsistent

LEMMA TickInv == IInv /\ Tick => IInv'
  BY BusAssumption
     DEF Tick, IInv, TypeOK, SettledOneWay, AttemptsRespected, RowsConsistent

LEMMA StepInv == IInv /\ [Next]_vars => IInv'
<1> SUFFICES ASSUME IInv, [Next]_vars PROVE IInv'
  OBVIOUS
<1>1. CASE \E m \in Msg, t \in Topic : Publish(m, t)
  BY <1>1, PublishInv
<1>2. ASSUME NEW t \in Topic, NEW c \in Consumer, Claim(t, c) PROVE IInv'
  BY <1>2, ClaimInv DEF Claim
<1>3. CASE \E m \in Msg, c \in Consumer : Ack(m, c)
  BY <1>3, AckInv
<1>4. CASE \E m \in Msg, c \in Consumer, d \in 0..MaxDelay : Release(m, c, d)
  BY <1>4, ReleaseInv
<1>5. CASE Tick
  BY <1>5, TickInv
<1>6. CASE UNCHANGED vars
  BY <1>6 DEF vars, IInv, TypeOK, SettledOneWay, AttemptsRespected, RowsConsistent
<1>7. QED
  BY <1>1, <1>2, <1>3, <1>4, <1>5, <1>6 DEF Next

\* The inductive invariant holds in every reachable state of the bus.
THEOREM BusInvariant == Spec => []IInv
<1>1. QED
  BY InitInv, StepInv, PTL DEF Spec

\* Every column of bus_messages keeps its type.
THEOREM TypeCorrect == Spec => []TypeOK
<1>1. IInv => TypeOK
  BY DEF IInv
<1>2. QED
  BY <1>1, BusInvariant, PTL

\* No message is both acknowledged and a dead letter, and nobody owns a
\* settled message.
THEOREM SettledOneWayHolds == Spec => []SettledOneWay
<1>1. IInv => SettledOneWay
  BY DEF IInv
<1>2. QED
  BY <1>1, BusInvariant, PTL

\* The limit on attempts holds exactly: never exceeded, and reached by every
\* dead letter.
THEOREM AttemptsRespectedHolds == Spec => []AttemptsRespected
<1>1. IInv => AttemptsRespected
  BY DEF IInv
<1>2. QED
  BY <1>1, BusInvariant, PTL

\* A running lease has an owner and an owned row has been handed out.
THEOREM RowsConsistentHolds == Spec => []RowsConsistent
<1>1. IInv => RowsConsistent
  BY DEF IInv
<1>2. QED
  BY <1>1, BusInvariant, PTL

-----------------------------------------------------------------------------
(* Action properties: what a step of the bus may never do. *)

\* The body of LeaseNotStolen.
LeaseKept ==
  \A m \in Msg :
    leaseLeft[m] > 0 =>
      /\ m \notin failed'
      /\ leaseOwner'[m] \in {leaseOwner[m], NoOne}
      /\ attempts'[m] = attempts[m]

\* The body of SettledForGood.
VerdictKept ==
  /\ acked \subseteq acked'
  /\ failed \subseteq failed'
  /\ \A m \in acked' \ acked : leaseOwner[m] # NoOne /\ m \notin failed
  /\ \A m \in failed' \ failed : attempts[m] = MaxAttempts

LEMMA ClaimKeeps ==
  ASSUME IInv, NEW t \in Topic, NEW c \in Consumer, Claim(t, c)
  PROVE  LeaseKept /\ VerdictKept
<1>1. PICK S \in SUBSET Claimable(t) : ClaimRows(c, S, Exhausted(t))
  BY DEF Claim
<1> DEFINE X == Exhausted(t)
<1>2. /\ X \subseteq Msg /\ S \subseteq Msg
      /\ \A m \in X : Free(m) /\ attempts[m] = MaxAttempts
      /\ \A m \in S : Free(m)
  BY ClaimSplits DEF Published
<1>3. ClaimRows(c, S, X)
  BY <1>1
<1> HIDE DEF X
<1>4. LeaseKept
  BY <1>2, <1>3 DEF ClaimRows, LeaseKept, Free, IInv, TypeOK, SettledOneWay
<1>5. VerdictKept
  BY <1>2, <1>3 DEF ClaimRows, VerdictKept
<1>6. QED
  BY <1>4, <1>5

LEMMA StepKeeps == IInv /\ [Next]_vars => LeaseKept /\ VerdictKept
<1> SUFFICES ASSUME IInv, [Next]_vars PROVE LeaseKept /\ VerdictKept
  OBVIOUS
<1> USE DEF LeaseKept, VerdictKept, IInv, TypeOK, SettledOneWay
<1>1. CASE \E m \in Msg, t \in Topic : Publish(m, t)
  BY <1>1 DEF Publish
<1>2. CASE \E t \in Topic, c \in Consumer : Claim(t, c)
  BY <1>2, ClaimKeeps
<1>3. CASE \E m \in Msg, c \in Consumer : Ack(m, c)
  BY <1>3, BusAssumption DEF Ack
<1>4. CASE \E m \in Msg, c \in Consumer, d \in 0..MaxDelay : Release(m, c, d)
  BY <1>4, BusAssumption DEF Release
<1>5. CASE Tick
  BY <1>5 DEF Tick
<1>6. CASE UNCHANGED vars
  BY <1>6 DEF vars
<1>7. QED
  BY <1>1, <1>2, <1>3, <1>4, <1>5, <1>6 DEF Next

\* A running lease is never handed to somebody else, and its message is never
\* given up while it runs.
THEOREM LeaseNotStolenHolds == Spec => LeaseNotStolen
<1>1. IInv /\ [Next]_vars => [LeaseKept]_vars
  BY StepKeeps
<1>2. QED
  BY <1>1, BusInvariant, PTL DEF Spec, LeaseNotStolen, LeaseKept

\* A verdict is final; only the last owner acknowledges, only a message
\* without attempts left is given up.
THEOREM SettledForGoodHolds == Spec => SettledForGood
<1>1. IInv /\ [Next]_vars => [VerdictKept]_vars
  BY StepKeeps
<1>2. QED
  BY <1>1, BusInvariant, PTL DEF Spec, SettledForGood, VerdictKept

-----------------------------------------------------------------------------
(* Refinement: every step of the bus is a step of Delivery or a stutter. *)

LEMMA InitRefines == Init => D!DInit
  BY DEF Init, D!DInit, PhaseOf

LEMMA PublishRefines ==
  ASSUME IInv, NEW m \in Msg, NEW t \in Topic, Publish(m, t)
  PROVE  D!Offer(m)
<1> USE BusAssumption DEF Publish, IInv, TypeOK, RowsConsistent, SettledOneWay
<1>1. UNCHANGED <<leaseOwner, attempts>>
  OBVIOUS
<1>2. PhaseOf(m) = "absent" /\ PhaseOf(m)' = "ready"
  BY DEF PhaseOf
<1>3. \A k \in Msg \ {m} : PhaseOf(k)' = PhaseOf(k)
  BY DEF PhaseOf
<1>4. QED
  BY <1>1, <1>2, <1>3 DEF D!Offer

LEMMA ClaimRefines ==
  ASSUME IInv, NEW t \in Topic, NEW c \in Consumer, Claim(t, c)
  PROVE  D!DNext
<1>1. PICK S \in SUBSET Claimable(t) : ClaimRows(c, S, Exhausted(t))
  BY DEF Claim
<1> DEFINE X == Exhausted(t)
<1>2. /\ X \subseteq Msg /\ S \subseteq Msg /\ X \cap S = {}
      /\ \A m \in X : Free(m) /\ attempts[m] = MaxAttempts /\ topic[m] # NoTopic
      /\ \A m \in S : Free(m) /\ attempts[m] < MaxAttempts /\ topic[m] # NoTopic
  BY <1>1, ClaimSplits DEF Published
<1>3. ClaimRows(c, S, X)
  BY <1>1
<1> HIDE DEF X
<1>4. S \subseteq D!InPhase("ready") /\ X \subseteq D!InPhase("ready")
  BY <1>2 DEF D!InPhase, PhaseOf, Free, IInv, TypeOK
<1>5. D!Poll(c, S, X)
  BY <1>2, <1>3, BusAssumption
     DEF D!Poll, ClaimRows, PhaseOf, Free, IInv, TypeOK, SettledOneWay
<1>6. QED
  BY <1>4, <1>5 DEF D!DNext

LEMMA AckRefines ==
  ASSUME IInv, NEW m \in Msg, NEW c \in Consumer, Ack(m, c)
  PROVE  D!Settle(m)
<1> USE BusAssumption DEF Ack, IInv, TypeOK, RowsConsistent, SettledOneWay
<1>1. /\ leaseOwner[m] # NoOne
      /\ leaseOwner' = [leaseOwner EXCEPT ![m] = NoOne]
      /\ UNCHANGED attempts
  OBVIOUS
<1>2. PhaseOf(m) \in {"held", "ready"} /\ PhaseOf(m)' = "acked"
  BY DEF PhaseOf
<1>3. \A k \in Msg \ {m} : PhaseOf(k)' = PhaseOf(k)
  BY DEF PhaseOf
<1>4. QED
  BY <1>1, <1>2, <1>3 DEF D!Settle

LEMMA ReleaseRefines ==
  ASSUME IInv, NEW m \in Msg, NEW c \in Consumer, NEW d \in 0..MaxDelay, Release(m, c, d)
  PROVE  D!GiveBack(m)
<1> USE BusAssumption DEF Release, IInv, TypeOK, RowsConsistent, SettledOneWay
<1>1. /\ leaseOwner[m] # NoOne
      /\ leaseOwner' = [leaseOwner EXCEPT ![m] = NoOne]
      /\ UNCHANGED attempts
  OBVIOUS
<1>2. PhaseOf(m) \in {"held", "ready"} /\ PhaseOf(m)' = "ready"
  BY DEF PhaseOf
<1>3. \A k \in Msg \ {m} : PhaseOf(k)' = PhaseOf(k)
  BY DEF PhaseOf
<1>4. QED
  BY <1>1, <1>2, <1>3 DEF D!GiveBack

\* A tick ends the leases with one unit left, and is a stutter if there are none.
LEMMA TickRefines == IInv /\ Tick => D!DNext
<1> SUFFICES ASSUME IInv, Tick PROVE D!DNext
  OBVIOUS
<1> DEFINE S == {m \in D!InPhase("held") : leaseLeft[m] = 1}
<1>1. D!Lapse(S)
  BY DEF Tick, D!Lapse, D!InPhase, PhaseOf, IInv, TypeOK, SettledOneWay
<1>2. QED
  BY <1>1 DEF D!DNext

LEMMA StepRefines == IInv /\ [Next]_vars => [D!DNext]_(D!dvars)
<1> SUFFICES ASSUME IInv, [Next]_vars PROVE [D!DNext]_(D!dvars)
  OBVIOUS
<1>1. CASE \E m \in Msg, t \in Topic : Publish(m, t)
  BY <1>1, PublishRefines DEF D!DNext
<1>2. CASE \E t \in Topic, c \in Consumer : Claim(t, c)
  BY <1>2, ClaimRefines
<1>3. CASE \E m \in Msg, c \in Consumer : Ack(m, c)
  BY <1>3, AckRefines DEF D!DNext
<1>4. CASE \E m \in Msg, c \in Consumer, d \in 0..MaxDelay : Release(m, c, d)
  BY <1>4, ReleaseRefines DEF D!DNext
<1>5. CASE Tick
  BY <1>5, TickRefines
<1>6. CASE UNCHANGED vars
  BY <1>6 DEF vars, D!dvars, PhaseOf
<1>7. QED
  BY <1>1, <1>2, <1>3, <1>4, <1>5, <1>6 DEF Next

\* The bus implements at-least-once delivery with a bounded number of attempts
\* and one holder at a time.
THEOREM BusImplementsDelivery == Spec => ImplementsDelivery
<1>1. QED
  BY InitRefines, StepRefines, BusInvariant, PTL DEF Spec, ImplementsDelivery, D!DSpec

=============================================================================
