-------------------------------- MODULE Bus --------------------------------
(***************************************************************************)
(* The SQLite message bus (bus/sqlite_bus.py): one row per message in the  *)
(* table bus_messages.  Every operation is one SQL statement or one        *)
(* BEGIN IMMEDIATE transaction, so every operation is one action; any      *)
(* number of consumer processes call them in any order.  A call whose      *)
(* WHERE clause matches no row changes nothing and returns False: it is a  *)
(* stuttering step.  A consumer that crashes simply calls no more.         *)
(*                                                                         *)
(* The code compares time stamps with the current time; a row is modelled  *)
(* by the time that remains (0: the stamp has been reached, or is NULL).   *)
(* Stamps in lease_until and available_at are thus leaseLeft and availIn,  *)
(* and Tick lets time pass for all rows together.  created_at is used only *)
(* to order rows, so the model keeps the rank of the publication.          *)
(***************************************************************************)
EXTENDS Naturals, FiniteSets

CONSTANTS
  Msg,          \* message identifiers (the primary key msg_id)
  Topic,        \* topics
  Consumer,     \* consumer names
  NoOne,        \* NULL in lease_owner
  NoTopic,      \* the row does not exist
  MaxAttempts,  \* SqliteBus.max_attempts
  LeaseS,       \* the lease a claim asks for
  MaxDelay,     \* the largest delay a release asks for
  MaxBatch      \* the largest limit a claim asks for

ASSUME BusAssumption ==
  /\ NoOne \notin Consumer
  /\ NoTopic \notin Topic
  /\ MaxAttempts \in Nat \ {0}
  /\ LeaseS \in Nat \ {0}
  /\ MaxDelay \in Nat
  /\ MaxBatch \in Nat \ {0}
  /\ IsFiniteSet(Msg)

VARIABLES
  topic,       \* column topic; NoTopic: no row
  created,     \* rank of created_at
  availIn,     \* time until available_at
  attempts,    \* column attempts
  leaseOwner,  \* column lease_owner
  leaseLeft,   \* time until lease_until
  acked,       \* rows with acked_at set
  failed       \* rows with failed_at set (dead letters)

vars == <<topic, created, availIn, attempts, leaseOwner, leaseLeft, acked, failed>>

TypeOK ==
  /\ topic      \in [Msg -> Topic \cup {NoTopic}]
  /\ created    \in [Msg -> Nat]
  /\ availIn    \in [Msg -> Nat]
  /\ attempts   \in [Msg -> Nat]
  /\ leaseOwner \in [Msg -> Consumer \cup {NoOne}]
  /\ leaseLeft  \in [Msg -> Nat]
  /\ acked  \subseteq Msg
  /\ failed \subseteq Msg

Init ==
  /\ topic      = [m \in Msg |-> NoTopic]
  /\ created    = [m \in Msg |-> 0]
  /\ availIn    = [m \in Msg |-> 0]
  /\ attempts   = [m \in Msg |-> 0]
  /\ leaseOwner = [m \in Msg |-> NoOne]
  /\ leaseLeft  = [m \in Msg |-> 0]
  /\ acked  = {}
  /\ failed = {}

-----------------------------------------------------------------------------
Published == {m \in Msg : topic[m] # NoTopic}

\* Mutation: a row is free when nobody owns it, whatever its lease.
FreeOfOwner(m) == m \notin acked /\ m \notin failed /\ leaseOwner[m] = NoOne

\* The SQL fragment `free` of claim.
Free(m) == m \notin acked /\ m \notin failed /\ leaseLeft[m] = 0

\* Mutation: the first UPDATE forgets to look at the lease.
ExhaustedLeased(t) ==
  {m \in Msg : topic[m] = t /\ attempts[m] >= MaxAttempts /\ m \notin acked \cup failed}

\* The rows the first UPDATE of claim marks as failed.
Exhausted(t) == {m \in Msg : topic[m] = t /\ attempts[m] >= MaxAttempts /\ Free(m)}

\* Mutation: the SELECT runs before the dead letters are marked.
ClaimableFirst(t) == {m \in Msg : topic[m] = t /\ availIn[m] = 0 /\ Free(m)}

\* Mutation: the SELECT does not look at the lease.
ClaimableLeased(t) ==
  {m \in Msg : topic[m] = t /\ availIn[m] = 0 /\ m \notin acked \cup failed
               /\ attempts[m] < MaxAttempts}

\* The rows the SELECT of claim may return, after that UPDATE.
Claimable(t) ==
  {m \in Msg : topic[m] = t /\ availIn[m] = 0 /\ Free(m)} \ Exhausted(t)

\* ORDER BY created_at LIMIT n, as a predicate on the set of rows returned.
IsOldest(S, E, n) ==
  /\ S \subseteq E
  /\ S # E => Cardinality(S) = n
  /\ S = E => Cardinality(S) <= n
  /\ \A x \in S, y \in E \ S : created[x] < created[y]

-----------------------------------------------------------------------------
\* Mutation: INSERT OR REPLACE.
PublishReplacing(m, t) ==
  /\ topic'      = [topic EXCEPT ![m] = t]
  /\ created'    = [created EXCEPT ![m] = Cardinality(Published \ {m}) + 1]
  /\ availIn'    = [availIn EXCEPT ![m] = 0]
  /\ attempts'   = [attempts EXCEPT ![m] = 0]
  /\ leaseOwner' = [leaseOwner EXCEPT ![m] = NoOne]
  /\ leaseLeft'  = [leaseLeft EXCEPT ![m] = 0]
  /\ acked'  = acked \ {m}
  /\ failed' = failed \ {m}

Publish(m, t) ==
  /\ topic[m] = NoTopic
  /\ topic'   = [topic EXCEPT ![m] = t]
  /\ created' = [created EXCEPT ![m] = Cardinality(Published) + 1]
  /\ UNCHANGED <<availIn, attempts, leaseOwner, leaseLeft, acked, failed>>

\* Mutation: the arguments topic and consumer are swapped in the UPDATE.
ClaimRowsSwapped(c, S, D) ==
  /\ failed'     = failed \cup D
  /\ leaseOwner' = [m \in Msg |-> IF m \in S THEN topic[m]
                                  ELSE IF m \in D THEN NoOne ELSE leaseOwner[m]]
  /\ leaseLeft'  = [m \in Msg |-> IF m \in S THEN LeaseS ELSE leaseLeft[m]]
  /\ attempts'   = [m \in Msg |-> IF m \in S THEN attempts[m] + 1 ELSE attempts[m]]
  /\ UNCHANGED <<topic, created, availIn, acked>>

\* Mutation: a dead letter keeps its lease_owner, who may still acknowledge it.
ClaimRowsOwned(c, S, D) ==
  /\ failed'     = failed \cup D
  /\ leaseOwner' = [m \in Msg |-> IF m \in S THEN c ELSE leaseOwner[m]]
  /\ leaseLeft'  = [m \in Msg |-> IF m \in S THEN LeaseS ELSE leaseLeft[m]]
  /\ attempts'   = [m \in Msg |-> IF m \in S THEN attempts[m] + 1 ELSE attempts[m]]
  /\ UNCHANGED <<topic, created, availIn, acked>>

\* Dead-letter the rows of D, then lease the rows of S.
ClaimRows(c, S, D) ==
  /\ failed'     = failed \cup D
  /\ leaseOwner' = [m \in Msg |-> IF m \in S THEN c
                                  ELSE IF m \in D THEN NoOne ELSE leaseOwner[m]]
  /\ leaseLeft'  = [m \in Msg |-> IF m \in S THEN LeaseS
                                  ELSE IF m \in D THEN 0 ELSE leaseLeft[m]]
  /\ attempts'   = [m \in Msg |-> IF m \in S THEN attempts[m] + 1 ELSE attempts[m]]
  /\ UNCHANGED <<topic, created, availIn, acked>>

Claim(t, c) ==
  LET E == Claimable(t) IN
  \E n \in 1..MaxBatch : \E S \in SUBSET E :
    /\ IsOldest(S, E, n)
    /\ ClaimRows(c, S, Exhausted(t))

\* Not guarded by the lease still running: the last owner may be late.
Ack(m, c) ==
  /\ leaseOwner[m] = c
  /\ m \notin acked
  /\ acked'      = acked \cup {m}
  /\ leaseOwner' = [leaseOwner EXCEPT ![m] = NoOne]
  /\ leaseLeft'  = [leaseLeft EXCEPT ![m] = 0]
  /\ UNCHANGED <<topic, created, availIn, attempts, failed>>

\* Mutation: the lease is not cleared with its owner.
ReleaseLeased(m, c, d) ==
  /\ leaseOwner[m] = c
  /\ m \notin acked
  /\ leaseOwner' = [leaseOwner EXCEPT ![m] = NoOne]
  /\ availIn'    = [availIn EXCEPT ![m] = d]
  /\ UNCHANGED <<topic, created, attempts, leaseLeft, acked, failed>>

Release(m, c, d) ==
  /\ leaseOwner[m] = c
  /\ m \notin acked
  /\ leaseOwner' = [leaseOwner EXCEPT ![m] = NoOne]
  /\ leaseLeft'  = [leaseLeft EXCEPT ![m] = 0]
  /\ availIn'    = [availIn EXCEPT ![m] = d]
  /\ UNCHANGED <<topic, created, attempts, acked, failed>>

Tick ==
  /\ leaseLeft' = [m \in Msg |-> IF leaseLeft[m] > 0 THEN leaseLeft[m] - 1 ELSE 0]
  /\ availIn'   = [m \in Msg |-> IF availIn[m] > 0 THEN availIn[m] - 1 ELSE 0]
  /\ UNCHANGED <<topic, created, attempts, leaseOwner, acked, failed>>

Next ==
  \/ \E m \in Msg, t \in Topic : Publish(m, t)
  \/ \E t \in Topic, c \in Consumer : Claim(t, c)
  \/ \E m \in Msg, c \in Consumer : Ack(m, c)
  \/ \E m \in Msg, c \in Consumer, d \in 0..MaxDelay : Release(m, c, d)
  \/ Tick

Spec == Init /\ [][Next]_vars

\* Time passes and every topic keeps being polled by somebody.  No fairness
\* for Ack or Release: consumers may crash or forget for ever.
Fairness ==
  /\ WF_vars(Tick)
  /\ \A t \in Topic : WF_vars(\E c \in Consumer : Claim(t, c))

FairSpec == Spec /\ Fairness

-----------------------------------------------------------------------------
(* Safety *)

\* A message is settled in one way only and nobody owns a settled message:
\* ack does not test failed_at and claim's UPDATE does not test lease_owner,
\* so this rests on each of them clearing what the other one tests.
SettledOneWay ==
  /\ acked \cap failed = {}
  /\ \A m \in acked \cup failed : leaseOwner[m] = NoOne /\ leaseLeft[m] = 0

\* A message is handed out at most MaxAttempts times, and only a message that
\* was handed out that often is a dead letter (base.py: "After max_attempts
\* claims it is dead-lettered instead").
AttemptsRespected ==
  /\ \A m \in Msg : attempts[m] <= MaxAttempts
  /\ \A m \in failed : attempts[m] = MaxAttempts

\* A running lease has an owner, an owner has used an attempt, and a row nobody
\* published carries neither lease, attempt nor verdict: no column outlives the
\* statement that set it.
RowsConsistent ==
  \A m \in Msg :
    /\ leaseLeft[m] > 0 => leaseOwner[m] # NoOne
    /\ leaseOwner[m] # NoOne => attempts[m] > 0
    /\ topic[m] = NoTopic => attempts[m] = 0 /\ m \notin acked \cup failed

\* While a lease runs, no step hands the message to somebody else or gives it
\* up: a running lease only ends by time, ack or release (sqlite_bus.py, "two
\* consumers can never lease the same message").
LeaseNotStolen ==
  [][\A m \in Msg :
       leaseLeft[m] > 0 =>
         /\ m \notin failed'
         /\ leaseOwner'[m] \in {leaseOwner[m], NoOne}
         /\ attempts'[m] = attempts[m]]_vars

\* What is settled stays settled, and only acknowledgement by the last owner
\* settles a message that has attempts left.
SettledForGood ==
  [][/\ acked \subseteq acked'
     /\ failed \subseteq failed'
     /\ \A m \in acked' \ acked : leaseOwner[m] # NoOne /\ m \notin failed
     /\ \A m \in failed' \ failed : attempts[m] = MaxAttempts]_vars

\* Every published message is eventually acknowledged or a dead letter, even if
\* every consumer that claims it crashes.
EventuallySettled ==
  \A m \in Msg : (topic[m] # NoTopic) ~> (m \in acked \cup failed)

-----------------------------------------------------------------------------
(* The bus implements Delivery. *)

PhaseOf(m) ==
  IF topic[m] = NoTopic THEN "absent"
  ELSE IF m \in acked THEN "acked"
  ELSE IF m \in failed THEN "dead"
  ELSE IF leaseLeft[m] > 0 THEN "held" ELSE "ready"

D == INSTANCE Delivery WITH
       phase  <- [m \in Msg |-> PhaseOf(m)],
       holder <- leaseOwner,
       tries  <- attempts

ImplementsDelivery == D!DSpec
=============================================================================
