------------------------------ MODULE Delivery ------------------------------
(***************************************************************************)
(* What the message bus promises, without clocks, delays, batches or       *)
(* order: every published message is offered to consumers, one holder at a *)
(* time, at most MaxAttempts times, until somebody acknowledges it or it   *)
(* is given up as a dead letter (bus/base.py, the module docstring).       *)
(* Bus.tla is the detailed specification that implements this one.         *)
(***************************************************************************)
EXTENDS Naturals

CONSTANTS Msg, Consumer, MaxAttempts, NoOne

VARIABLES
  phase,     \* where each message stands
  holder,    \* the consumer that claimed it last and has not been relieved
  tries      \* how often it was handed out

dvars == <<phase, holder, tries>>

Phase == {"absent", "ready", "held", "acked", "dead"}

DTypeOK ==
  /\ phase  \in [Msg -> Phase]
  /\ holder \in [Msg -> Consumer \cup {NoOne}]
  /\ tries  \in [Msg -> 0..MaxAttempts]

DInit ==
  /\ phase  = [m \in Msg |-> "absent"]
  /\ holder = [m \in Msg |-> NoOne]
  /\ tries  = [m \in Msg |-> 0]

InPhase(p) == {m \in Msg : phase[m] = p}

Offer(m) ==
  /\ phase[m] = "absent"
  /\ phase' = [phase EXCEPT ![m] = "ready"]
  /\ UNCHANGED <<holder, tries>>

\* One poll: consumer c is handed the ready messages of S, those of D are
\* given up.
Poll(c, S, D) ==
  /\ \A m \in S : tries[m] < MaxAttempts
  /\ \A m \in D : tries[m] = MaxAttempts
  /\ phase'  = [m \in Msg |-> IF m \in S THEN "held"
                              ELSE IF m \in D THEN "dead" ELSE phase[m]]
  /\ holder' = [m \in Msg |-> IF m \in S THEN c
                              ELSE IF m \in D THEN NoOne ELSE holder[m]]
  /\ tries'  = [m \in Msg |-> IF m \in S THEN tries[m] + 1 ELSE tries[m]]

\* The last holder settles the message, also when its time is over already.
Settle(m) ==
  /\ holder[m] # NoOne
  /\ phase[m] \in {"held", "ready"}
  /\ phase'  = [phase EXCEPT ![m] = "acked"]
  /\ holder' = [holder EXCEPT ![m] = NoOne]
  /\ UNCHANGED tries

GiveBack(m) ==
  /\ holder[m] # NoOne
  /\ phase[m] \in {"held", "ready"}
  /\ phase'  = [phase EXCEPT ![m] = "ready"]
  /\ holder' = [holder EXCEPT ![m] = NoOne]
  /\ UNCHANGED tries

\* Time is over for the holders of S.
Lapse(S) ==
  /\ phase' = [m \in Msg |-> IF m \in S THEN "ready" ELSE phase[m]]
  /\ UNCHANGED <<holder, tries>>

DNext ==
  \/ \E m \in Msg : Offer(m) \/ Settle(m) \/ GiveBack(m)
  \/ \E S \in SUBSET InPhase("held") : Lapse(S)
  \/ \E c \in Consumer, S, D \in SUBSET InPhase("ready") : Poll(c, S, D)

DSpec == DInit /\ [][DNext]_dvars

-----------------------------------------------------------------------------
(* What follows from the promise alone *)

\* Only a message that was handed out has a holder, a settled one has none, and
\* one is given up only after all its attempts.
DSafe ==
  \A m \in Msg :
    /\ phase[m] = "absent" => tries[m] = 0
    /\ phase[m] = "held" => holder[m] # NoOne
    /\ phase[m] = "dead" => tries[m] = MaxAttempts
    /\ phase[m] \in {"absent", "acked", "dead"} => holder[m] = NoOne
    /\ holder[m] # NoOne => tries[m] > 0

\* Attempts only grow, a settled message is never handed out again, and a message
\* changes hands only after its holder's time is over.
DFinal ==
  [][\A m \in Msg :
       /\ tries'[m] \in {tries[m], tries[m] + 1}
       /\ phase[m] \in {"acked", "dead"} => phase'[m] = phase[m] /\ tries'[m] = tries[m]
       /\ phase[m] = "held" => holder'[m] \in {holder[m], NoOne}]_dvars
=============================================================================
