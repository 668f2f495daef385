--------------------------- MODULE PromisesProofs ---------------------------
(***************************************************************************)
(* What follows from the abstract specifications alone: Delivery for the   *)
(* bus, Handling for the consume loop, Incident for the mesh and Ledger    *)
(* for the privacy accounting.  Bus, Pipeline, Mesh and Federation are     *)
(* proved to implement them, so all this holds of them under the mappings. *)
(*                                                                         *)
(* The abstract modules assume nothing of their constants; each theorem    *)
(* names what it needs.                                                    *)
(***************************************************************************)
EXTENDS Delivery, Handling, Incident, Ledger, TLAPS

(* Delivery *)

LEMMA DeliveryStep ==
  ASSUME MaxAttempts \in Nat, NoOne \notin Consumer,
         DTypeOK, DSafe, [DNext]_dvars
  PROVE  DTypeOK' /\ DSafe'
<1> USE DEF DTypeOK, DSafe, Phase
<1>1. ASSUME NEW m \in Msg, Offer(m) \/ Settle(m) \/ GiveBack(m) PROVE DTypeOK' /\ DSafe'
  BY <1>1 DEF Offer, Settle, GiveBack
<1>2. ASSUME NEW S \in SUBSET InPhase("held"), Lapse(S) PROVE DTypeOK' /\ DSafe'
  BY <1>2 DEF Lapse, InPhase
<1>3. ASSUME NEW c \in Consumer, NEW S \in SUBSET InPhase("ready"),
             NEW D \in SUBSET InPhase("ready"), Poll(c, S, D)
      PROVE  DTypeOK' /\ DSafe'
  BY <1>3 DEF Poll, InPhase
<1>4. CASE UNCHANGED dvars
  BY <1>4 DEF dvars
<1>5. QED
  BY <1>1, <1>2, <1>3, <1>4 DEF DNext

\* A message has a holder only while it is handed out, is handed out at most
\* MaxAttempts times, and is given up only after that.
THEOREM DeliveryKeeps ==
  ASSUME MaxAttempts \in Nat, NoOne \notin Consumer
  PROVE  DSpec => [](DTypeOK /\ DSafe)
<1>1. DInit => DTypeOK /\ DSafe
  BY DEF DInit, DTypeOK, DSafe, Phase
<1>2. QED
  BY <1>1, DeliveryStep, PTL DEF DSpec

\* A settled message is settled for good, and no message is taken from a holder
\* whose time is not over.
THEOREM DeliveryIsFinal ==
  ASSUME MaxAttempts \in Nat, NoOne \notin Consumer
  PROVE  DSpec => DFinal
<1> DEFINE Kept(m) ==
      /\ tries'[m] \in {tries[m], tries[m] + 1}
      /\ phase[m] \in {"acked", "dead"} => phase'[m] = phase[m] /\ tries'[m] = tries[m]
      /\ phase[m] = "held" => holder'[m] \in {holder[m], NoOne}
<1>1. ASSUME DTypeOK, DNext PROVE \A m \in Msg : Kept(m)
  <2>1. ASSUME NEW m \in Msg, Offer(m) \/ Settle(m) \/ GiveBack(m)
        PROVE  \A k \in Msg : Kept(k)
    BY <2>1, <1>1 DEF Offer, Settle, GiveBack, DTypeOK
  <2>2. ASSUME NEW S \in SUBSET InPhase("held"), Lapse(S) PROVE \A k \in Msg : Kept(k)
    BY <2>2, <1>1 DEF Lapse, InPhase, DTypeOK
  <2>3. ASSUME NEW c \in Consumer, NEW S \in SUBSET InPhase("ready"),
               NEW D \in SUBSET InPhase("ready"), Poll(c, S, D)
        PROVE  \A k \in Msg : Kept(k)
    BY <2>3, <1>1 DEF Poll, InPhase, DTypeOK
  <2>4. QED
    BY <1>1, <2>1, <2>2, <2>3 DEF DNext
<1>2. DTypeOK /\ [DNext]_dvars => [\A m \in Msg : Kept(m)]_dvars
  BY <1>1
<1>3. QED
  BY <1>2, DeliveryKeeps, PTL DEF DSpec, DFinal

-----------------------------------------------------------------------------
(* Handling *)

LEMMA HandlingStep ==
  ASSUME HTypeOK, HSafe, [HNext]_hvars
  PROVE  HTypeOK' /\ HSafe'
<1> USE DEF HTypeOK, HSafe, Handled
<1>1. ASSUME NEW m \in Alert, HOffer(m) PROVE HTypeOK' /\ HSafe'
  BY <1>1 DEF HOffer
<1>2. ASSUME NEW S \in SUBSET offered, NEW G \in SUBSET offered, HTake(S, G)
      PROVE  HTypeOK' /\ HSafe'
  BY <1>2 DEF HTake
<1>3. ASSUME NEW S \in SUBSET inHand, HClose(S) PROVE HTypeOK' /\ HSafe'
  <2>1. Handled' = Handled \cup S
    BY <1>3 DEF HClose
  <2>2. HTypeOK'
    BY <1>3 DEF HClose
  <2>3. ASSUME NEW T \in closed', NEW U \in closed', T # U PROVE T \cap U \subseteq cut
    <3>1. \A T1 \in closed : T1 \cap S \subseteq cut
      BY <1>3 DEF HClose
    <3>2. QED
      BY <1>3, <2>3, <3>1 DEF HClose
  <2>4. UNCHANGED <<acked, dead, cut, inHand>>
    BY <1>3 DEF HClose
  <2>5. QED
    BY <2>1, <2>2, <2>3, <2>4
<1>4. ASSUME NEW m \in inHand, HLetGo(m) PROVE HTypeOK' /\ HSafe'
  BY <1>4 DEF HLetGo
<1>5. CASE HCut
  <2>1. PICK S \in SUBSET inHand : closed' = closed \/ closed' = closed \cup {S}
    BY <1>5 DEF HCut
  <2>2. /\ cut' = cut \cup inHand /\ inHand' = {} /\ S \subseteq cut'
        /\ UNCHANGED <<offered, acked, dead>>
    BY <1>5, <2>1 DEF HCut
  <2>3. HTypeOK' /\ Handled \subseteq Handled'
    BY <2>1, <2>2
  <2>4. ASSUME NEW T \in closed', NEW U \in closed', T # U PROVE T \cap U \subseteq cut'
    BY <2>1, <2>2, <2>4
  <2>5. QED
    BY <2>2, <2>3, <2>4
<1>6. CASE UNCHANGED hvars
  BY <1>6 DEF hvars
<1>7. QED
  BY <1>1, <1>2, <1>3, <1>4, <1>5, <1>6 DEF HNext

\* Nothing is acknowledged unhandled, and every alert is in one session at most and
\* not dropped, unless it was in hand when a run was cut short.
THEOREM HandlingKeeps == HSpec => [](HTypeOK /\ HSafe)
<1>1. HInit => HTypeOK /\ HSafe
  BY DEF HInit, HTypeOK, HSafe, Handled
<1>2. QED
  BY <1>1, HandlingStep, PTL DEF HSpec

-----------------------------------------------------------------------------
(* Incident *)

LEMMA IncidentStep ==
  ASSUME Undecided \notin SUBSET Action, ITypeOK, ISafe, [INext]_ivars
  PROVE  ITypeOK' /\ ISafe'
BY DEF ITypeOK, ISafe, INext, IOpen, IDecide, IRecord, IAnnounce, IClose, ivars

\* Only what the verdict says is recorded and announced, all of it before the end.
THEOREM IncidentKeeps ==
  ASSUME Undecided \notin SUBSET Action
  PROVE  ISpec => [](ITypeOK /\ ISafe)
<1>1. IInit => ITypeOK /\ ISafe
  BY DEF IInit, ITypeOK, ISafe
<1>2. QED
  BY <1>1, IncidentStep, PTL DEF ISpec

\* A verdict is not revised and an ended incident is left alone.
THEOREM IncidentIsFinal ==
  ASSUME Undecided \notin SUBSET Action
  PROVE  ISpec => IFinal
<1> DEFINE Kept ==
      /\ verdict # Undecided => verdict' = verdict
      /\ recorded \subseteq recorded' /\ announced \subseteq announced'
      /\ stage \in {"abstained", "completed"} => UNCHANGED ivars
<1>1. [INext]_ivars => [Kept]_ivars
  BY DEF INext, IOpen, IDecide, IRecord, IAnnounce, IClose, ivars
<1>2. QED
  BY <1>1, PTL DEF ISpec, IFinal

-----------------------------------------------------------------------------
(* Ledger *)

LEMMA LedgerKeepsStep ==
  ASSUME Budget \in [Node -> Nat], Reserve \in Nat, ReservedCost \in Nat,
         LTypeOK, LSafe, [LNext]_lvars
  PROVE  LTypeOK' /\ LSafe'
<1> USE DEF LTypeOK, LSafe
<1>1. ASSUME NEW n \in Node, NEW c \in Nat, Book(n, c), charged[n] + c <= Budget[n], given' \subseteq Node
      PROVE  LTypeOK' /\ LSafe'
  BY <1>1 DEF Book
<1>2. ASSUME NEW n \in Node, NEW c \in 1..Budget[n], LCharge(n, c) PROVE LTypeOK' /\ LSafe'
  <2>1. c \in Nat /\ charged[n] + c <= Budget[n]
    BY <1>2 DEF LCharge
  <2>2. QED
    BY <1>1, <1>2, <2>1 DEF LCharge
<1>3. ASSUME NEW n \in Node, LChargeReserved(n) PROVE LTypeOK' /\ LSafe'
  BY <1>1, <1>3 DEF LChargeReserved
<1>4. ASSUME NEW n \in Node, LRelease(n) PROVE LTypeOK' /\ LSafe'
  BY <1>4 DEF LRelease
<1>5. ASSUME NEW n \in Node, LDiscard(n) PROVE LTypeOK' /\ LSafe'
  BY <1>5 DEF LDiscard
<1>6. ASSUME NEW n \in Node, LRetire(n) PROVE LTypeOK' /\ LSafe'
  BY <1>6 DEF LRetire
<1>7. CASE LRerun \/ UNCHANGED lvars
  BY <1>7 DEF LRerun, lvars
<1>8. QED
  BY <1>2, <1>3, <1>4, <1>5, <1>6, <1>7 DEF LNext

\* No more leaves a node than was charged, no more is charged than its total, and a
\* retired node has no room for a step.
THEOREM LedgerKeeps ==
  ASSUME Budget \in [Node -> Nat], Reserve \in Nat, ReservedCost \in Nat
  PROVE  LSpec => [](LTypeOK /\ LSafe)
<1>1. LInit => LTypeOK /\ LSafe
  BY DEF LInit, LTypeOK, LSafe
<1>2. QED
  BY <1>1, LedgerKeepsStep, PTL DEF LSpec

\* Charges are not taken back, only what was charged for leaves a node, and a retired
\* node pays for nothing but the reserved release.
THEOREM LedgerIsFinal ==
  ASSUME Budget \in [Node -> Nat], Reserve \in Nat, ReservedCost \in Nat
  PROVE  LSpec => LFinal
<1>1. ASSUME LTypeOK, LSafe, LNext PROVE \A k \in Node : LOneWay(k)
  <2> USE <1>1 DEF LTypeOK, LSafe, LOneWay
  <2>1. ASSUME NEW n \in Node, NEW c \in 1..Budget[n], LCharge(n, c)
        PROVE  \A k \in Node : LOneWay(k)
    <3>1. n \notin retired
      BY <2>1 DEF LCharge
    <3>2. QED
      BY <2>1, <3>1 DEF LCharge, Book
  <2>2. ASSUME NEW n \in Node, LChargeReserved(n) PROVE \A k \in Node : LOneWay(k)
    BY <2>2 DEF LChargeReserved, Book
  <2>3. ASSUME NEW n \in Node, LRelease(n) \/ LDiscard(n) \/ LRetire(n)
        PROVE  \A k \in Node : LOneWay(k)
    BY <2>3 DEF LRelease, LDiscard, LRetire
  <2>4. CASE LRerun
    BY <2>4 DEF LRerun
  <2>5. QED
    BY <1>1, <2>1, <2>2, <2>3, <2>4 DEF LNext
<1>2. LTypeOK /\ LSafe /\ [LNext]_lvars => [\A n \in Node : LOneWay(n)]_lvars
  BY <1>1
<1>3. QED
  BY <1>2, LedgerKeeps, PTL DEF LSpec, LFinal
=============================================================================
