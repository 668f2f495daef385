------------------------------ MODULE Handling ------------------------------
(***************************************************************************)
(* What a site's consume loop promises for the alerts it drains, without   *)
(* leases, attempts, batches, windows or sessions in progress: an alert is *)
(* taken in hand, put into a session that ends, and only then let go.  An  *)
(* alert is in one session and not dropped, unless a run was cut short     *)
(* while the alert was in its hands; such an alert may be taken again and  *)
(* end up in another session, but none is acknowledged before a session    *)
(* with it has ended (mesh/runner.py, consume; bus/base.py, docstring).    *)
(* Pipeline.tla is the detailed specification that implements this one.    *)
(***************************************************************************)
CONSTANTS Alert

VARIABLES
  offered,   \* alerts published for the site
  inHand,    \* alerts a consume run has taken and not yet let go
  closed,    \* sessions that ended, as sets of alerts
  acked,     \* alerts acknowledged
  dead,      \* alerts the bus has given up
  cut        \* alerts that were in hand when a run was cut short

hvars == <<offered, inHand, closed, acked, dead, cut>>

Handled == UNION closed

HTypeOK ==
  /\ offered \subseteq Alert
  /\ inHand \subseteq offered
  /\ closed \subseteq SUBSET offered
  /\ acked \subseteq offered
  /\ dead \subseteq offered
  /\ cut \subseteq offered

HInit ==
  /\ offered = {} /\ inHand = {} /\ closed = {} /\ acked = {} /\ dead = {}
  /\ cut = {}

HOffer(m) ==
  /\ m \notin offered
  /\ offered' = offered \cup {m}
  /\ UNCHANGED <<inHand, closed, acked, dead, cut>>

\* The alerts of S are taken; those of G have been handed out too often.
HTake(S, G) ==
  /\ (S \cup G) \cap (acked \cup dead) = {}
  /\ S \cap inHand = {}
  /\ S \cap Handled \subseteq cut
  /\ G \subseteq Handled \cup inHand \cup cut
  /\ inHand' = inHand \cup S
  /\ dead' = dead \cup G
  /\ UNCHANGED <<offered, closed, acked, cut>>

\* A session on alerts in hand ends.
HClose(S) ==
  /\ S # {}
  /\ S \cap Handled \subseteq cut
  /\ closed' = closed \cup {S}
  /\ UNCHANGED <<offered, inHand, acked, dead, cut>>

\* A handled alert is let go, with or without success of its acknowledgement.
HLetGo(m) ==
  /\ m \in Handled
  /\ inHand' = inHand \ {m}
  /\ \/ m \notin dead /\ acked' = acked \cup {m}
     \/ UNCHANGED acked
  /\ UNCHANGED <<offered, closed, dead, cut>>

\* The run ends early; the session it works on may still have ended.
HCut ==
  /\ cut' = cut \cup inHand
  /\ inHand' = {}
  /\ \/ UNCHANGED closed
     \/ \E S \in SUBSET inHand : closed' = closed \cup {S}
  /\ UNCHANGED <<offered, acked, dead>>

HNext ==
  \/ \E m \in Alert : HOffer(m)
  \/ \E S, G \in SUBSET offered : HTake(S, G)
  \/ \E S \in SUBSET inHand : HClose(S)
  \/ \E m \in inHand : HLetGo(m)
  \/ HCut

HSpec == HInit /\ [][HNext]_hvars

-----------------------------------------------------------------------------
(* What follows from the promise alone *)

\* Nothing is acknowledged that no session handled; what is given up without
\* having been handled is still in hand, or was when a run was cut short; and
\* sessions share such alerts only.
HSafe ==
  /\ acked \subseteq Handled
  /\ acked \cap dead = {}
  /\ dead \subseteq Handled \cup inHand \cup cut
  /\ \A S, T \in closed : S # T => S \cap T \subseteq cut
=============================================================================
