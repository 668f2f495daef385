------------------------------- MODULE Ledger -------------------------------
(***************************************************************************)
(* What the privacy accounting of a federated run promises for each node,  *)
(* without rounds, calls, registry rows or runs: a loss is charged before  *)
(* what it pays for can leave the node, nothing is charged past the total  *)
(* or out of the reserve but the release it is kept for, what is thrown    *)
(* away stays charged, and a node is retired only when its ledger leaves   *)
(* no room for a step (privacy/budget_guard.py, privacy/accountant_store.py*)
(* and federated/client_budget.py, the module docstrings).                 *)
(* Federation.tla is the detailed specification that implements this one.  *)
(***************************************************************************)
EXTENDS Naturals

CONSTANTS
  Node,
  Budget,        \* what a node's target epsilon allows
  Reserve,       \* kept for the one release made at the end, or 0
  ReservedCost   \* loss of that release

VARIABLES
  charged,    \* loss in each node's ledger
  open,       \* of it, what has been charged for and has not left the node
  released,   \* loss of what has left each node
  retired,    \* nodes that are asked for training no more
  given       \* nodes that were charged for the reserved release in this run

lvars == <<charged, open, released, retired, given>>

LInit ==
  /\ charged  = [n \in Node |-> 0]
  /\ open     = [n \in Node |-> 0]
  /\ released = [n \in Node |-> 0]
  /\ retired  = {} /\ given = {}

Book(n, c) ==
  /\ charged' = [charged EXCEPT ![n] = @ + c]
  /\ open'    = [open EXCEPT ![n] = @ + c]
  /\ UNCHANGED <<released, retired>>

\* A loss that leaves the reserve alone.
LCharge(n, c) ==
  /\ charged[n] + c + Reserve <= Budget[n]
  /\ Book(n, c)
  /\ UNCHANGED given

\* The one release the reserve is kept for, once in a run.
LChargeReserved(n) ==
  /\ Reserve > 0 /\ n \notin given
  /\ charged[n] + ReservedCost <= Budget[n]
  /\ Book(n, ReservedCost)
  /\ given' = given \cup {n}

\* Another run under the same ledgers.
LRerun ==
  /\ given' = {}
  /\ UNCHANGED <<charged, open, released, retired>>

LRelease(n) ==
  /\ released' = [released EXCEPT ![n] = @ + open[n]]
  /\ open'     = [open EXCEPT ![n] = 0]
  /\ UNCHANGED <<charged, retired, given>>

\* What was charged for is thrown away, or lost with its process.
LDiscard(n) ==
  /\ open' = [open EXCEPT ![n] = 0]
  /\ UNCHANGED <<charged, released, retired, given>>

LRetire(n) ==
  /\ charged[n] + 1 + Reserve > Budget[n]
  /\ retired' = retired \cup {n}
  /\ open'    = [open EXCEPT ![n] = 0]
  /\ UNCHANGED <<charged, released, given>>

LNext ==
  \/ \E n \in Node :
       \/ \E c \in 1..Budget[n] : LCharge(n, c)
       \/ LChargeReserved(n) \/ LRelease(n) \/ LDiscard(n) \/ LRetire(n)
  \/ LRerun

LSpec == LInit /\ [][LNext]_lvars

-----------------------------------------------------------------------------
(* What follows from the promise alone *)

LTypeOK ==
  /\ charged  \in [Node -> Nat]
  /\ open     \in [Node -> Nat]
  /\ released \in [Node -> Nat]
  /\ retired \subseteq Node /\ given \subseteq Node

\* No more leaves a node than was charged, no more is charged than its total, and
\* a retired node has no room left for a step.
LSafe ==
  \A n \in Node :
    /\ released[n] + open[n] <= charged[n]
    /\ charged[n] <= Budget[n]
    /\ n \in retired => charged[n] + 1 + Reserve > Budget[n]

\* A charge is never taken back, only a charge lets anything out, and a retired
\* node is charged for nothing but the release its reserve is kept for.
LOneWay(n) ==
  /\ charged[n] <= charged'[n]
  /\ released[n] <= released'[n] /\ released'[n] <= released[n] + open[n]
  /\ n \in retired => n \in retired' /\ charged'[n] \in {charged[n], charged[n] + ReservedCost}

LFinal == [][\A n \in Node : LOneWay(n)]_lvars
=============================================================================
