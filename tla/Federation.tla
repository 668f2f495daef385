----------------------------- MODULE Federation -----------------------------
(***************************************************************************)
(* A federated run: the server's rounds (federated/server.py), the node    *)
(* registry (registry.py), the clients (client.py) and each client's       *)
(* privacy ledger and budget guard (privacy/accountant_store.py,           *)
(* budget_guard.py).                                                       *)
(*                                                                         *)
(* The server asks one client at a time and waits.  A client object lives  *)
(* for one call; what stays is its ledger, a file, and the registry, a     *)
(* database.  A release is charged to the ledger before it leaves the      *)
(* client, each step of DP-SGD on its own, and the run can be killed in    *)
(* between.  It may be run again under the same run id.                    *)
(*                                                                         *)
(* Renyi privacy losses add up and epsilon grows with their sum, so a      *)
(* history of releases is abstracted to a number: its loss in units of one *)
(* step of DP-SGD; a target epsilon is the largest such number allowed.    *)
(* Model weights and data are left out.                                    *)
(***************************************************************************)
EXTENDS Naturals, Sequences, FiniteSets

CONSTANTS
  Node,           \* the training nodes
  NoNode,
  Rounds,         \* ServerConfig.rounds
  MinFit,         \* ServerConfig.min_fit_clients
  DegradeAfter,   \* NodeRegistry.degrade_after
  MaxSteps,       \* a fit asks for 1..MaxSteps steps (local_epoch_choices)
  H1c,            \* ServerConfig.h1c
  StatsCost,      \* loss of the normalisation histograms
  ThresholdCost,  \* loss of the H1c score histogram
  Budget,         \* what a node's target epsilon allows
  MaxRuns         \* bound on runs under one run id

\* The histogram is reserved in every guard of a run with H1c.
Reserve == IF H1c THEN ThresholdCost ELSE 0

\* client_budget.prepare refuses a target that the one-off releases exceed.
ASSUME FederationAssumption ==
  /\ NoNode \notin Node
  /\ IsFiniteSet(Node)
  /\ Rounds \in Nat \ {0}
  /\ MinFit \in Nat
  /\ DegradeAfter \in Nat \ {0}
  /\ MaxSteps \in Nat \ {0}
  /\ H1c \in BOOLEAN
  /\ StatsCost \in Nat \ {0} /\ ThresholdCost \in Nat \ {0}
  /\ Budget \in [Node -> Nat]
  /\ \A n \in Node : StatsCost + Reserve <= Budget[n]
  /\ MaxRuns \in Nat

VARIABLES
  spent,         \* loss of the history in each node's ledger file
  thresholds,    \* nodes that charged their H1c histogram in this run
  released,      \* loss of what has left each node
  status,        \* registry: status; "none": no row
  missedRounds,  \* registry: missed_rounds
  pc,            \* where the server is; "down": no process
  todo,          \* nodes still to be asked in this round
  asked,         \* the node that is working on a call
  left,          \* steps its fit still has to make
  pending,       \* loss charged in this call, of what has not left the node
  outcome,       \* this round's participants, missed and declined
  logs,          \* RoundLog of each finished round
  runs           \* runs started (bound)

releases == <<spent, thresholds>>
registry == <<status, missedRounds>>
call     == <<asked, left, pending>>
vars == <<releases, released, registry, pc, todo, call, outcome, logs, runs>>

NoOutcome == [participants |-> {}, missed |-> {}, declined |-> {}]
Outcome   == [participants : SUBSET Node, missed : SUBSET Node, declined : SUBSET Node]

TypeOK ==
  /\ spent \in [Node -> Nat]
  /\ thresholds \subseteq Node
  /\ released \in [Node -> Nat]
  /\ status \in [Node -> {"none", "active", "degraded", "exhausted"}]
  /\ missedRounds \in [Node -> Nat]
  /\ pc \in {"down", "hello", "round", "fit", "threshold", "done", "raised"}
  /\ todo \subseteq Node
  /\ asked \in Node \cup {NoNode}
  /\ left \in 0..MaxSteps
  /\ pending \in Nat
  /\ outcome \in Outcome
  /\ logs \in Seq([result : Outcome, aggregated : BOOLEAN])
  /\ Len(logs) <= Rounds
  /\ runs \in 0..MaxRuns

Init ==
  /\ spent = [n \in Node |-> 0] /\ thresholds = {}
  /\ released = [n \in Node |-> 0]
  /\ status = [n \in Node |-> "none"] /\ missedRounds = [n \in Node |-> 0]
  /\ pc = "down" /\ todo = {}
  /\ asked = NoNode /\ left = 0 /\ pending = 0
  /\ outcome = NoOutcome /\ logs = <<>>
  /\ runs = 0

-----------------------------------------------------------------------------
(* budget_guard.py and accountant_store.py *)

\* Mutation: the guard looks at the history without the release.
AffordableBefore(n, cost, reserved) == spent[n] + reserved <= Budget[n]

\* Mutation: the guard forgets what is reserved.
AffordableUnreserved(n, cost, reserved) == spent[n] + cost <= Budget[n]

\* BudgetGuard.check
Affordable(n, cost, reserved) == spent[n] + cost + reserved <= Budget[n]

\* AccountantStore.record
Charge(n, cost) ==
  /\ spent' = [spent EXCEPT ![n] = @ + cost]
  /\ pending' = pending + cost

-----------------------------------------------------------------------------
(* registry.py *)

Succeeded(n) ==
  /\ status' = [status EXCEPT ![n] = IF @ = "exhausted" THEN @ ELSE "active"]
  /\ missedRounds' = [missedRounds EXCEPT ![n] = IF status[n] = "exhausted" THEN @ ELSE 0]

\* Mutation: one miss too many.
MissedLate(n) ==
  /\ missedRounds' = [missedRounds EXCEPT ![n] = @ + 1]
  /\ status' = [status EXCEPT ![n] =
       IF @ = "active" /\ missedRounds[n] + 1 > DegradeAfter THEN "degraded" ELSE @]

Missed(n) ==
  /\ missedRounds' = [missedRounds EXCEPT ![n] = @ + 1]
  /\ status' = [status EXCEPT ![n] =
       IF @ = "active" /\ missedRounds[n] + 1 >= DegradeAfter THEN "degraded" ELSE @]

Exhausted(n) ==
  /\ status' = [status EXCEPT ![n] = "exhausted"]
  /\ UNCHANGED missedRounds

-----------------------------------------------------------------------------
(* The call a client works on *)

NoCall == asked' = NoNode /\ left' = 0 /\ pending' = 0

\* The reply leaves the client, and with it all that was charged for it.
Reply ==
  /\ released' = [released EXCEPT ![asked] = @ + pending]
  /\ NoCall

\* The node has been dealt with in this round.
Log(field, n) ==
  /\ outcome' = [outcome EXCEPT ![field] = @ \cup {n}]
  /\ todo' = todo \ {n}
  /\ pc' = "round"

-----------------------------------------------------------------------------
(* Server.run: registration and round 0 *)

\* A registered node keeps its row (INSERT OR IGNORE).
StartRun ==
  /\ pc \in {"down", "done", "raised"}
  /\ runs < MaxRuns
  /\ runs' = runs + 1
  /\ status' = [n \in Node |-> IF status[n] = "none" THEN "active" ELSE status[n]]
  /\ pc' = "hello"
  /\ todo' = Node
  /\ outcome' = NoOutcome
  /\ logs' = <<>> /\ thresholds' = {}
  /\ UNCHANGED <<spent, released, missedRounds, call>>

HelloSpend(n) ==
  /\ pc = "hello" /\ asked = NoNode
  /\ n \in todo
  /\ Affordable(n, StatsCost, Reserve)
  /\ Charge(n, StatsCost)
  /\ asked' = n
  /\ UNCHANGED <<thresholds, released, registry, pc, todo, left, outcome, logs, runs>>

\* BudgetExhausted is not handled by hello and ends the run.
HelloRefused(n) ==
  /\ pc = "hello" /\ asked = NoNode
  /\ n \in todo
  /\ ~Affordable(n, StatsCost, Reserve)
  /\ pc' = "raised"
  /\ todo' = {}
  /\ UNCHANGED <<releases, released, registry, call, outcome, logs, runs>>

HelloReply ==
  /\ pc = "hello" /\ asked # NoNode
  /\ Reply
  /\ todo' = todo \ {asked}
  /\ UNCHANGED <<releases, registry, pc, outcome, logs, runs>>

\* Too few clients for the normalisation round raises.
EndHello ==
  /\ pc = "hello" /\ todo = {}
  /\ IF Cardinality(Node) < MinFit THEN pc' = "raised" /\ UNCHANGED todo
                                   ELSE pc' = "round" /\ todo' = Node
  /\ UNCHANGED <<releases, released, registry, call, outcome, logs, runs>>

-----------------------------------------------------------------------------
(* Server.run: a round *)

\* Mutation: the round waits until an exhausted node can afford a step.
AwaitExhausted(n) ==
  /\ pc = "round"
  /\ n \in todo /\ status[n] = "exhausted"
  /\ Affordable(n, 1, Reserve)
  /\ todo' = todo \ {n}
  /\ UNCHANGED <<releases, released, registry, pc, call, outcome, logs, runs>>

SkipExhausted(n) ==
  /\ pc = "round"
  /\ n \in todo /\ status[n] = "exhausted"
  /\ todo' = todo \ {n}
  /\ UNCHANGED <<releases, released, registry, pc, call, outcome, logs, runs>>

\* An injected straggler.
DropOut(n) ==
  /\ pc = "round"
  /\ n \in todo /\ status[n] # "exhausted"
  /\ Missed(n)
  /\ Log("missed", n)
  /\ UNCHANGED <<releases, released, call, logs, runs>>

AskFit(n, steps) ==
  /\ pc = "round"
  /\ n \in todo /\ status[n] # "exhausted"
  /\ pc' = "fit"
  /\ asked' = n /\ left' = steps /\ pending' = 0
  /\ UNCHANGED <<releases, released, registry, todo, outcome, logs, runs>>

\* Mutation: one step too many.
FitStepBeyond ==
  /\ pc = "fit"
  /\ Affordable(asked, 1, Reserve)
  /\ Charge(asked, 1)
  /\ left' = left - 1
  /\ UNCHANGED <<thresholds, released, registry, pc, todo, asked, outcome, logs, runs>>

\* guard.spend before each step of fit_private.
FitStep ==
  /\ pc = "fit" /\ left > 0
  /\ Affordable(asked, 1, Reserve)
  /\ Charge(asked, 1)
  /\ left' = left - 1
  /\ UNCHANGED <<thresholds, released, registry, pc, todo, asked, outcome, logs, runs>>

\* The steps made so far are charged for and thrown away.
FitDecline ==
  /\ pc = "fit" /\ left > 0
  /\ ~Affordable(asked, 1, Reserve)
  /\ Exhausted(asked)
  /\ Log("declined", asked)
  /\ NoCall
  /\ UNCHANGED <<releases, released, logs, runs>>

\* Mutation: a late client is taken for an exhausted one.
FitReplyExhausting(late) ==
  /\ pc = "fit" /\ left = 0
  /\ Reply
  /\ IF late THEN Exhausted(asked) /\ Log("missed", asked)
             ELSE Succeeded(asked) /\ Log("participants", asked)
  /\ UNCHANGED <<releases, logs, runs>>

\* A reply slower than round_timeout_s is discarded; it has left the node.
FitReply(late) ==
  /\ pc = "fit" /\ left = 0
  /\ Reply
  /\ IF late THEN Missed(asked) /\ Log("missed", asked)
             ELSE Succeeded(asked) /\ Log("participants", asked)
  /\ UNCHANGED <<releases, logs, runs>>

RoundLog ==
  [result |-> outcome, aggregated |-> Cardinality(outcome.participants) >= MinFit]

\* Mutation: range(0, rounds + 1).
EndRoundLate ==
  /\ pc = "round" /\ todo = {}
  /\ IF Len(logs) < Rounds
       THEN pc' = "round" /\ todo' = Node /\ logs' = Append(logs, RoundLog)
       ELSE pc' = "threshold" /\ todo' = Node /\ logs' = logs
  /\ outcome' = NoOutcome
  /\ UNCHANGED <<releases, released, registry, call, runs>>

\* Aggregation, the log, and the next round: all rounds are run.
EndRound ==
  /\ pc = "round" /\ todo = {}
  /\ logs' = Append(logs, RoundLog)
  /\ outcome' = NoOutcome
  /\ IF Len(logs) + 1 < Rounds THEN pc' = "round" /\ todo' = Node
     ELSE IF H1c               THEN pc' = "threshold" /\ todo' = Node
                               ELSE pc' = "done" /\ UNCHANGED todo
  /\ UNCHANGED <<releases, released, registry, call, runs>>

-----------------------------------------------------------------------------
(* Server._h1c: release_reserved takes the histogram out of the reserve *)

AskThreshold(n) ==
  /\ pc = "threshold" /\ asked = NoNode
  /\ n \in todo
  /\ IF Affordable(n, ThresholdCost, 0)
       THEN /\ Charge(n, ThresholdCost)
            /\ thresholds' = thresholds \cup {n}
            /\ asked' = n
            /\ UNCHANGED todo
       ELSE /\ todo' = todo \ {n}   \* declined
            /\ UNCHANGED <<releases, pending, asked>>
  /\ UNCHANGED <<released, registry, pc, left, outcome, logs, runs>>

ThresholdReply ==
  /\ pc = "threshold" /\ asked # NoNode
  /\ Reply
  /\ todo' = todo \ {asked}
  /\ UNCHANGED <<releases, registry, pc, outcome, logs, runs>>

Finish ==
  /\ pc = "threshold" /\ todo = {}
  /\ pc' = "done"
  /\ UNCHANGED <<releases, released, registry, todo, call, outcome, logs, runs>>

-----------------------------------------------------------------------------
(* Failures *)

\* A call that is not answered, or answered with an error (a failed write of the
\* ledger, say), raises in the server.  Clients also evaluate after each round.
CallFails ==
  /\ \/ pc \in {"fit", "threshold"}
     \/ pc = "hello" /\ todo # {}
     \/ pc = "round" /\ todo = {}
  /\ pc' = "raised"
  /\ todo' = {}
  /\ NoCall
  /\ UNCHANGED <<releases, released, registry, outcome, logs, runs>>

Crash ==
  /\ pc \in {"hello", "round", "fit", "threshold"}
  /\ pc' = "down"
  /\ todo' = {}
  /\ outcome' = NoOutcome /\ logs' = <<>>
  /\ NoCall
  /\ UNCHANGED <<releases, released, registry, runs>>

-----------------------------------------------------------------------------
Progress ==
  \/ \E n \in Node : HelloSpend(n) \/ HelloRefused(n)
  \/ HelloReply \/ EndHello
  \/ \E n \in Node : SkipExhausted(n) \/ DropOut(n)
  \/ \E n \in Node, steps \in 1..MaxSteps : AskFit(n, steps)
  \/ FitStep \/ FitDecline
  \/ \E late \in BOOLEAN : FitReply(late)
  \/ EndRound
  \/ \E n \in Node : AskThreshold(n)
  \/ ThresholdReply \/ Finish

Next == StartRun \/ Progress \/ CallFails \/ Crash

Spec == Init /\ [][Next]_vars

\* Calls return and the server goes on; nobody has to start a run.
FairSpec == Spec /\ WF_vars(Progress)

-----------------------------------------------------------------------------
(* Properties *)

\* Whatever left a node is in its ledger, also what the server threw away or
\* never got, and no ledger exceeds its budget, over all runs and crashes
\* (budget_guard.py: "no release may take a client past its total epsilon").
BudgetKept ==
  \A n \in Node :
    /\ released[n] + (IF n = asked THEN pending ELSE 0) <= spent[n]
    /\ spent[n] <= Budget[n]

\* Training never eats what is reserved for the H1c histogram: in every run that
\* ends, also on a half-spent ledger, every node releases it, exhausted nodes too
\* (client_budget.py), so none declines.
H1cComplete ==
  (H1c /\ pc = "done") => thresholds = Node

\* A node is recorded as exhausted, and skipped for good, only when its ledger
\* really leaves no room for a step (registry.py: "not missing").
ExhaustedIsSpent ==
  \A n \in Node : status[n] = "exhausted" => spent[n] + 1 + Reserve > Budget[n]

\* The rounds n has missed in a row by the logs and the current round.
Trailing(l, n) == {i \in 1..Len(l) : \A j \in i..Len(l) : n \in l[j].result.missed}

MissedInARow(n) ==
  IF n \in outcome.missed THEN Cardinality(Trailing(logs, n)) + 1
  ELSE IF n \in outcome.participants THEN 0 ELSE Cardinality(Trailing(logs, n))

\* A node that is not exhausted is degraded if and only if it missed
\* DegradeAfter rounds or more in a row, and within a run the registry's count
\* is the one the logs show (registry.py, the module docstring).
RegistryTellsMisses ==
  \A n \in Node :
    status[n] # "exhausted" =>
      /\ status[n] = "degraded" <=> missedRounds[n] >= DegradeAfter
      /\ (runs = 1 /\ pc \in {"round", "fit", "threshold", "done"}) =>
           missedRounds[n] = MissedInARow(n)

\* A round counts no node twice, and a node is left out only when it is exhausted,
\* as is every node that declined.
Accounts(r) ==
  /\ r.participants \cap r.missed = {}
  /\ r.declined \cap (r.participants \cup r.missed) = {}
  /\ \A n \in r.declined : status[n] = "exhausted"

RoundsAccountForAll ==
  \A i \in 1..Len(logs) :
    /\ Accounts(logs[i].result)
    /\ \A n \in Node : status[n] # "exhausted" =>
         n \in logs[i].result.participants \cup logs[i].result.missed

\* The registry and the logs of the rounds agree, and the logs leave out nobody.
RegistryAndLogsAgree == RegistryTellsMisses /\ RoundsAccountForAll

\* In a first run, a node whose budget was calibrated for all rounds is never
\* refused a release, whatever steps the rounds draw: it is not exhausted, and
\* round 0 ends the run for nobody (client_budget.py; calibrate.py).
PlannedRunNeverDeclines ==
  \A n \in Node :
    (runs <= 1 /\ StatsCost + Rounds * MaxSteps + Reserve <= Budget[n]) =>
      status[n] # "exhausted"

\* A run that goes on ends, with any mixture of dropouts, late and declining
\* clients, even when nobody is left to train (server.py: "Every round runs").
EventuallyEnds == (pc = "hello") ~> (pc \in {"done", "raised", "down"})

-----------------------------------------------------------------------------
(* What documents claim and the code does not do *)

\* registry.py 3: a miss is "no reply, timeout or dropout"; without a reply the
\* pool raises out of the round and no miss is recorded.
NoReplyIsAMiss ==
  [][(pc = "fit" /\ pc' \notin {"fit", "down"}) =>
       asked \in outcome'.participants \cup outcome'.missed \cup outcome'.declined]_vars

-----------------------------------------------------------------------------
(* The federation implements Ledger. *)

L == INSTANCE Ledger WITH
       ReservedCost <- ThresholdCost,
       charged      <- spent,
       open         <- [n \in Node |-> IF n = asked THEN pending ELSE 0],
       retired      <- {n \in Node : status[n] = "exhausted"},
       given        <- thresholds

ImplementsLedger == L!LSpec
=============================================================================
