-------------------------- MODULE FederationProofs --------------------------
(***************************************************************************)
(* Proofs about Federation.tla for every set of nodes, budgets, costs,     *)
(* numbers of rounds and steps, and any number of runs.                    *)
(*                                                                         *)
(* The inductive invariant has, beside the properties: what a call in      *)
(* progress looks like (Calls), what the guard keeps in reserve            *)
(* (ReserveKept, Histograms), how far ledgers can have grown at a point of *)
(* a first run (Growth, for the calibrated budget) and how a round's       *)
(* outcome covers the nodes already asked (Rounding, for the registry).    *)
(***************************************************************************)
EXTENDS Federation, FiniteSetTheorems, TLAPS

\* At most one call is in progress, and it is one the server waits for.
Calls ==
  /\ asked = NoNode => pending = 0 /\ left = 0
  /\ pc \notin {"hello", "fit", "threshold"} => asked = NoNode
  /\ pc = "fit" => asked \in todo /\ status[asked] # "exhausted"
  /\ asked # NoNode => asked \in todo
  /\ runs = 0 => pc = "down"

\* From round 0 on until a node charges its histogram, there is room for it.
ReserveKept ==
  /\ pc = "hello" =>
       \A n \in Node : n \notin todo \/ n = asked => spent[n] + Reserve <= Budget[n]
  /\ pc \in {"round", "fit"} => \A n \in Node : spent[n] + Reserve <= Budget[n]
  /\ pc = "threshold" =>
       H1c /\ \A n \in todo : n # asked => spent[n] + Reserve <= Budget[n]

\* Every node that was asked for its histogram has charged it.
Histograms ==
  pc = "threshold" => /\ Node \ todo \subseteq thresholds
                      /\ asked # NoNode => asked \in thresholds

\* What a first run can have charged so far.
Growth ==
  /\ runs = 0 => \A n \in Node : spent[n] = 0 /\ status[n] = "none"
  /\ (runs = 1 /\ pc = "hello") =>
       \A n \in Node : /\ spent[n] <= StatsCost
                       /\ n \in todo /\ n # asked => spent[n] = 0
                       /\ status[n] = "active"
  /\ (runs = 1 /\ pc \in {"round", "fit"}) =>
       \A n \in Node :
         spent[n] <= StatsCost + Len(logs) * MaxSteps
                     + (IF n \notin todo THEN MaxSteps
                        ELSE IF n = asked THEN MaxSteps - left ELSE 0)

\* A round's outcome covers the nodes that were asked in it, and no others.
Rounding ==
  /\ pc \in {"round", "fit"} =>
       /\ Len(logs) < Rounds
       /\ \A n \in todo : n \notin outcome.missed /\ n \notin outcome.participants
       /\ \A n \in Node \ todo :
            status[n] = "exhausted" \/ n \in outcome.missed \/ n \in outcome.participants
  /\ pc \in {"hello", "threshold", "done"} => outcome = NoOutcome
  /\ pc = "hello" => logs = <<>>
  /\ runs = 0 => \A n \in Node : missedRounds[n] = 0 /\ status[n] = "none"
  /\ (runs = 1 /\ pc = "hello") => \A n \in Node : missedRounds[n] = 0
  /\ runs > 0 => \A n \in Node : status[n] # "none"

IInv ==
  /\ TypeOK /\ Calls /\ ReserveKept /\ Histograms /\ Growth /\ Rounding
  /\ BudgetKept /\ H1cComplete /\ ExhaustedIsSpent /\ RegistryTellsMisses
  /\ PlannedRunNeverDeclines
-----------------------------------------------------------------------------
(* Arithmetic, and the count of misses in a row *)

\* Products of natural numbers are monotone, and one round more is MaxSteps more.
LEMMA Products ==
  ASSUME NEW k \in Nat, NEW m \in Nat, NEW c \in Nat, k < m
  PROVE  /\ k * c \in Nat /\ m * c \in Nat
         /\ (k + 1) * c = k * c + c
         /\ k * c + c <= m * c
<1>1. k * c \in Nat /\ m * c \in Nat /\ (k + 1) * c = k * c + c
  BY SMT
<1>2. PICK d \in Nat : m = (k + 1) + d
  <2>1. m - (k + 1) \in Nat /\ m = (k + 1) + (m - (k + 1))
    BY SMT
  <2>2. QED
    BY <2>1
<1>3. m * c = (k + 1) * c + d * c /\ d * c \in Nat
  BY <1>2, SMT
<1>4. QED
  BY <1>1, <1>3, SMT

\* One round more adds one to the misses in a row, or ends them.
LEMMA TrailingAppend ==
  ASSUME NEW l, NEW r, NEW S, l \in Seq(S), r \in S, NEW n
  PROVE  Cardinality(Trailing(Append(l, r), n)) =
           IF n \in r.result.missed THEN Cardinality(Trailing(l, n)) + 1 ELSE 0
<1> DEFINE k == Len(l) + 1
           a == Append(l, r)
<1>1. /\ Len(l) \in Nat /\ Len(a) = k /\ a[k] = r
      /\ \A i \in 1..Len(l) : a[i] = l[i]
  OBVIOUS
<1>2. CASE n \in r.result.missed
  <2>1. Trailing(a, n) = Trailing(l, n) \cup {k}
    BY <1>1, <1>2 DEF Trailing
  <2>2. k \notin Trailing(l, n)
    BY <1>1 DEF Trailing
  <2>3. IsFiniteSet(Trailing(l, n))
    <3>1. IsFiniteSet(1..Len(l))
      BY <1>1, FS_Interval
    <3>2. Trailing(l, n) \subseteq 1..Len(l)
      BY DEF Trailing
    <3>3. QED
      BY <3>1, <3>2, FS_Subset
  <2>4. QED
    BY <1>2, <2>1, <2>2, <2>3, FS_AddElement
<1>3. CASE n \notin r.result.missed
  <2>1. Trailing(a, n) = {}
    BY <1>1, <1>3 DEF Trailing
  <2>2. QED
    BY <1>3, <2>1, FS_EmptySet
<1>4. QED
  BY <1>2, <1>3

\* What recording a node in the outcome of a round does.
LEMMA OutcomeChange ==
  ASSUME IInv, NEW n \in Node, NEW field \in {"participants", "missed", "declined"}, Log(field, n)
  PROVE  /\ outcome' \in Outcome
         /\ outcome'.missed = IF field = "missed" THEN outcome.missed \cup {n} ELSE outcome.missed
         /\ outcome'.participants =
              IF field = "participants" THEN outcome.participants \cup {n} ELSE outcome.participants
         /\ todo' = todo \ {n} /\ pc' = "round"
<1>1. outcome \in Outcome
  BY DEF IInv, TypeOK
<1>2. QED
  BY <1>1 DEF Log, Outcome

\* A node leaves the round, at the end of its fit or without one: what it charged
\* meanwhile is within its MaxSteps.
LEMMA LeavingRound ==
  ASSUME IInv, NEW n \in Node, pc \in {"round", "fit"}, n \in todo, asked \in {n, NoNode},
         pc' = "round", todo' = todo \ {n}, asked' = NoNode, UNCHANGED <<runs, spent, logs>>
  PROVE  Growth'
<1> DEFINE p == Len(logs) * MaxSteps
<1>1. /\ runs # 0 /\ runs' = runs /\ NoNode \notin Node /\ left \in Nat
      /\ MaxSteps \in Nat /\ StatsCost \in Nat /\ p \in Int /\ spent \in [Node -> Nat]
  BY FederationAssumption DEF IInv, TypeOK, Calls
<1>2. ASSUME runs = 1
      PROVE  \A m \in Node :
               spent[m] <= StatsCost + p + (IF m \notin todo THEN MaxSteps
                                            ELSE IF m = asked THEN MaxSteps - left ELSE 0)
  BY <1>2 DEF IInv, Growth
<1>3. Len(logs') * MaxSteps = p /\ spent' = spent
  OBVIOUS
<1> HIDE DEF p
<1>4. ASSUME runs = 1, NEW m \in Node
      PROVE  spent[m] <= StatsCost + p + (IF m \in todo /\ m # n THEN 0 ELSE MaxSteps)
  <2>1. spent[m] \in Nat /\ (m = asked => m = n)
    BY <1>1, <1>4
  <2>2. QED
    BY <1>1, <1>2, <1>4, <2>1
<1>5. ASSUME runs' = 1, NEW m \in Node
      PROVE  spent'[m] <= StatsCost + Len(logs') * MaxSteps
                          + (IF m \notin todo' THEN MaxSteps
                             ELSE IF m = asked' THEN MaxSteps - left' ELSE 0)
  BY <1>1, <1>3, <1>4, <1>5
<1>6. QED
  BY <1>1, <1>5 DEF Growth

LEMMA ReserveType == Reserve \in Nat
BY FederationAssumption DEF Reserve
-----------------------------------------------------------------------------
(* Each action preserves the invariant. *)

\* Parts about variables an action leaves alone.
LEMMA Frame ==
  ASSUME IInv
  PROVE  /\ UNCHANGED <<pc, todo, asked, spent>> => ReserveKept'
         /\ UNCHANGED <<pc, thresholds, todo, asked>> => Histograms'
         /\ UNCHANGED <<runs, spent, status, pc, todo, asked, left, logs>> => Growth'
         /\ UNCHANGED <<pc, logs, todo, outcome, status, runs, missedRounds>> => Rounding'
         /\ UNCHANGED <<released, asked, pending, spent>> => BudgetKept'
         /\ UNCHANGED <<pc, thresholds>> => H1cComplete'
         /\ UNCHANGED <<status, spent>> => ExhaustedIsSpent'
         /\ UNCHANGED <<status, missedRounds, runs, pc, logs, outcome>> => RegistryTellsMisses'
         /\ UNCHANGED <<runs, status>> => PlannedRunNeverDeclines'
<1>1. UNCHANGED <<pc, todo, asked, spent>> => ReserveKept'
  BY DEF IInv, ReserveKept
<1>2. UNCHANGED <<pc, thresholds, todo, asked>> => Histograms'
  BY DEF IInv, Histograms
<1>3. UNCHANGED <<runs, spent, status, pc, todo, asked, left, logs>> => Growth'
  BY DEF IInv, Growth
<1>4. UNCHANGED <<pc, logs, todo, outcome, status, runs, missedRounds>> => Rounding'
  BY DEF IInv, Rounding
<1>5. UNCHANGED <<released, asked, pending, spent>> => BudgetKept'
  BY DEF IInv, BudgetKept
<1>6. UNCHANGED <<pc, thresholds>> => H1cComplete'
  BY DEF IInv, H1cComplete
<1>7. UNCHANGED <<status, spent>> => ExhaustedIsSpent'
  BY DEF IInv, ExhaustedIsSpent
<1>8. UNCHANGED <<status, missedRounds, runs, pc, logs, outcome>> => RegistryTellsMisses'
  BY DEF IInv, RegistryTellsMisses, MissedInARow, Trailing
<1>9. UNCHANGED <<runs, status>> => PlannedRunNeverDeclines'
  BY DEF IInv, PlannedRunNeverDeclines
<1>10. QED
  BY <1>1, <1>2, <1>3, <1>4, <1>5, <1>6, <1>7, <1>8, <1>9

LEMMA StartRunInv ==
  ASSUME IInv, StartRun
  PROVE  IInv'
<1> USE DEF StartRun, NoOutcome, releases, registry, call
<1>1. TypeOK'
  BY FederationAssumption DEF IInv, TypeOK, Calls, Outcome, NoOutcome
<1>2. Calls'
  BY FederationAssumption DEF IInv, Calls, TypeOK
<1>3. ReserveKept'
  BY FederationAssumption, ReserveType DEF IInv, ReserveKept, TypeOK, Calls, Reserve
<1>4. Histograms'
  BY FederationAssumption DEF IInv, Histograms, Calls, TypeOK, ReserveKept, Reserve
<1>5. Growth'
  BY FederationAssumption DEF IInv, Growth, Calls, Rounding, TypeOK
<1>6. Rounding'
  BY FederationAssumption DEF IInv, Rounding, Calls, Growth, TypeOK, NoOutcome, Outcome
<1>7. H1cComplete'
  BY FederationAssumption DEF IInv, H1cComplete, Histograms, ReserveKept, Calls, TypeOK
<1>8. ExhaustedIsSpent'
  BY FederationAssumption, ReserveType DEF IInv, ExhaustedIsSpent, Calls, TypeOK
<1>9. RegistryTellsMisses'
  BY FederationAssumption DEF IInv, RegistryTellsMisses, MissedInARow, Calls, Rounding, TypeOK, Outcome, NoOutcome
<1>10. PlannedRunNeverDeclines'
  BY FederationAssumption, ReserveType DEF IInv, PlannedRunNeverDeclines, Growth, Calls, TypeOK
<1>11. QED
  BY <1>1, <1>2, <1>3, <1>4, <1>5, <1>6, <1>7, <1>8, <1>9, <1>10, Frame DEF IInv

LEMMA HelloSpendInv ==
  ASSUME IInv, NEW n \in Node, HelloSpend(n)
  PROVE  IInv'
<1> USE DEF HelloSpend, Charge, Affordable, releases, registry, call
<1>1. TypeOK'
  BY FederationAssumption DEF IInv, TypeOK, Calls, Outcome, NoOutcome
<1>2. Calls'
  BY FederationAssumption DEF IInv, Calls, TypeOK
<1>3. ReserveKept'
  BY FederationAssumption, ReserveType DEF IInv, ReserveKept, TypeOK, Calls, Reserve
<1>4. Histograms'
  BY FederationAssumption DEF IInv, Histograms, Calls, TypeOK, ReserveKept, Reserve
<1>5. Growth'
  BY FederationAssumption DEF IInv, Growth, Calls, Rounding, TypeOK
<1>6. BudgetKept'
  <2>1. spent \in [Node -> Nat] /\ StatsCost \in Nat /\ Reserve \in Nat /\ Budget \in [Node -> Nat]
    BY FederationAssumption, ReserveType DEF IInv, TypeOK
  <2>2. pending = 0 /\ asked \notin Node
    BY FederationAssumption DEF IInv, Calls
  <2>3. \A m \in Node : released[m] + 0 <= spent[m] /\ spent[m] <= Budget[m]
    BY <2>2 DEF IInv, BudgetKept
  <2>4. released \in [Node -> Nat]
    BY DEF IInv, TypeOK
  <2>5. QED
    BY <2>1, <2>2, <2>3, <2>4 DEF BudgetKept
<1>7. ExhaustedIsSpent'
  <2>1. spent \in [Node -> Nat] /\ StatsCost \in Nat /\ Reserve \in Nat /\ Budget \in [Node -> Nat]
    BY FederationAssumption, ReserveType DEF IInv, TypeOK
  <2>2. \A m \in Node : spent'[m] \in Nat /\ spent'[m] >= spent[m]
    BY <2>1
  <2>3. QED
    BY <2>1, <2>2 DEF IInv, ExhaustedIsSpent
<1>8. QED
  BY <1>1, <1>2, <1>3, <1>4, <1>5, <1>6, <1>7, Frame DEF IInv

LEMMA HelloRefusedInv ==
  ASSUME IInv, NEW n \in Node, HelloRefused(n)
  PROVE  IInv'
<1> USE DEF HelloRefused, releases, registry, call
<1>1. TypeOK'
  BY FederationAssumption DEF IInv, TypeOK, Calls, Outcome, NoOutcome
<1>2. Calls'
  BY FederationAssumption DEF IInv, Calls, TypeOK
<1>3. ReserveKept'
  BY FederationAssumption, ReserveType DEF IInv, ReserveKept, TypeOK, Calls, Reserve
<1>4. Histograms'
  BY FederationAssumption DEF IInv, Histograms, Calls, TypeOK, ReserveKept, Reserve
<1>5. Growth'
  BY FederationAssumption DEF IInv, Growth, Calls, Rounding, TypeOK
<1>6. Rounding'
  BY FederationAssumption DEF IInv, Rounding, Calls, Growth, TypeOK, NoOutcome, Outcome
<1>7. H1cComplete'
  BY FederationAssumption DEF IInv, H1cComplete, Histograms, ReserveKept, Calls, TypeOK
<1>8. RegistryTellsMisses'
  BY FederationAssumption DEF IInv, RegistryTellsMisses, MissedInARow, Calls, Rounding, TypeOK, Outcome, NoOutcome
<1>9. QED
  BY <1>1, <1>2, <1>3, <1>4, <1>5, <1>6, <1>7, <1>8, Frame DEF IInv

LEMMA HelloReplyInv ==
  ASSUME IInv, HelloReply
  PROVE  IInv'
<1> USE DEF HelloReply, Reply, NoCall, releases, registry, call
<1>1. TypeOK'
  BY FederationAssumption DEF IInv, TypeOK, Calls, Outcome, NoOutcome
<1>2. Calls'
  BY FederationAssumption DEF IInv, Calls, TypeOK
<1>3. ReserveKept'
  BY FederationAssumption, ReserveType DEF IInv, ReserveKept, TypeOK, Calls, Reserve
<1>4. Histograms'
  BY FederationAssumption DEF IInv, Histograms, Calls, TypeOK, ReserveKept, Reserve
<1>5. Growth'
  BY FederationAssumption DEF IInv, Growth, Calls, Rounding, TypeOK
<1>6. Rounding'
  BY FederationAssumption DEF IInv, Rounding, Calls, Growth, TypeOK, NoOutcome, Outcome
<1>7. BudgetKept'
  BY FederationAssumption, ReserveType DEF IInv, BudgetKept, Calls, TypeOK
<1>8. QED
  BY <1>1, <1>2, <1>3, <1>4, <1>5, <1>6, <1>7, Frame DEF IInv

LEMMA EndHelloInv ==
  ASSUME IInv, EndHello
  PROVE  IInv'
<1> USE DEF EndHello, releases, registry, call
<1>1. TypeOK'
  BY FederationAssumption DEF IInv, TypeOK, Calls, Outcome, NoOutcome
<1>2. Calls'
  BY FederationAssumption DEF IInv, Calls, TypeOK
<1>3. ReserveKept'
  BY FederationAssumption, ReserveType DEF IInv, ReserveKept, TypeOK, Calls, Reserve
<1>4. Histograms'
  BY FederationAssumption DEF IInv, Histograms, Calls, TypeOK, ReserveKept, Reserve
<1>5. Growth'
  BY FederationAssumption DEF IInv, Growth, Calls, Rounding, TypeOK
<1>6. Rounding'
  BY FederationAssumption DEF IInv, Rounding, Calls, Growth, TypeOK, NoOutcome, Outcome
<1>7. H1cComplete'
  BY FederationAssumption DEF IInv, H1cComplete, Histograms, ReserveKept, Calls, TypeOK
<1>8. RegistryTellsMisses'
  <2>1. outcome = NoOutcome /\ logs = <<>>
    BY DEF IInv, Rounding
  <2>2. \A n \in Node : MissedInARow(n)' = 0
    <3>1. \A n \in Node : Trailing(logs, n) = {}
      BY <2>1 DEF Trailing
    <3>2. QED
      BY <2>1, <3>1, FS_EmptySet DEF MissedInARow, NoOutcome
  <2>3. QED
    BY <2>2 DEF IInv, RegistryTellsMisses, Rounding
<1>9. QED
  BY <1>1, <1>2, <1>3, <1>4, <1>5, <1>6, <1>7, <1>8, Frame DEF IInv

LEMMA SkipExhaustedInv ==
  ASSUME IInv, NEW n \in Node, SkipExhausted(n)
  PROVE  IInv'
<1> USE DEF SkipExhausted, releases, registry, call
<1>1. TypeOK'
  BY FederationAssumption DEF IInv, TypeOK, Calls, Outcome, NoOutcome
<1>2. Calls'
  BY FederationAssumption DEF IInv, Calls, TypeOK
<1>3. ReserveKept'
  BY FederationAssumption, ReserveType DEF IInv, ReserveKept, TypeOK, Calls, Reserve
<1>4. Histograms'
  BY FederationAssumption DEF IInv, Histograms, Calls, TypeOK, ReserveKept, Reserve
<1>5. Growth'
  BY FederationAssumption DEF IInv, Growth, Calls, Rounding, TypeOK
<1>6. Rounding'
  BY FederationAssumption DEF IInv, Rounding, Calls, Growth, TypeOK, NoOutcome, Outcome
<1>7. QED
  BY <1>1, <1>2, <1>3, <1>4, <1>5, <1>6, Frame DEF IInv

LEMMA DropOutInv ==
  ASSUME IInv, NEW n \in Node, DropOut(n)
  PROVE  IInv'
<1> USE DEF DropOut, Missed, Log, releases, registry, call
<1>1. TypeOK'
  <2>1. outcome' \in Outcome
    BY OutcomeChange
  <2>2. QED
    BY <2>1 DEF IInv, TypeOK
<1>2. Calls'
  BY FederationAssumption DEF IInv, Calls, TypeOK
<1>3. ReserveKept'
  BY FederationAssumption, ReserveType DEF IInv, ReserveKept, TypeOK, Calls, Reserve
<1>4. Histograms'
  BY FederationAssumption DEF IInv, Histograms, Calls, TypeOK, ReserveKept, Reserve
<1>5. Growth'
  <2>1. /\ n \in todo /\ pc = "round" /\ asked = NoNode
        /\ pc' = "round" /\ todo' = todo \ {n} /\ asked' = NoNode
        /\ UNCHANGED <<runs, spent, logs>>
    BY OutcomeChange DEF IInv, Calls
  <2>2. QED
    BY <2>1, LeavingRound
<1>6. Rounding'
  BY FederationAssumption DEF IInv, Rounding, Calls, Growth, TypeOK, NoOutcome, Outcome
<1>7. H1cComplete'
  BY FederationAssumption DEF IInv, H1cComplete, Histograms, ReserveKept, Calls, TypeOK
<1>8. ExhaustedIsSpent'
  BY FederationAssumption, ReserveType DEF IInv, ExhaustedIsSpent, Calls, TypeOK
<1>9. RegistryTellsMisses'
  BY FederationAssumption DEF IInv, RegistryTellsMisses, MissedInARow, Calls, Rounding, TypeOK, Outcome, NoOutcome
<1>10. PlannedRunNeverDeclines'
  BY FederationAssumption, ReserveType DEF IInv, PlannedRunNeverDeclines, Growth, Calls, TypeOK
<1>11. QED
  BY <1>1, <1>2, <1>3, <1>4, <1>5, <1>6, <1>7, <1>8, <1>9, <1>10, Frame DEF IInv

LEMMA AskFitInv ==
  ASSUME IInv, NEW n \in Node, NEW steps \in 1..MaxSteps, AskFit(n, steps)
  PROVE  IInv'
<1> USE DEF AskFit, releases, registry, call
<1>1. TypeOK'
  BY FederationAssumption DEF IInv, TypeOK, Calls, Outcome, NoOutcome
<1>2. Calls'
  BY FederationAssumption DEF IInv, Calls, TypeOK
<1>3. ReserveKept'
  BY FederationAssumption, ReserveType DEF IInv, ReserveKept, TypeOK, Calls, Reserve
<1>4. Histograms'
  BY FederationAssumption DEF IInv, Histograms, Calls, TypeOK, ReserveKept, Reserve
<1>5. Growth'
  BY FederationAssumption DEF IInv, Growth, Calls, Rounding, TypeOK
<1>6. Rounding'
  BY FederationAssumption DEF IInv, Rounding, Calls, Growth, TypeOK, NoOutcome, Outcome
<1>7. BudgetKept'
  BY FederationAssumption, ReserveType DEF IInv, BudgetKept, Calls, TypeOK
<1>8. H1cComplete'
  BY FederationAssumption DEF IInv, H1cComplete, Histograms, ReserveKept, Calls, TypeOK
<1>9. RegistryTellsMisses'
  BY FederationAssumption DEF IInv, RegistryTellsMisses, MissedInARow, Calls, Rounding, TypeOK, Outcome, NoOutcome
<1>10. QED
  BY <1>1, <1>2, <1>3, <1>4, <1>5, <1>6, <1>7, <1>8, <1>9, Frame DEF IInv

LEMMA FitStepInv ==
  ASSUME IInv, FitStep
  PROVE  IInv'
<1> USE DEF FitStep, Charge, Affordable, releases, registry, call
<1>1. TypeOK'
  BY FederationAssumption DEF IInv, TypeOK, Calls, Outcome, NoOutcome
<1>2. Calls'
  BY FederationAssumption DEF IInv, Calls, TypeOK
<1>3. ReserveKept'
  BY FederationAssumption, ReserveType DEF IInv, ReserveKept, TypeOK, Calls, Reserve
<1>4. Growth'
  BY FederationAssumption DEF IInv, Growth, Calls, Rounding, TypeOK
<1>5. BudgetKept'
  <2>1. /\ spent \in [Node -> Nat] /\ Reserve \in Nat /\ Budget \in [Node -> Nat]
        /\ pending \in Nat /\ released \in [Node -> Nat]
    BY FederationAssumption, ReserveType DEF IInv, TypeOK
  <2>2. QED
    BY <2>1 DEF IInv, BudgetKept
<1>6. ExhaustedIsSpent'
  BY FederationAssumption, ReserveType DEF IInv, ExhaustedIsSpent, Calls, TypeOK
<1>7. QED
  BY <1>1, <1>2, <1>3, <1>4, <1>5, <1>6, Frame DEF IInv

LEMMA FitDeclineInv ==
  ASSUME IInv, FitDecline
  PROVE  IInv'
<1> USE DEF FitDecline, Exhausted, Log, NoCall, Affordable, releases, registry, call
<1>1. TypeOK'
  <2>1. asked \in Node
    BY DEF IInv, TypeOK, Calls
  <2>2. outcome' \in Outcome
    BY <2>1, OutcomeChange
  <2>3. QED
    BY <2>1, <2>2, FederationAssumption DEF IInv, TypeOK
<1>2. Calls'
  BY FederationAssumption DEF IInv, Calls, TypeOK
<1>3. ReserveKept'
  BY FederationAssumption, ReserveType DEF IInv, ReserveKept, TypeOK, Calls, Reserve
<1>4. Histograms'
  BY FederationAssumption DEF IInv, Histograms, Calls, TypeOK, ReserveKept, Reserve
<1>5. Growth'
  <2>1. asked \in Node /\ asked \in todo /\ pc = "fit"
    BY DEF IInv, TypeOK, Calls
  <2>2. /\ pc' = "round" /\ todo' = todo \ {asked} /\ asked' = NoNode
        /\ UNCHANGED <<runs, spent, logs>>
    BY <2>1, OutcomeChange
  <2>3. QED
    BY <2>1, <2>2, LeavingRound
<1>6. Rounding'
  BY FederationAssumption DEF IInv, Rounding, Calls, Growth, TypeOK, NoOutcome, Outcome
<1>7. BudgetKept'
  BY FederationAssumption, ReserveType DEF IInv, BudgetKept, Calls, TypeOK
<1>8. H1cComplete'
  BY FederationAssumption DEF IInv, H1cComplete, Histograms, ReserveKept, Calls, TypeOK
<1>9. ExhaustedIsSpent'
  <2>1. spent \in [Node -> Nat] /\ Reserve \in Nat /\ Budget \in [Node -> Nat] /\ asked \in Node
    BY FederationAssumption, ReserveType DEF IInv, TypeOK, Calls
  <2>2. status \in [Node -> {"none", "active", "degraded", "exhausted"}]
    BY DEF IInv, TypeOK
  <2>3. QED
    BY <2>1, <2>2 DEF IInv, ExhaustedIsSpent
<1>10. RegistryTellsMisses'
  BY FederationAssumption DEF IInv, RegistryTellsMisses, MissedInARow, Calls, Rounding, TypeOK, Outcome, NoOutcome
<1>11. PlannedRunNeverDeclines'
  <2>1. /\ asked \in todo /\ asked \in Node /\ spent[asked] \in Nat /\ left \in 1..MaxSteps
        /\ runs \in Nat /\ runs # 0 /\ Len(logs) \in Nat /\ Len(logs) < Rounds
    BY DEF IInv, Calls, TypeOK, Rounding
  <2>2. /\ Rounds \in Nat /\ MaxSteps \in Nat /\ StatsCost \in Nat /\ Reserve \in Nat
        /\ Budget[asked] \in Nat
    BY <2>1, FederationAssumption, ReserveType
  <2>3. /\ Len(logs) * MaxSteps \in Nat /\ Rounds * MaxSteps \in Nat
        /\ Len(logs) * MaxSteps + MaxSteps <= Rounds * MaxSteps
    BY <2>1, <2>2, Products
  <2>4. runs = 1 => spent[asked] <= StatsCost + Len(logs) * MaxSteps + (MaxSteps - left)
    BY <2>1 DEF IInv, Growth
  <2>5. runs = 1 => StatsCost + Rounds * MaxSteps + Reserve > Budget[asked]
    <3> HIDE DEF FitDecline
    <3>1. spent[asked] + 1 + Reserve > Budget[asked]
      BY <2>1, <2>2 DEF FitDecline
    <3>2. SUFFICES ASSUME runs = 1
                   PROVE  StatsCost + Rounds * MaxSteps + Reserve > Budget[asked]
      OBVIOUS
    <3> DEFINE p == Len(logs) * MaxSteps
               q == Rounds * MaxSteps
               s == spent[asked]
               b == Budget[asked]
    <3>3. /\ p \in Nat /\ q \in Nat /\ p + MaxSteps <= q /\ s <= StatsCost + p + (MaxSteps - left)
          /\ s + 1 + Reserve > b /\ s \in Nat /\ b \in Nat
      BY <2>1, <2>2, <2>3, <2>4, <3>1, <3>2
    <3> HIDE DEF p, q, s, b
    <3>4. StatsCost + q + Reserve > b
      BY <2>1, <2>2, <3>3
    <3>5. QED
      BY <3>4 DEF q, b
  <2>6. \A n \in Node : status'[n] = "exhausted" => status[n] = "exhausted" \/ n = asked
    BY DEF IInv, TypeOK
  <2>7. runs <= 1 => runs = 1
    BY <2>1
  <2>8. ASSUME NEW n \in Node, runs' <= 1, StatsCost + Rounds * MaxSteps + Reserve <= Budget[n],
               status'[n] = "exhausted"
        PROVE  FALSE
    <3>1. runs = 1 /\ status[n] # "exhausted"
      BY <2>7, <2>8 DEF IInv, PlannedRunNeverDeclines
    <3>2. n = asked
      BY <2>6, <2>8, <3>1
    <3> DEFINE q == Rounds * MaxSteps
    <3>3. q \in Nat /\ StatsCost + q + Reserve > Budget[asked] /\ StatsCost + q + Reserve <= Budget[asked]
      BY <2>3, <2>5, <2>8, <3>1, <3>2
    <3> HIDE DEF q
    <3>4. QED
      BY <2>2, <3>3
  <2>9. QED
    BY <2>8 DEF PlannedRunNeverDeclines
<1>12. QED
  BY <1>1, <1>2, <1>3, <1>4, <1>5, <1>6, <1>7, <1>8, <1>9, <1>10, <1>11, Frame DEF IInv

LEMMA LateReplyInv ==
  ASSUME IInv, FitReply(TRUE)
  PROVE  IInv'
<1> USE DEF FitReply, Missed, Log, Reply, NoCall, releases, registry, call
<1>1. TypeOK'
  <2>1. asked \in Node
    BY DEF IInv, TypeOK, Calls
  <2>2. outcome' \in Outcome
    BY <2>1, OutcomeChange
  <2>3. /\ released' \in [Node -> Nat] /\ missedRounds' \in [Node -> Nat] /\ todo' \subseteq Node
        /\ status' \in [Node -> {"none", "active", "degraded", "exhausted"}]
    <3>1. /\ released \in [Node -> Nat] /\ pending \in Nat /\ missedRounds \in [Node -> Nat]
          /\ status \in [Node -> {"none", "active", "degraded", "exhausted"}] /\ todo \subseteq Node
      BY DEF IInv, TypeOK
    <3>2. released' \in [Node -> Nat]
      BY <2>1, <3>1
    <3>3. missedRounds' \in [Node -> Nat]
      BY <2>1, <3>1
    <3>4. status' \in [Node -> {"none", "active", "degraded", "exhausted"}]
      BY <2>1, <3>1
    <3>5. QED
      BY <3>1, <3>2, <3>3, <3>4
  <2>4. QED
    BY <2>1, <2>2, <2>3, FederationAssumption DEF IInv, TypeOK
<1>2. Calls'
  BY FederationAssumption DEF IInv, Calls, TypeOK
<1>3. ReserveKept'
  BY FederationAssumption, ReserveType DEF IInv, ReserveKept, TypeOK, Calls, Reserve
<1>4. Histograms'
  BY FederationAssumption DEF IInv, Histograms, Calls, TypeOK, ReserveKept, Reserve
<1>5. Growth'
  <2>1. asked \in Node /\ asked \in todo /\ pc = "fit"
    BY DEF IInv, TypeOK, Calls
  <2>2. /\ pc' = "round" /\ todo' = todo \ {asked} /\ asked' = NoNode
        /\ UNCHANGED <<runs, spent, logs>>
    BY <2>1, OutcomeChange
  <2>3. QED
    BY <2>1, <2>2, LeavingRound
<1>6. Rounding'
  <2>1. asked \in Node /\ asked \in todo /\ status[asked] \notin {"exhausted", "none"}
    BY DEF IInv, TypeOK, Calls, Rounding
  <2>2. /\ todo' = todo \ {asked} /\ pc' = "round"
        /\ outcome'.missed = outcome.missed \cup {asked} /\ outcome'.participants = outcome.participants
    BY <2>1, OutcomeChange
  <2>3. /\ status \in [Node -> {"none", "active", "degraded", "exhausted"}]
        /\ missedRounds \in [Node -> Nat]
    BY DEF IInv, TypeOK
  <2>4. \A n \in Node : n # asked => status'[n] = status[n] /\ missedRounds'[n] = missedRounds[n]
    BY <2>3
  <2>5. status'[asked] # "none"
    BY <2>1, <2>3
  <2>6. \A n \in todo' : n \notin outcome'.missed /\ n \notin outcome'.participants
    BY <2>1, <2>2 DEF IInv, Rounding
  <2>7. \A n \in Node \ todo' :
          status'[n] = "exhausted" \/ n \in outcome'.missed \/ n \in outcome'.participants
    BY <2>1, <2>2, <2>4 DEF IInv, Rounding
  <2>8. runs # 0
    BY DEF IInv, Calls
  <2>9. QED
    BY <2>1, <2>2, <2>4, <2>5, <2>6, <2>7, <2>8 DEF IInv, Rounding
<1>7. BudgetKept'
  BY FederationAssumption, ReserveType DEF IInv, BudgetKept, Calls, TypeOK
<1>8. H1cComplete'
  BY FederationAssumption DEF IInv, H1cComplete, Histograms, ReserveKept, Calls, TypeOK
<1>9. ExhaustedIsSpent'
  BY FederationAssumption, ReserveType DEF IInv, ExhaustedIsSpent, Calls, TypeOK
<1>10. RegistryTellsMisses'
  <2>1. asked \in Node /\ asked \in todo /\ status[asked] \notin {"exhausted", "none"}
    BY DEF IInv, TypeOK, Calls, Rounding
  <2>2. /\ todo' = todo \ {asked} /\ pc' = "round"
        /\ outcome'.missed = outcome.missed \cup {asked} /\ outcome'.participants = outcome.participants
    BY <2>1, OutcomeChange
  <2>3. /\ status \in [Node -> {"none", "active", "degraded", "exhausted"}]
        /\ missedRounds \in [Node -> Nat]
    BY DEF IInv, TypeOK
  <2>4. \A n \in Node : n # asked => status'[n] = status[n] /\ missedRounds'[n] = missedRounds[n]
    BY <2>3
  <2>5. asked \notin outcome.missed /\ asked \notin outcome.participants
    BY <2>1 DEF IInv, Rounding
  <2>6. \A n \in Node : n # asked => MissedInARow(n)' = MissedInARow(n)
    BY <2>2 DEF MissedInARow
  <2>7. \A n \in Node : n = asked =>
          MissedInARow(n) = Cardinality(Trailing(logs, n)) /\ MissedInARow(n)' = MissedInARow(n) + 1
    BY <2>2, <2>5 DEF MissedInARow
  <2>8. /\ missedRounds'[asked] = missedRounds[asked] + 1
        /\ status'[asked] = IF status[asked] = "active" /\ missedRounds[asked] + 1 >= DegradeAfter
                              THEN "degraded" ELSE status[asked]
    BY <2>1, <2>3
  <2>9. QED
    BY <2>1, <2>2, <2>3, <2>4, <2>6, <2>7, <2>8, FederationAssumption DEF IInv, RegistryTellsMisses
<1>11. PlannedRunNeverDeclines'
  BY FederationAssumption, ReserveType DEF IInv, PlannedRunNeverDeclines, Growth, Calls, TypeOK
<1>12. QED
  BY <1>1, <1>2, <1>3, <1>4, <1>5, <1>6, <1>7, <1>8, <1>9, <1>10, <1>11, Frame DEF IInv

LEMMA TimelyReplyInv ==
  ASSUME IInv, FitReply(FALSE)
  PROVE  IInv'
<1> USE DEF FitReply, Succeeded, Log, Reply, NoCall, releases, registry, call
<1>1. TypeOK'
  <2>1. asked \in Node
    BY DEF IInv, TypeOK, Calls
  <2>2. outcome' \in Outcome
    BY <2>1, OutcomeChange
  <2>3. /\ released' \in [Node -> Nat] /\ missedRounds' \in [Node -> Nat] /\ todo' \subseteq Node
        /\ status' \in [Node -> {"none", "active", "degraded", "exhausted"}]
    <3>1. /\ released \in [Node -> Nat] /\ pending \in Nat /\ missedRounds \in [Node -> Nat]
          /\ status \in [Node -> {"none", "active", "degraded", "exhausted"}] /\ todo \subseteq Node
      BY DEF IInv, TypeOK
    <3>2. released' \in [Node -> Nat]
      BY <2>1, <3>1
    <3>3. missedRounds' \in [Node -> Nat]
      BY <2>1, <3>1
    <3>4. status' \in [Node -> {"none", "active", "degraded", "exhausted"}]
      BY <2>1, <3>1
    <3>5. QED
      BY <3>1, <3>2, <3>3, <3>4
  <2>4. QED
    BY <2>1, <2>2, <2>3, FederationAssumption DEF IInv, TypeOK
<1>2. Calls'
  BY FederationAssumption DEF IInv, Calls, TypeOK
<1>3. ReserveKept'
  BY FederationAssumption, ReserveType DEF IInv, ReserveKept, TypeOK, Calls, Reserve
<1>4. Histograms'
  BY FederationAssumption DEF IInv, Histograms, Calls, TypeOK, ReserveKept, Reserve
<1>5. Growth'
  <2>1. asked \in Node /\ asked \in todo /\ pc = "fit"
    BY DEF IInv, TypeOK, Calls
  <2>2. /\ pc' = "round" /\ todo' = todo \ {asked} /\ asked' = NoNode
        /\ UNCHANGED <<runs, spent, logs>>
    BY <2>1, OutcomeChange
  <2>3. QED
    BY <2>1, <2>2, LeavingRound
<1>6. Rounding'
  <2>1. asked \in Node /\ asked \in todo /\ status[asked] \notin {"exhausted", "none"}
    BY DEF IInv, TypeOK, Calls, Rounding
  <2>2. /\ todo' = todo \ {asked} /\ pc' = "round"
        /\ outcome'.participants = outcome.participants \cup {asked} /\ outcome'.missed = outcome.missed
    BY <2>1, OutcomeChange
  <2>3. /\ status \in [Node -> {"none", "active", "degraded", "exhausted"}]
        /\ missedRounds \in [Node -> Nat]
    BY DEF IInv, TypeOK
  <2>4. \A n \in Node : n # asked => status'[n] = status[n] /\ missedRounds'[n] = missedRounds[n]
    BY <2>3
  <2>5. status'[asked] # "none"
    BY <2>1, <2>3
  <2>6. \A n \in todo' : n \notin outcome'.missed /\ n \notin outcome'.participants
    BY <2>1, <2>2 DEF IInv, Rounding
  <2>7. \A n \in Node \ todo' :
          status'[n] = "exhausted" \/ n \in outcome'.missed \/ n \in outcome'.participants
    BY <2>1, <2>2, <2>4 DEF IInv, Rounding
  <2>8. runs # 0
    BY DEF IInv, Calls
  <2>9. QED
    BY <2>1, <2>2, <2>4, <2>5, <2>6, <2>7, <2>8 DEF IInv, Rounding
<1>7. BudgetKept'
  BY FederationAssumption, ReserveType DEF IInv, BudgetKept, Calls, TypeOK
<1>8. H1cComplete'
  BY FederationAssumption DEF IInv, H1cComplete, Histograms, ReserveKept, Calls, TypeOK
<1>9. ExhaustedIsSpent'
  BY FederationAssumption, ReserveType DEF IInv, ExhaustedIsSpent, Calls, TypeOK
<1>10. RegistryTellsMisses'
  <2>1. asked \in Node /\ asked \in todo /\ status[asked] \notin {"exhausted", "none"}
    BY DEF IInv, TypeOK, Calls, Rounding
  <2>2. /\ todo' = todo \ {asked} /\ pc' = "round"
        /\ outcome'.participants = outcome.participants \cup {asked} /\ outcome'.missed = outcome.missed
    BY <2>1, OutcomeChange
  <2>3. /\ status \in [Node -> {"none", "active", "degraded", "exhausted"}]
        /\ missedRounds \in [Node -> Nat]
    BY DEF IInv, TypeOK
  <2>4. \A n \in Node : n # asked => status'[n] = status[n] /\ missedRounds'[n] = missedRounds[n]
    BY <2>3
  <2>5. asked \notin outcome.missed /\ asked \notin outcome.participants
    BY <2>1 DEF IInv, Rounding
  <2>6. \A n \in Node : n # asked => MissedInARow(n)' = MissedInARow(n)
    BY <2>2 DEF MissedInARow
  <2>7. \A n \in Node : n = asked => MissedInARow(n)' = 0
    BY <2>2, <2>5 DEF MissedInARow
  <2>8. missedRounds'[asked] = 0 /\ status'[asked] = "active"
    BY <2>1, <2>3
  <2>9. QED
    BY <2>1, <2>2, <2>3, <2>4, <2>6, <2>7, <2>8, FederationAssumption DEF IInv, RegistryTellsMisses
<1>11. PlannedRunNeverDeclines'
  BY FederationAssumption, ReserveType DEF IInv, PlannedRunNeverDeclines, Growth, Calls, TypeOK
<1>12. QED
  BY <1>1, <1>2, <1>3, <1>4, <1>5, <1>6, <1>7, <1>8, <1>9, <1>10, <1>11, Frame DEF IInv

LEMMA EndRoundInv ==
  ASSUME IInv, EndRound
  PROVE  IInv'
<1> USE DEF EndRound, RoundLog, releases, registry, call
<1>1. TypeOK'
  <2>1. RoundLog \in [result : Outcome, aggregated : BOOLEAN]
    BY DEF IInv, TypeOK
  <2>2. /\ logs' \in Seq([result : Outcome, aggregated : BOOLEAN])
        /\ Len(logs') <= Rounds
    BY <2>1, FederationAssumption DEF IInv, TypeOK, Rounding
  <2>3. outcome' \in Outcome
    BY DEF NoOutcome, Outcome
  <2>4. QED
    BY <2>2, <2>3 DEF IInv, TypeOK
<1>2. Calls'
  BY FederationAssumption DEF IInv, Calls, TypeOK
<1>3. ReserveKept'
  BY FederationAssumption, ReserveType DEF IInv, ReserveKept, TypeOK, Calls, Reserve
<1>4. Histograms'
  BY FederationAssumption DEF IInv, Histograms, Calls, TypeOK, ReserveKept, Reserve
<1>5. Growth'
  BY FederationAssumption DEF IInv, Growth, Calls, Rounding, TypeOK
<1>6. Rounding'
  BY FederationAssumption DEF IInv, Rounding, Calls, Growth, TypeOK, NoOutcome, Outcome
<1>7. H1cComplete'
  BY FederationAssumption DEF IInv, H1cComplete, Histograms, ReserveKept, Calls, TypeOK
<1>8. RegistryTellsMisses'
  <2>1. /\ logs \in Seq([result : Outcome, aggregated : BOOLEAN])
        /\ RoundLog \in [result : Outcome, aggregated : BOOLEAN]
    BY DEF IInv, TypeOK
  <2>2. \A n \in Node : Cardinality(Trailing(logs', n)) =
                          IF n \in outcome.missed THEN Cardinality(Trailing(logs, n)) + 1 ELSE 0
    <3> DEFINE r == RoundLog
    <3>1. logs' = Append(logs, r) /\ r.result = outcome
      OBVIOUS
    <3>2. r \in [result : Outcome, aggregated : BOOLEAN]
      BY <2>1
    <3> HIDE DEF r
    <3>3. \A n \in Node : Cardinality(Trailing(Append(logs, r), n)) =
                            IF n \in r.result.missed THEN Cardinality(Trailing(logs, n)) + 1 ELSE 0
      BY <2>1, <3>2, TrailingAppend
    <3>4. QED
      BY <3>1, <3>3
  <2>3. \A n \in Node : MissedInARow(n)' = Cardinality(Trailing(logs', n))
    BY DEF MissedInARow, NoOutcome
  <2>4. \A n \in Node : status[n] = "exhausted" \/ n \in outcome.missed \/ n \in outcome.participants
    BY DEF IInv, Rounding
  <2>5. \A n \in Node : status[n] # "exhausted" => MissedInARow(n)' = MissedInARow(n)
    BY <2>2, <2>3, <2>4 DEF MissedInARow
  <2>6. QED
    BY <2>5 DEF IInv, RegistryTellsMisses
<1>9. QED
  BY <1>1, <1>2, <1>3, <1>4, <1>5, <1>6, <1>7, <1>8, Frame DEF IInv

LEMMA AskThresholdInv ==
  ASSUME IInv, NEW n \in Node, AskThreshold(n)
  PROVE  IInv'
<1> USE DEF AskThreshold, Charge, Affordable, releases, registry, call
<1>1. TypeOK'
  <2>1. CASE Affordable(n, ThresholdCost, 0)
    <3>1. spent' \in [Node -> Nat] /\ pending' \in Nat
      <4>1. spent \in [Node -> Nat] /\ pending \in Nat /\ ThresholdCost \in Nat
        BY FederationAssumption DEF IInv, TypeOK
      <4>2. pending' = pending + ThresholdCost
        BY <2>1
      <4>3. spent' = [spent EXCEPT ![n] = @ + ThresholdCost]
        BY <2>1
      <4>4. QED
        BY <4>1, <4>2, <4>3
    <3>2. /\ todo' = todo /\ asked' = n /\ thresholds' \subseteq Node
      BY <2>1 DEF IInv, TypeOK
    <3>3. QED
      BY <3>1, <3>2 DEF IInv, TypeOK
  <2>2. CASE ~Affordable(n, ThresholdCost, 0)
    BY <2>2 DEF IInv, TypeOK
  <2>3. QED
    BY <2>1, <2>2
<1>2. Calls'
  BY FederationAssumption DEF IInv, Calls, TypeOK
<1>3. ReserveKept'
  BY FederationAssumption, ReserveType DEF IInv, ReserveKept, TypeOK, Calls, Reserve
<1>4. Histograms'
  BY FederationAssumption DEF IInv, Histograms, Calls, TypeOK, ReserveKept, Reserve
<1>5. Growth'
  BY FederationAssumption DEF IInv, Growth, Calls, Rounding, TypeOK
<1>6. Rounding'
  BY FederationAssumption DEF IInv, Rounding, Calls, Growth, TypeOK, NoOutcome, Outcome
<1>7. BudgetKept'
  <2>1. /\ spent \in [Node -> Nat] /\ released \in [Node -> Nat] /\ Budget \in [Node -> Nat]
        /\ ThresholdCost \in Nat
    BY FederationAssumption DEF IInv, TypeOK
  <2>2. pending = 0 /\ asked \notin Node
    BY FederationAssumption DEF IInv, Calls
  <2>3. \A m \in Node : released[m] + 0 <= spent[m] /\ spent[m] <= Budget[m]
    BY <2>2 DEF IInv, BudgetKept
  <2>4. CASE Affordable(n, ThresholdCost, 0)
    BY <2>1, <2>2, <2>3, <2>4 DEF BudgetKept
  <2>5. CASE ~Affordable(n, ThresholdCost, 0)
    BY <2>1, <2>2, <2>3, <2>5 DEF BudgetKept
  <2>6. QED
    BY <2>4, <2>5
<1>8. H1cComplete'
  BY FederationAssumption DEF IInv, H1cComplete, Histograms, ReserveKept, Calls, TypeOK
<1>9. ExhaustedIsSpent'
  <2>1. spent \in [Node -> Nat] /\ ThresholdCost \in Nat /\ Reserve \in Nat /\ Budget \in [Node -> Nat]
    BY FederationAssumption, ReserveType DEF IInv, TypeOK
  <2>2. \A m \in Node : spent'[m] \in Nat /\ spent'[m] >= spent[m]
    BY <2>1
  <2>3. QED
    BY <2>1, <2>2 DEF IInv, ExhaustedIsSpent
<1>10. QED
  BY <1>1, <1>2, <1>3, <1>4, <1>5, <1>6, <1>7, <1>8, <1>9, Frame DEF IInv

LEMMA ThresholdReplyInv ==
  ASSUME IInv, ThresholdReply
  PROVE  IInv'
<1> USE DEF ThresholdReply, Reply, NoCall, releases, registry, call
<1>1. TypeOK'
  BY FederationAssumption DEF IInv, TypeOK, Calls, Outcome, NoOutcome
<1>2. Calls'
  BY FederationAssumption DEF IInv, Calls, TypeOK
<1>3. ReserveKept'
  BY FederationAssumption, ReserveType DEF IInv, ReserveKept, TypeOK, Calls, Reserve
<1>4. Histograms'
  BY FederationAssumption DEF IInv, Histograms, Calls, TypeOK, ReserveKept, Reserve
<1>5. Growth'
  BY FederationAssumption DEF IInv, Growth, Calls, Rounding, TypeOK
<1>6. Rounding'
  BY FederationAssumption DEF IInv, Rounding, Calls, Growth, TypeOK, NoOutcome, Outcome
<1>7. BudgetKept'
  BY FederationAssumption, ReserveType DEF IInv, BudgetKept, Calls, TypeOK
<1>8. QED
  BY <1>1, <1>2, <1>3, <1>4, <1>5, <1>6, <1>7, Frame DEF IInv

LEMMA FinishInv ==
  ASSUME IInv, Finish
  PROVE  IInv'
<1> USE DEF Finish, releases, registry, call
<1>1. TypeOK'
  BY FederationAssumption DEF IInv, TypeOK, Calls, Outcome, NoOutcome
<1>2. Calls'
  BY FederationAssumption DEF IInv, Calls, TypeOK
<1>3. ReserveKept'
  BY FederationAssumption, ReserveType DEF IInv, ReserveKept, TypeOK, Calls, Reserve
<1>4. Histograms'
  BY FederationAssumption DEF IInv, Histograms, Calls, TypeOK, ReserveKept, Reserve
<1>5. Growth'
  BY FederationAssumption DEF IInv, Growth, Calls, Rounding, TypeOK
<1>6. Rounding'
  BY FederationAssumption DEF IInv, Rounding, Calls, Growth, TypeOK, NoOutcome, Outcome
<1>7. H1cComplete'
  BY FederationAssumption DEF IInv, H1cComplete, Histograms, ReserveKept, Calls, TypeOK
<1>8. RegistryTellsMisses'
  BY FederationAssumption DEF IInv, RegistryTellsMisses, MissedInARow, Calls, Rounding, TypeOK, Outcome, NoOutcome
<1>9. QED
  BY <1>1, <1>2, <1>3, <1>4, <1>5, <1>6, <1>7, <1>8, Frame DEF IInv

LEMMA CallFailsInv ==
  ASSUME IInv, CallFails
  PROVE  IInv'
<1> USE DEF CallFails, NoCall, releases, registry, call
<1>1. TypeOK'
  BY FederationAssumption DEF IInv, TypeOK, Calls, Outcome, NoOutcome
<1>2. Calls'
  BY FederationAssumption DEF IInv, Calls, TypeOK
<1>3. ReserveKept'
  BY FederationAssumption, ReserveType DEF IInv, ReserveKept, TypeOK, Calls, Reserve
<1>4. Histograms'
  BY FederationAssumption DEF IInv, Histograms, Calls, TypeOK, ReserveKept, Reserve
<1>5. Growth'
  BY FederationAssumption DEF IInv, Growth, Calls, Rounding, TypeOK
<1>6. Rounding'
  BY FederationAssumption DEF IInv, Rounding, Calls, Growth, TypeOK, NoOutcome, Outcome
<1>7. BudgetKept'
  BY FederationAssumption, ReserveType DEF IInv, BudgetKept, Calls, TypeOK
<1>8. H1cComplete'
  BY FederationAssumption DEF IInv, H1cComplete, Histograms, ReserveKept, Calls, TypeOK
<1>9. RegistryTellsMisses'
  BY FederationAssumption DEF IInv, RegistryTellsMisses, MissedInARow, Calls, Rounding, TypeOK, Outcome, NoOutcome
<1>10. QED
  BY <1>1, <1>2, <1>3, <1>4, <1>5, <1>6, <1>7, <1>8, <1>9, Frame DEF IInv

LEMMA CrashInv ==
  ASSUME IInv, Crash
  PROVE  IInv'
<1> USE DEF Crash, NoCall, releases, registry, call
<1>1. TypeOK'
  BY FederationAssumption DEF IInv, TypeOK, Calls, Outcome, NoOutcome
<1>2. Calls'
  BY FederationAssumption DEF IInv, Calls, TypeOK
<1>3. ReserveKept'
  BY FederationAssumption, ReserveType DEF IInv, ReserveKept, TypeOK, Calls, Reserve
<1>4. Histograms'
  BY FederationAssumption DEF IInv, Histograms, Calls, TypeOK, ReserveKept, Reserve
<1>5. Growth'
  BY FederationAssumption DEF IInv, Growth, Calls, Rounding, TypeOK
<1>6. Rounding'
  BY FederationAssumption DEF IInv, Rounding, Calls, Growth, TypeOK, NoOutcome, Outcome
<1>7. BudgetKept'
  BY FederationAssumption, ReserveType DEF IInv, BudgetKept, Calls, TypeOK
<1>8. H1cComplete'
  BY FederationAssumption DEF IInv, H1cComplete, Histograms, ReserveKept, Calls, TypeOK
<1>9. RegistryTellsMisses'
  BY FederationAssumption DEF IInv, RegistryTellsMisses, MissedInARow, Calls, Rounding, TypeOK, Outcome, NoOutcome
<1>10. QED
  BY <1>1, <1>2, <1>3, <1>4, <1>5, <1>6, <1>7, <1>8, <1>9, Frame DEF IInv
-----------------------------------------------------------------------------
\* The invariant holds in the beginning and every step keeps it.
THEOREM FederationInvariant == Spec => []IInv
<1>1. Init => IInv
  <2> SUFFICES ASSUME Init PROVE IInv
    OBVIOUS
  <2> USE DEF Init
  <2>1. TypeOK
    BY FederationAssumption DEF TypeOK, NoOutcome, Outcome
  <2>2. Calls /\ Histograms /\ Growth /\ Rounding /\ H1cComplete
    BY DEF Calls, Histograms, Growth, Rounding, H1cComplete
  <2>3. ReserveKept /\ BudgetKept /\ ExhaustedIsSpent
    BY FederationAssumption, ReserveType DEF ReserveKept, BudgetKept, ExhaustedIsSpent
  <2>4. RegistryTellsMisses /\ PlannedRunNeverDeclines
    BY FederationAssumption DEF RegistryTellsMisses, PlannedRunNeverDeclines
  <2>5. QED
    BY <2>1, <2>2, <2>3, <2>4 DEF IInv
<1>2. IInv /\ [Next]_vars => IInv'
  <2> SUFFICES ASSUME IInv, [Next]_vars PROVE IInv'
    OBVIOUS
  <2>1. CASE UNCHANGED vars
    <3>1. TypeOK' /\ Calls'
      BY <2>1 DEF IInv, TypeOK, Calls, vars, releases, registry, call
    <3>2. QED
      BY <2>1, <3>1, Frame DEF IInv, vars, releases, registry, call
  <2>2. CASE StartRun
    BY <2>2, StartRunInv
  <2>3. ASSUME NEW n \in Node, HelloSpend(n) \/ HelloRefused(n) PROVE IInv'
    BY <2>3, HelloSpendInv, HelloRefusedInv
  <2>4. CASE HelloReply \/ EndHello
    BY <2>4, HelloReplyInv, EndHelloInv
  <2>5. ASSUME NEW n \in Node, SkipExhausted(n) \/ DropOut(n) PROVE IInv'
    BY <2>5, SkipExhaustedInv, DropOutInv
  <2>6. ASSUME NEW n \in Node, NEW steps \in 1..MaxSteps, AskFit(n, steps) PROVE IInv'
    BY <2>6, AskFitInv
  <2>7. CASE FitStep \/ FitDecline
    BY <2>7, FitStepInv, FitDeclineInv
  <2>8. ASSUME NEW late \in BOOLEAN, FitReply(late) PROVE IInv'
    <3>1. late = TRUE \/ late = FALSE
      BY <2>8
    <3>2. QED
      BY <2>8, <3>1, LateReplyInv, TimelyReplyInv
  <2>9. CASE EndRound
    BY <2>9, EndRoundInv
  <2>10. ASSUME NEW n \in Node, AskThreshold(n) PROVE IInv'
    BY <2>10, AskThresholdInv
  <2>11. CASE ThresholdReply \/ Finish
    BY <2>11, ThresholdReplyInv, FinishInv
  <2>12. CASE CallFails \/ Crash
    BY <2>12, CallFailsInv, CrashInv
  <2>13. QED
    BY <2>1, <2>2, <2>3, <2>4, <2>5, <2>6, <2>7, <2>8, <2>9, <2>10, <2>11, <2>12 DEF Next, Progress
<1>3. QED
  BY <1>1, <1>2, PTL DEF Spec

\* Every variable keeps its type; no round after the last is run.
THEOREM TypeCorrect == Spec => []TypeOK
<1>1. IInv => TypeOK
  BY DEF IInv
<1>2. QED
  BY <1>1, FederationInvariant, PTL

\* What left a node is in its ledger, and no ledger exceeds its budget, however
\* many runs there are and wherever they are killed.
THEOREM BudgetKeptHolds == Spec => []BudgetKept
<1>1. IInv => BudgetKept
  BY DEF IInv
<1>2. QED
  BY <1>1, FederationInvariant, PTL

\* In every run that ends, each node has released its H1c histogram.
THEOREM H1cCompleteHolds == Spec => []H1cComplete
<1>1. IInv => H1cComplete
  BY DEF IInv
<1>2. QED
  BY <1>1, FederationInvariant, PTL

\* A node is exhausted only when its ledger leaves no room for a step.
THEOREM ExhaustedIsSpentHolds == Spec => []ExhaustedIsSpent
<1>1. IInv => ExhaustedIsSpent
  BY DEF IInv
<1>2. QED
  BY <1>1, FederationInvariant, PTL

\* The registry's status and count of misses are those of the rounds' logs.
THEOREM RegistryTellsMissesHolds == Spec => []RegistryTellsMisses
<1>1. IInv => RegistryTellsMisses
  BY DEF IInv
<1>2. QED
  BY <1>1, FederationInvariant, PTL

\* A node with a calibrated budget is not exhausted in a first run.
THEOREM PlannedRunNeverDeclinesHolds == Spec => []PlannedRunNeverDeclines
<1>1. IInv => PlannedRunNeverDeclines
  BY DEF IInv
<1>2. QED
  BY <1>1, FederationInvariant, PTL

-----------------------------------------------------------------------------
(* The logs of the rounds *)

\* An exhausted node stays exhausted.
LEMMA StatusSticks ==
  ASSUME TypeOK, [Next]_vars, NEW n \in Node, status[n] = "exhausted"
  PROVE  status'[n] = "exhausted"
<1> USE DEF TypeOK, registry
<1>1. ASSUME NEW k \in Node, Succeeded(k) \/ Missed(k) \/ Exhausted(k)
      PROVE  status'[n] = "exhausted"
  BY <1>1 DEF Succeeded, Missed, Exhausted
<1>2. CASE StartRun
  BY <1>2 DEF StartRun
<1>3. ASSUME NEW k \in Node, DropOut(k) PROVE status'[n] = "exhausted"
  BY <1>1, <1>3 DEF DropOut
<1>4. CASE FitDecline
  BY <1>4 DEF FitDecline, Exhausted
<1>5. ASSUME NEW late \in BOOLEAN, FitReply(late) PROVE status'[n] = "exhausted"
  BY <1>5 DEF FitReply, Succeeded, Missed
<1>6. CASE UNCHANGED status
  BY <1>6
<1>7. QED
  BY <1>2, <1>3, <1>4, <1>5, <1>6 DEF Next, Progress, HelloSpend, HelloRefused, HelloReply,
     EndHello, SkipExhausted, AskFit, FitStep, EndRound, AskThreshold, ThresholdReply, Finish,
     CallFails, Crash, vars

\* What the rounds logged so far and the current one account for.
Accounted == Accounts(outcome) /\ RoundsAccountForAll

LEMMA ElementOfSeq ==
  ASSUME NEW S, NEW l \in Seq(S)
  PROVE  Len(l) \in Nat /\ \A i \in 1..Len(l) : l[i] \in S
  OBVIOUS

LEMMA LogTypes ==
  ASSUME TypeOK
  PROVE  Len(logs) \in Nat /\ \A i \in 1..Len(logs) : logs[i].result \in Outcome
<1>1. logs \in Seq([result : Outcome, aggregated : BOOLEAN])
  BY DEF TypeOK
<1>2. \A i \in 1..Len(logs) : logs[i] \in [result : Outcome, aggregated : BOOLEAN]
  BY <1>1, ElementOfSeq
<1>3. QED
  BY <1>1, <1>2, ElementOfSeq

\* Logs and outcome are as they were, or empty.
LEMMA AccountedKept ==
  ASSUME IInv, Accounted, [Next]_vars,
         logs' = logs \/ logs' = <<>>, outcome' = outcome \/ outcome' = NoOutcome
  PROVE  Accounted'
<1>1. \A n \in Node : status[n] = "exhausted" => status'[n] = "exhausted"
  BY StatusSticks DEF IInv
<1>2. /\ outcome \in Outcome
      /\ \A i \in 1..Len(logs) : logs[i].result \in Outcome
  BY LogTypes DEF IInv, TypeOK
<1>3. Accounts(outcome)'
  BY <1>1, <1>2 DEF Accounted, Accounts, Outcome, NoOutcome
<1>4. RoundsAccountForAll'
  BY <1>1, <1>2 DEF Accounted, RoundsAccountForAll, Accounts, Outcome
<1>5. QED
  BY <1>3, <1>4 DEF Accounted

\* A node that was still to be asked is recorded under one heading.
LEMMA AccountedLog ==
  ASSUME IInv, Accounted, [Next]_vars, pc \in {"round", "fit"}, NEW n \in todo,
         status[n] # "exhausted", UNCHANGED logs,
         NEW field \in {"participants", "missed", "declined"}, Log(field, n),
         field = "declined" => status'[n] = "exhausted"
  PROVE  Accounted'
<1>1. \A k \in Node : status[k] = "exhausted" => status'[k] = "exhausted"
  BY StatusSticks DEF IInv
<1>2. /\ outcome \in Outcome /\ n \in Node
      /\ \A i \in 1..Len(logs) : logs[i].result \in Outcome
  BY LogTypes DEF IInv, TypeOK
<1>3. n \notin outcome.participants /\ n \notin outcome.missed /\ n \notin outcome.declined
  BY DEF IInv, Rounding, Accounted, Accounts
<1>4. outcome' = [outcome EXCEPT ![field] = @ \cup {n}]
  BY DEF Log
<1>5. Accounts(outcome)'
  BY <1>1, <1>2, <1>3, <1>4 DEF Accounted, Accounts, Outcome
<1>6. RoundsAccountForAll'
  BY <1>1, <1>2 DEF Accounted, RoundsAccountForAll, Accounts, Outcome
<1>7. QED
  BY <1>5, <1>6 DEF Accounted

LEMMA AccountedEndRound ==
  ASSUME IInv, Accounted, EndRound
  PROVE  Accounted'
<1>1. /\ pc = "round" /\ todo = {} /\ logs' = Append(logs, RoundLog)
      /\ outcome' = NoOutcome /\ UNCHANGED status
  BY DEF EndRound, registry
<1>2. RoundLog.result = outcome /\ logs \in Seq([result : Outcome, aggregated : BOOLEAN])
  BY DEF RoundLog, IInv, TypeOK
<1>3. /\ Len(logs') = Len(logs) + 1 /\ logs'[Len(logs) + 1] = RoundLog
      /\ \A i \in 1..Len(logs) : logs'[i] = logs[i]
      /\ Len(logs) \in Nat
  BY <1>1, <1>2
<1>4. \A n \in Node : status[n] # "exhausted" => n \in outcome.participants \cup outcome.missed
  BY <1>1 DEF IInv, Rounding
<1>5. ASSUME NEW i \in 1..Len(logs')
      PROVE  /\ Accounts(logs'[i].result)
             /\ \A n \in Node : status[n] # "exhausted" =>
                  n \in logs'[i].result.participants \cup logs'[i].result.missed
  <2>1. CASE i \in 1..Len(logs)
    <3>1. logs'[i] = logs[i]
      BY <1>3, <2>1
    <3>2. QED
      BY <3>1, <2>1 DEF Accounted, RoundsAccountForAll
  <2>2. CASE i = Len(logs) + 1
    <3>1. logs'[i].result = outcome
      BY <1>2, <1>3, <2>2
    <3>2. QED
      BY <3>1, <1>4 DEF Accounted
  <2>3. QED
    BY <1>3, <2>1, <2>2
<1>6. RoundsAccountForAll'
  BY <1>1, <1>5 DEF RoundsAccountForAll, Accounts
<1>7. Accounts(outcome)'
  BY <1>1 DEF Accounts, NoOutcome
<1>8. QED
  BY <1>6, <1>7 DEF Accounted

LEMMA AccountedStep == IInv /\ Accounted /\ [Next]_vars => Accounted'
<1> SUFFICES ASSUME IInv, Accounted, [Next]_vars PROVE Accounted'
  OBVIOUS
<1>1. CASE EndRound
  BY <1>1, AccountedEndRound
<1>2. ASSUME NEW n \in Node, DropOut(n) PROVE Accounted'
  BY <1>2, AccountedLog DEF DropOut
<1>3. CASE FitDecline
  <2>1. asked \in todo /\ status[asked] # "exhausted" /\ asked \in Node
    BY <1>3 DEF FitDecline, IInv, Calls, TypeOK
  <2>2. status'[asked] = "exhausted"
    BY <1>3, <2>1 DEF FitDecline, Exhausted, IInv, TypeOK
  <2>3. Log("declined", asked) /\ UNCHANGED logs /\ pc = "fit"
    BY <1>3 DEF FitDecline
  <2>4. QED
    BY <2>1, <2>2, <2>3, AccountedLog
<1>4. ASSUME NEW late \in BOOLEAN, FitReply(late) PROVE Accounted'
  <2>1. asked \in todo /\ status[asked] # "exhausted" /\ UNCHANGED logs /\ pc = "fit"
    BY <1>4 DEF FitReply, IInv, Calls
  <2>2. Log("missed", asked) \/ Log("participants", asked)
    BY <1>4 DEF FitReply
  <2>3. QED
    BY <2>1, <2>2, AccountedLog
<1>5. CASE /\ logs' = logs \/ logs' = <<>>
           /\ outcome' = outcome \/ outcome' = NoOutcome
  BY <1>5, AccountedKept
<1>6. CASE \/ StartRun \/ CallFails \/ Crash \/ HelloReply \/ EndHello \/ FitStep
           \/ ThresholdReply \/ Finish \/ UNCHANGED vars
  <2>1. (logs' = logs \/ logs' = <<>>) /\ (outcome' = outcome \/ outcome' = NoOutcome)
    BY <1>6 DEF StartRun, CallFails, Crash, HelloReply, EndHello, FitStep, ThresholdReply,
       Finish, vars
  <2>2. QED
    BY <1>5, <2>1
<1>7. ASSUME NEW n \in Node,
             HelloSpend(n) \/ HelloRefused(n) \/ SkipExhausted(n) \/ AskThreshold(n)
      PROVE  Accounted'
  <2>1. UNCHANGED <<logs, outcome>>
    BY <1>7 DEF HelloSpend, HelloRefused, SkipExhausted, AskThreshold
  <2>2. QED
    BY <1>5, <2>1
<1>8. ASSUME NEW n \in Node, NEW steps \in 1..MaxSteps, AskFit(n, steps) PROVE Accounted'
  BY <1>5, <1>8 DEF AskFit
<1>9. QED
  BY <1>1, <1>2, <1>3, <1>4, <1>6, <1>7, <1>8 DEF Next, Progress

\* In every logged round each node that is not exhausted took part or was missed, and
\* no node is counted twice; the registry's count of misses is that of the logs.
THEOREM RegistryAndLogsAgreeHolds == Spec => []RegistryAndLogsAgree
<1>1. Init => Accounted
  BY DEF Init, Accounted, RoundsAccountForAll, Accounts, NoOutcome
<1>2. IInv /\ Accounted => RegistryAndLogsAgree
  BY DEF IInv, Accounted, RegistryAndLogsAgree
<1>3. QED
  BY <1>1, <1>2, AccountedStep, FederationInvariant, PTL DEF Spec

\* A client that was asked to fit is recorded as participant, missed or declined,
\* unless its call failed and ended the run or the run was killed: what is left of
\* the claim that no reply is a miss (NoReplyIsAMiss).
THEOREM AskedIsRecorded ==
  Spec => [][(pc = "fit" /\ pc' # "fit") =>
               \/ asked \in outcome'.participants \cup outcome'.missed \cup outcome'.declined
               \/ CallFails \/ Crash]_vars
<1>1. IInv /\ [Next]_vars =>
        [(pc = "fit" /\ pc' # "fit") =>
           \/ asked \in outcome'.participants \cup outcome'.missed \cup outcome'.declined
           \/ CallFails \/ Crash]_vars
  <2> SUFFICES ASSUME IInv, Next, pc = "fit", pc' # "fit"
               PROVE  \/ asked \in outcome'.participants \cup outcome'.missed \cup outcome'.declined
                      \/ CallFails \/ Crash
    OBVIOUS
  <2>1. outcome \in Outcome
    BY DEF IInv, TypeOK
  <2>2. ASSUME NEW field \in {"participants", "missed", "declined"}, Log(field, asked)
        PROVE  asked \in outcome'.participants \cup outcome'.missed \cup outcome'.declined
    BY <2>1, <2>2 DEF Log, Outcome
  <2>3. CASE FitDecline
    BY <2>2, <2>3 DEF FitDecline
  <2>4. ASSUME NEW late \in BOOLEAN, FitReply(late)
        PROVE  asked \in outcome'.participants \cup outcome'.missed \cup outcome'.declined
    BY <2>2, <2>4 DEF FitReply
  <2>5. CASE FitStep
    BY <2>5 DEF FitStep
  <2>6. QED
    BY <2>3, <2>4, <2>5 DEF Next, Progress, StartRun, HelloSpend, HelloRefused, HelloReply,
       EndHello, SkipExhausted, DropOut, AskFit, EndRound, AskThreshold, ThresholdReply, Finish
<1>2. QED
  BY <1>1, FederationInvariant, PTL DEF Spec

-----------------------------------------------------------------------------
(* Refinement: every step of the federation is one of Ledger or a stutter. *)

\* In a run, a node charges its histogram once, and only when it is asked for it.
OncePerRun ==
  /\ pc \in {"hello", "round", "fit"} => thresholds = {}
  /\ pc = "threshold" => thresholds \cap todo \subseteq {asked}

LEMMA OncePerRunHolds == Spec => []OncePerRun
<1>1. Init => OncePerRun
  BY DEF Init, OncePerRun
<1>2. IInv /\ OncePerRun /\ [Next]_vars => OncePerRun'
  <2> SUFFICES ASSUME IInv, OncePerRun, [Next]_vars PROVE OncePerRun'
    OBVIOUS
  <2> USE FederationAssumption DEF OncePerRun, releases, registry, call
  <2>1. CASE StartRun \/ CallFails \/ Crash
    BY <2>1 DEF StartRun, CallFails, Crash
  <2>2. ASSUME NEW n \in Node, HelloSpend(n) \/ HelloRefused(n) PROVE OncePerRun'
    BY <2>2 DEF HelloSpend, HelloRefused
  <2>3. CASE HelloReply \/ EndHello
    BY <2>3 DEF HelloReply, EndHello
  <2>4. ASSUME NEW n \in Node, SkipExhausted(n) \/ DropOut(n) PROVE OncePerRun'
    BY <2>4 DEF SkipExhausted, DropOut, Log
  <2>5. ASSUME NEW n \in Node, NEW steps \in 1..MaxSteps, AskFit(n, steps) PROVE OncePerRun'
    BY <2>5 DEF AskFit
  <2>6. CASE FitStep \/ FitDecline
    BY <2>6 DEF FitStep, FitDecline, Log
  <2>7. ASSUME NEW late \in BOOLEAN, FitReply(late) PROVE OncePerRun'
    BY <2>7 DEF FitReply, Log
  <2>8. CASE EndRound
    BY <2>8 DEF EndRound
  <2>9. ASSUME NEW n \in Node, AskThreshold(n) PROVE OncePerRun'
    BY <2>9 DEF AskThreshold, IInv, TypeOK
  <2>10. CASE ThresholdReply \/ Finish
    BY <2>10 DEF ThresholdReply, Finish
  <2>11. CASE UNCHANGED vars
    BY <2>11 DEF vars
  <2>12. QED
    BY <2>1, <2>2, <2>3, <2>4, <2>5, <2>6, <2>7, <2>8, <2>9, <2>10, <2>11 DEF Next, Progress
<1>3. QED
  BY <1>1, <1>2, FederationInvariant, PTL DEF Spec

Open       == [n \in Node |-> IF n = asked THEN pending ELSE 0]
Retirement == {n \in Node : status[n] = "exhausted"}

\* Nobody is retired or brought back by a step that changes no status to or
\* from exhausted.
LEMMA RetirementKept ==
  ASSUME \A n \in Node : status'[n] = "exhausted" <=> status[n] = "exhausted"
  PROVE  Retirement' = Retirement
  BY DEF Retirement

LEMMA LedgerInit == Init => L!LInit
  BY FederationAssumption DEF Init, L!LInit

\* A step that touches neither ledger nor call is a stutter.
LEMMA LedgerQuiet ==
  ASSUME UNCHANGED <<spent, released, asked, pending, thresholds>>, Retirement' = Retirement
  PROVE  UNCHANGED L!lvars
  BY DEF L!lvars, Retirement

\* The guard's check is the condition of the promise's charge.
LEMMA LedgerCharge ==
  ASSUME IInv, NEW n \in Node, NEW c \in Nat \ {0}, Charge(n, c), asked' = n,
         asked = n \/ asked = NoNode,
         UNCHANGED <<released, status>>
  PROVE  /\ Affordable(n, c, Reserve) /\ UNCHANGED thresholds => L!LNext
         /\ /\ H1c /\ c = ThresholdCost /\ Affordable(n, c, 0)
            /\ n \notin thresholds /\ thresholds' = thresholds \cup {n}
            => L!LNext
<1>1. /\ spent \in [Node -> Nat] /\ pending \in Nat /\ Budget \in [Node -> Nat]
      /\ asked = NoNode => pending = 0
      /\ NoNode \notin Node
      /\ ThresholdCost \in Nat \ {0}
  BY FederationAssumption DEF IInv, TypeOK, Calls
<1>2. Open' = [Open EXCEPT ![n] = @ + c]
  <2>1. \A k \in Node : Open'[k] = IF k = n THEN pending + c ELSE 0
    BY DEF Charge, Open
  <2>2. \A k \in Node : Open[k] = IF k = n THEN pending ELSE 0
    BY <1>1 DEF Open
  <2>3. QED
    BY <2>1, <2>2 DEF Open
<1>3. Retirement' = Retirement
  BY RetirementKept
<1>4. L!Book(n, c)
  BY <1>2, <1>3 DEF L!Book, Charge, Open, Retirement
<1>5. ASSUME Affordable(n, c, Reserve), UNCHANGED thresholds PROVE L!LNext
  <2>1. c \in 1..Budget[n]
    BY <1>1, <1>5, ReserveType DEF Affordable
  <2>2. L!LCharge(n, c)
    BY <1>4, <1>5 DEF L!LCharge, Affordable
  <2>3. QED
    BY <2>1, <2>2 DEF L!LNext
<1>6. ASSUME H1c, c = ThresholdCost, Affordable(n, c, 0),
             n \notin thresholds, thresholds' = thresholds \cup {n}
      PROVE  L!LNext
  <2>1. L!LChargeReserved(n)
    BY <1>1, <1>4, <1>6 DEF L!LChargeReserved, Affordable, Reserve
  <2>2. QED
    BY <2>1 DEF L!LNext
<1>7. QED
  BY <1>5, <1>6

LEMMA LedgerReply ==
  ASSUME IInv, asked \in Node, Reply, UNCHANGED <<spent, thresholds>>, Retirement' = Retirement
  PROVE  L!LNext
<1>0. PICK n \in Node : n = asked
  OBVIOUS
<1>1. /\ released' = [released EXCEPT ![n] = @ + Open[n]]
      /\ Open' = [Open EXCEPT ![n] = 0]
  BY <1>0, FederationAssumption DEF Reply, NoCall, Open
<1>2. L!LRelease(n)
  BY <1>1 DEF L!LRelease, Open, Retirement
<1>3. QED
  BY <1>2 DEF L!LNext

LEMMA LedgerDiscard ==
  ASSUME IInv, NoCall, UNCHANGED <<spent, released, status, thresholds>>
  PROVE  L!LNext \/ UNCHANGED L!lvars
<1>1. Retirement' = Retirement
  BY RetirementKept
<1>2. CASE asked \in Node
  <2>1. PICK n \in Node : n = asked
    BY <1>2
  <2>2. Open' = [Open EXCEPT ![n] = 0]
    BY <2>1, FederationAssumption DEF NoCall, Open
  <2>3. L!LDiscard(n)
    BY <1>1, <2>2 DEF L!LDiscard, Open, Retirement
  <2>4. QED
    BY <2>3 DEF L!LNext
<1>3. CASE asked = NoNode
  <2>1. UNCHANGED <<asked, pending>>
    BY <1>3 DEF NoCall, IInv, Calls
  <2>2. QED
    BY <1>1, <2>1, LedgerQuiet
<1>4. QED
  BY <1>2, <1>3 DEF IInv, TypeOK

LEMMA LedgerDecline ==
  ASSUME IInv, FitDecline
  PROVE  L!LNext
<1>1. /\ asked \in Node /\ status'[asked] = "exhausted"
      /\ \A n \in Node \ {asked} : status'[n] = status[n]
      /\ UNCHANGED <<spent, released, thresholds>> /\ NoCall
      /\ spent[asked] + 1 + Reserve > Budget[asked]
  <2>1. asked \in Node
    BY FederationAssumption DEF FitDecline, IInv, TypeOK, Calls
  <2>2. spent[asked] \in Nat /\ Budget[asked] \in Nat
    BY <2>1, FederationAssumption DEF IInv, TypeOK
  <2>3. QED
    BY <2>1, <2>2, ReserveType DEF FitDecline, Exhausted, Affordable, releases, IInv, TypeOK
<1>2. PICK n \in Node : n = asked
  BY <1>1
<1>3. Retirement' = Retirement \cup {n}
  BY <1>1, <1>2 DEF Retirement
<1>4. Open' = [Open EXCEPT ![n] = 0]
  BY <1>1, <1>2, FederationAssumption DEF NoCall, Open
<1>5. L!LRetire(n)
  BY <1>1, <1>2, <1>3, <1>4 DEF L!LRetire, Open, Retirement
<1>6. QED
  BY <1>5 DEF L!LNext

LEMMA LedgerStep == IInv /\ OncePerRun /\ [Next]_vars => [L!LNext]_(L!lvars)
<1> SUFFICES ASSUME IInv, OncePerRun, [Next]_vars PROVE [L!LNext]_(L!lvars)
  OBVIOUS
<1> USE FederationAssumption
<1>1. ASSUME NEW n \in Node, HelloSpend(n) PROVE L!LNext
  BY <1>1, LedgerCharge DEF HelloSpend, registry
<1>2. CASE FitStep
  <2>1. asked \in Node
    BY <1>2 DEF FitStep, IInv, TypeOK, Calls
  <2>2. QED
    BY <1>2, <2>1, LedgerCharge DEF FitStep, registry
<1>3. ASSUME NEW n \in Node, AskThreshold(n) PROVE [L!LNext]_(L!lvars)
  <2>1. CASE /\ Charge(n, ThresholdCost) /\ asked' = n /\ Affordable(n, ThresholdCost, 0)
             /\ thresholds' = thresholds \cup {n}
    <3>1. H1c /\ n \notin thresholds
      BY <1>3 DEF AskThreshold, IInv, ReserveKept, OncePerRun
    <3>2. QED
      BY <1>3, <2>1, <3>1, LedgerCharge DEF AskThreshold, registry
  <2>2. CASE UNCHANGED <<releases, pending, asked>>
    BY <1>3, <2>2, RetirementKept, LedgerQuiet DEF AskThreshold, registry, releases
  <2>3. QED
    BY <1>3, <2>1, <2>2 DEF AskThreshold
<1>4. CASE HelloReply \/ ThresholdReply
  <2>1. asked \in Node /\ Reply /\ UNCHANGED <<spent, thresholds, status>>
    BY <1>4 DEF HelloReply, ThresholdReply, releases, registry, IInv, TypeOK
  <2>2. QED
    BY <2>1, RetirementKept, LedgerReply
<1>5. ASSUME NEW late \in BOOLEAN, FitReply(late) PROVE L!LNext
  <2>1. asked \in Node /\ status[asked] # "exhausted" /\ status \in [Node -> {"none", "active", "degraded", "exhausted"}]
    BY <1>5 DEF FitReply, IInv, TypeOK, Calls
  <2>2. \A n \in Node : status'[n] = "exhausted" <=> status[n] = "exhausted"
    BY <1>5, <2>1 DEF FitReply, Missed, Succeeded
  <2>3. Reply /\ UNCHANGED <<spent, thresholds>>
    BY <1>5 DEF FitReply, releases
  <2>4. QED
    BY <2>1, <2>2, <2>3, RetirementKept, LedgerReply
<1>6. CASE FitDecline
  BY <1>6, LedgerDecline
<1>7. CASE CallFails \/ Crash
  BY <1>7, LedgerDiscard DEF CallFails, Crash, releases, registry
<1>8. CASE StartRun
  <2>1. \A n \in Node : status'[n] = "exhausted" <=> status[n] = "exhausted"
    BY <1>8 DEF StartRun, IInv, TypeOK
  <2>2. Open' = Open /\ Retirement' = Retirement
    BY <1>8, <2>1, RetirementKept DEF StartRun, call, Open
  <2>3. L!LRerun
    BY <1>8, <2>2 DEF L!LRerun, StartRun, Open, Retirement
  <2>4. QED
    BY <2>3 DEF L!LNext
<1>9. ASSUME NEW n \in Node, DropOut(n) PROVE UNCHANGED L!lvars
  <2>1. \A k \in Node : status'[k] = "exhausted" <=> status[k] = "exhausted"
    BY <1>9 DEF DropOut, Missed, IInv, TypeOK
  <2>2. QED
    BY <1>9, <2>1, RetirementKept, LedgerQuiet DEF DropOut, call, releases
<1>10. ASSUME NEW n \in Node, NEW steps \in 1..MaxSteps, AskFit(n, steps)
       PROVE  [L!LNext]_(L!lvars)
  <2>1. /\ asked = NoNode /\ pending = 0 /\ pending' = 0
        /\ UNCHANGED <<spent, released, status, thresholds>>
    BY <1>10 DEF AskFit, IInv, Calls, releases, registry
  <2>2. Open' = Open
    BY <2>1 DEF Open
  <2>3. Retirement' = Retirement
    BY <2>1, RetirementKept
  <2>4. QED
    BY <2>1, <2>2, <2>3 DEF L!lvars, Open, Retirement
<1>11. CASE \/ \E n \in Node : HelloRefused(n) \/ SkipExhausted(n)
            \/ EndHello \/ EndRound \/ Finish \/ UNCHANGED vars
  <2>1. UNCHANGED <<spent, released, asked, pending, status, thresholds>>
    BY <1>11 DEF HelloRefused, SkipExhausted, EndHello, EndRound, Finish, vars, releases,
       registry, call
  <2>2. QED
    BY <2>1, RetirementKept, LedgerQuiet
<1>12. QED
  BY <1>1, <1>2, <1>3, <1>4, <1>5, <1>6, <1>7, <1>8, <1>9, <1>10, <1>11 DEF Next, Progress

\* The federation implements Ledger: over all runs, crashes, failed calls, dropouts
\* and thrown away replies, every step charges before it releases, never past the
\* total nor out of the reserve, and retires only a node without room for a step.
THEOREM FederationImplementsLedger == Spec => ImplementsLedger
<1>1. QED
  BY LedgerInit, LedgerStep, FederationInvariant, OncePerRunHolds, PTL DEF Spec, ImplementsLedger, L!LSpec
=============================================================================
