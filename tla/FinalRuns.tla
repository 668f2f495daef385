----------------------------- MODULE FinalRuns -----------------------------
(***************************************************************************)
(* The campaign of final runs: experiments/grid.py --final starts one      *)
(* process of federated/run.py --final after the other, and the owner may  *)
(* start such a process by hand.  Neither takes a lock.  A process looks   *)
(* whether its artifact exists, trains, reads the test partition of every  *)
(* client (Sealed), writes the score file and then the artifact.  It may   *)
(* be killed between any two of these steps; what it wrote stays.          *)
(* evaluation/checker.py later decides whether an artifact counts.         *)
(*                                                                         *)
(* An attempt is known by its run id.  Two attempts are taken to differ in *)
(* their scores, although they are meant to be reproducible.               *)
(***************************************************************************)
EXTENDS Sealed

CONSTANTS
  Rank,  \* priority of a run
  None   \* no file, no process

VARIABLES
  proc,        \* processes of federated/run.py: [run, todo, scored]
  scores,      \* seed_<n>.scores.npz of a run, as the attempt that wrote it
  artifact,    \* seed_<n>.json of a run
  gridOn,      \* experiments/grid.py is running
  todo,        \* runs the grid has still to start
  child,       \* the attempt the grid waits for
  moved,       \* attempts during which the repository changed (history)
  split,       \* attempts that saw a commit after their first read (history)
  overlapped   \* runs of which two attempts ran at a time (history)

files == <<scores, artifact>>
grid  == <<gridOn, todo, child>>
past  == <<moved, split, overlapped>>
vars  == <<sealedVars, proc, files, grid, past>>

\* There is nothing to score before every client has been read.
Process ==
  {p \in [run : Run, todo : SUBSET Client, scored : BOOLEAN] : p.scored => p.todo = {}}

Artifact == [id : Attempt, scores : Attempt, sha : Nat, dirty : BOOLEAN]

ASSUME FinalRunsAssumption ==
  /\ Client # {}
  /\ Rank \in [Run -> Nat]
  /\ MaxEvents \in Nat
  /\ None \notin Attempt \cup Process \cup Artifact

TypeOK ==
  /\ SealedTypeOK
  /\ proc \in [Attempt -> Process \cup {None}]
  /\ scores \in [Run -> Attempt \cup {None}]
  /\ artifact \in [Run -> Artifact \cup {None}]
  /\ gridOn \in BOOLEAN
  /\ todo \subseteq Run
  /\ child \in Attempt \cup {None}
  /\ moved \subseteq Attempt
  /\ split \subseteq Attempt
  /\ overlapped \subseteq Run

Init ==
  /\ SealedInit
  /\ proc = [a \in Attempt |-> None]
  /\ scores = [r \in Run |-> None]
  /\ artifact = [r \in Run |-> None]
  /\ gridOn = FALSE /\ todo = {} /\ child = None
  /\ moved = {} /\ split = {} /\ overlapped = {}

-----------------------------------------------------------------------------
Alive(a) == proc[a] # None

\* A run id of the attempts so far that has left no trace may come up again.
Unused(a) ==
  /\ ~Alive(a) /\ child # a
  /\ \A e \in log : e.id # a
  /\ \A r \in Run : scores[r] # a /\ (artifact[r] # None => artifact[r].id # a)

\* Which of them is taken is of no account.
NewIds ==
  IF \E a \in Attempt : Unused(a) THEN {CHOOSE a \in Attempt : Unused(a)} ELSE {}

AliveOf(r) == {a \in Attempt : Alive(a) /\ proc[a].run = r}

\* Mutation: run.py relies on the list of the grid.
MayStartAlways(r) == TRUE

\* main: "a completed test run is never repeated".
MayStart(r) == artifact[r] = None

\* main of federated/run.py, up to the reading of test data.
Begin(a, r) ==
  /\ Unused(a)
  /\ MayStart(r)
  /\ proc' = [proc EXCEPT ![a] = [run |-> r, todo |-> Client, scored |-> FALSE]]
  /\ moved' = moved \ {a}
  /\ UNCHANGED split
  /\ overlapped' = IF AliveOf(r) = {} THEN overlapped ELSE overlapped \cup {r}

\* load_partition of one client's test data; SealedTestError ends the process.
ReadTest(a) ==
  /\ Alive(a)
  /\ \/ \E c \in proc[a].todo :
          /\ Authorise(proc[a].run, a, c)
          /\ proc' = [proc EXCEPT ![a].todo = @ \ {c}]
     \/ /\ proc[a].todo # {}
        /\ ~Frozen
        /\ proc' = [proc EXCEPT ![a] = None]
        /\ UNCHANGED sealedVars
  /\ UNCHANGED <<files, grid, past>>

\* Mutation: the scores are written while clients are still to be read.
WriteScoresEarly(a) ==
  /\ Alive(a) /\ ~proc[a].scored
  /\ scores' = [scores EXCEPT ![proc[a].run] = a]
  /\ proc' = [proc EXCEPT ![a].scored = TRUE]
  /\ UNCHANGED <<sealedVars, artifact, grid, past>>

\* record_test and write_result: write_scores ...
WriteScores(a) ==
  /\ Alive(a) /\ proc[a].todo = {} /\ ~proc[a].scored
  /\ scores' = [scores EXCEPT ![proc[a].run] = a]
  /\ proc' = [proc EXCEPT ![a].scored = TRUE]
  /\ UNCHANGED <<sealedVars, artifact, grid, past>>

\* ... then write_artifact: the provenance is that of this moment, and the file
\* is renamed into place.  The process ends.
WriteArtifact(a) ==
  /\ Alive(a) /\ proc[a].scored
  /\ artifact' = [artifact EXCEPT ![proc[a].run] =
                    [id |-> a, scores |-> a, sha |-> commit, dirty |-> dirty]]
  /\ proc' = [proc EXCEPT ![a] = None]
  /\ UNCHANGED <<sealedVars, scores, grid, past>>

\* The process is killed, or an exception ends it.
Kill(a) ==
  /\ Alive(a)
  /\ Event
  /\ proc' = [proc EXCEPT ![a] = None]
  /\ UNCHANGED <<commit, dirty, log, files, grid, past>>

\* The owner starts a final run by hand.
StartByHand(a, r) ==
  /\ Event
  /\ Begin(a, r)
  /\ UNCHANGED <<commit, dirty, log, files, grid>>

-----------------------------------------------------------------------------
(* experiments/grid.py *)

\* Mutation: a run counts as done when its scores are there.
WithoutScores == {r \in Run : scores[r] = None}

Remaining == {r \in Run : artifact[r] = None}

\* The list is made once.
GridStart ==
  /\ ~gridOn
  /\ gridOn' = TRUE
  /\ todo' = Remaining
  /\ UNCHANGED <<sealedVars, proc, files, child, past>>

\* subprocess.call for the next run in order of priority.
GridRun(a, r) ==
  /\ gridOn /\ child = None
  /\ r \in todo
  /\ \A q \in todo : Rank[r] <= Rank[q]
  /\ todo' = todo \ {r}
  /\ Begin(a, r)
  /\ child' = a
  /\ UNCHANGED <<sealedVars, files, gridOn>>

\* The same, and the process finds that its artifact exists by now.
GridRefused(r) ==
  /\ gridOn /\ child = None
  /\ r \in todo
  /\ \A q \in todo : Rank[r] <= Rank[q]
  /\ ~MayStart(r)
  /\ todo' = todo \ {r}
  /\ UNCHANGED <<sealedVars, proc, files, gridOn, child, past>>

\* The child has ended; whether it failed or not, the grid goes on.
GridNext ==
  /\ child # None /\ ~Alive(child)
  /\ child' = None
  /\ UNCHANGED <<sealedVars, proc, files, gridOn, todo, past>>

GridEnd ==
  /\ gridOn /\ child = None /\ todo = {}
  /\ gridOn' = FALSE
  /\ UNCHANGED <<sealedVars, proc, files, todo, child, past>>

\* The time budget is reached, or the grid is killed; a child it has goes on.
GridStops ==
  /\ gridOn
  /\ Event
  /\ gridOn' = FALSE /\ todo' = {} /\ child' = None
  /\ UNCHANGED <<commit, dirty, log, proc, files, past>>

-----------------------------------------------------------------------------
Reading == {a \in Attempt : Alive(a) /\ proc[a].todo # Client}

Repository ==
  /\ \/ CommitResults /\ split' = split \cup Reading
     \/ EditFiles /\ UNCHANGED split
  /\ moved' = moved \cup {a \in Attempt : Alive(a)}
  /\ UNCHANGED <<proc, files, grid, overlapped>>

Restore ==
  /\ RestoreFiles
  /\ UNCHANGED <<proc, files, grid, past>>

Proceed(a) == ReadTest(a) \/ WriteScores(a) \/ WriteArtifact(a)

Grid ==
  \/ GridStart \/ GridNext \/ GridEnd
  \/ \E a \in NewIds, r \in Run : GridRun(a, r)
  \/ \E r \in Run : GridRefused(r)

Next ==
  \/ Grid
  \/ \E a \in Attempt : Proceed(a) \/ Kill(a)
  \/ \E a \in NewIds, r \in Run : StartByHand(a, r)
  \/ GridStops \/ Repository \/ Restore

Spec == Init /\ [][Next]_vars

\* Processes that are not killed go on, the grid is started again until nothing
\* remains, and edits are taken back.
FairSpec ==
  /\ Spec
  /\ WF_vars(Grid) /\ WF_vars(Restore)
  /\ \A a \in Attempt : WF_vars(Proceed(a))

-----------------------------------------------------------------------------
(* evaluation/checker.py *)

\* Mutation: one entry at the artifact's commit is enough.
AcceptedAnyClient(r) ==
  /\ ~artifact[r].dirty
  /\ scores[r] = artifact[r].scores
  /\ \E c \in Client :
       [run |-> r, id |-> artifact[r].id, client |-> c, sha |-> artifact[r].sha] \in log

\* check_file of a test artifact: a clean tree, the score file with the hash, and
\* (_access_problems) an entry of this run at this commit for every client.
Accepted(r) ==
  /\ ~artifact[r].dirty
  /\ scores[r] = artifact[r].scores
  /\ \A c \in Client :
       [run |-> r, id |-> artifact[r].id, client |-> c, sha |-> artifact[r].sha] \in log

\* The checker accepts every artifact, whatever attempts were killed before it, in
\* any state of their files and of the log, unless the repository changed during
\* the attempt or another attempt of the run overlapped with it (checker.py,
\* _access_problems: entries of other run ids "are earlier attempts that crashed").
AcceptedUnlessDisturbed ==
  \A r \in Run :
    artifact[r] # None /\ artifact[r].id \notin moved /\ r \notin overlapped => Accepted(r)

\* An artifact whose attempt read test data before a commit and was written after it
\* is not accepted, whatever else happened: one code version for reading and scoring.
RejectedIfSplit ==
  \A r \in Run : artifact[r] # None /\ artifact[r].id \in split => ~Accepted(r)

\* What may count does count, and what must not does not.
AcceptedRightly == AcceptedUnlessDisturbed /\ RejectedIfSplit

\* A completed test run is never repeated (run.py; ADR 0019): once its artifact is
\* there, nobody replaces it or its scores or reads its test data again, although
\* the list of a grid may be stale; except an attempt that overlapped with it.
NeverRepeated ==
  [][\A r \in Run :
       artifact[r] # None /\ r \notin overlapped =>
         /\ artifact'[r] = artifact[r]
         /\ scores'[r] = scores[r]
         /\ \A e \in log' \ log : e.run # r]_vars

\* All runs are completed in the end: what fails or is killed is run again.
EventuallyComplete == \A r \in Run : <>(artifact[r] # None)
=============================================================================
