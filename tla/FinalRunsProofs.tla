-------------------------- MODULE FinalRunsProofs --------------------------
(***************************************************************************)
(* The sealed test set under any campaign: an artifact that nothing        *)
(* disturbed is accepted, and a completed run is never repeated, whatever  *)
(* attempts are killed, started by hand or left behind by a grid.          *)
(***************************************************************************)
EXTENDS FinalRuns, TLAPS

\* Two attempts of a run at a time are known as such.
Alone ==
  \A a, b \in Attempt :
    Alive(a) /\ Alive(b) /\ a # b /\ proc[a].run = proc[b].run => proc[a].run \in overlapped

\* So is an attempt that goes on after the run was completed.
NoneAfterTheEnd ==
  \A a \in Attempt : Alive(a) /\ artifact[proc[a].run] # None => proc[a].run \in overlapped

\* What an undisturbed attempt has read is in the log at this commit.
ReadsLogged ==
  \A a \in Attempt : Alive(a) /\ a \notin moved =>
    /\ proc[a].todo # Client => ~dirty
    /\ \A c \in Client \ proc[a].todo :
         [run |-> proc[a].run, id |-> a, client |-> c, sha |-> commit] \in log

\* The score file is that of the attempt that wrote its scores.
ScoresKept ==
  \A a \in Attempt : Alive(a) /\ proc[a].scored =>
    scores[proc[a].run] = a \/ proc[a].run \in overlapped

\* Entries are no younger than HEAD, and an attempt that has not yet read a client's
\* test data or has not yet written its artifact has no trace of it.
ReadsOnce ==
  /\ \A e \in log : e.sha <= commit
  /\ \A a \in Attempt : Alive(a) =>
       /\ \A e \in log : e.id = a => e.client \notin proc[a].todo
       /\ \A c \in Client \ proc[a].todo : \E e \in log : e.id = a /\ e.client = c
       /\ \A r \in Run : artifact[r] # None => artifact[r].id # a

\* All that attempt a logged for client c is older than commit n.
ReadBefore(a, c, n) ==
  /\ \E e \in log : e.id = a /\ e.client = c
  /\ \A e \in log : e.id = a /\ e.client = c => e.sha < n

\* The client whose data an attempt read before a commit it lived through.
SplitHasOldRead ==
  \A a \in split : \E c \in Client :
    /\ Alive(a) => c \notin proc[a].todo /\ ReadBefore(a, c, commit)
    /\ \E e \in log : e.id = a
    /\ \A r \in Run : artifact[r] # None /\ artifact[r].id = a => ReadBefore(a, c, artifact[r].sha)

\* The second invariant of the campaign, beside IInv.
SplitInv == ReadsOnce /\ SplitHasOldRead

IInv == TypeOK /\ Alone /\ NoneAfterTheEnd /\ ReadsLogged /\ ScoresKept /\ AcceptedUnlessDisturbed

LEMMA NoneIsNothing ==
  /\ \A p \in Process : p # None
  /\ \A f \in Artifact : f # None
  /\ \A a \in Attempt : a # None
BY FinalRunsAssumption

LEMMA EventsNat == MaxEvents \in Nat
BY FinalRunsAssumption

LEMMA InitInv == Init => IInv
<1> SUFFICES ASSUME Init PROVE IInv
  OBVIOUS
<1>1. TypeOK
  <2>1. SealedTypeOK
    <3>1. 0 \in 0..MaxEvents
      BY EventsNat
    <3> QED BY <3>1 DEF Init, SealedInit, SealedTypeOK
  <2> QED BY <2>1 DEF Init, TypeOK
<1>2. (\A a \in Attempt : ~Alive(a)) /\ (\A r \in Run : artifact[r] = None)
  BY DEF Init, Alive
<1> QED BY <1>1, <1>2 DEF IInv, Alone, NoneAfterTheEnd, ReadsLogged, ScoresKept,
          AcceptedUnlessDisturbed

\* A process is its run, what it has still to read, and whether it has scored.
LEMMA ProcessOf ==
  ASSUME TypeOK, NEW a \in Attempt, Alive(a)
  PROVE  /\ proc[a] \in Process
         /\ proc[a].run \in Run /\ proc[a].todo \subseteq Client /\ proc[a].scored \in BOOLEAN
         /\ proc[a].scored => proc[a].todo = {}
<1>1. proc[a] \in Process
  BY DEF TypeOK, Alive
<1> QED BY <1>1 DEF Process

-----------------------------------------------------------------------------
\* A new attempt has read nothing, and is of a run that is not completed.
LEMMA BeginInv ==
  ASSUME IInv, NEW a \in Attempt, NEW r \in Run, Begin(a, r),
         UNCHANGED <<commit, dirty, log, files>>,
         events' \in 0..MaxEvents, gridOn' \in BOOLEAN, todo' \subseteq Run,
         child' \in Attempt \cup {None}
  PROVE  IInv'
<1> USE DEF IInv
<1> DEFINE new == [run |-> r, todo |-> Client, scored |-> FALSE]
<1>1. new \in Process /\ new # None
  BY NoneIsNothing DEF Process
<1>2. ~Alive(a) /\ proc'[a] = new /\ \A b \in Attempt \ {a} : proc'[b] = proc[b]
  BY DEF Begin, Unused, TypeOK
<1>3. /\ moved' = moved \ {a} /\ artifact[r] = None
      /\ overlapped \subseteq overlapped' /\ overlapped' \subseteq Run
      /\ AliveOf(r) # {} => r \in overlapped'
  BY DEF Begin, MayStart, TypeOK
<1>4. TypeOK'
  BY <1>1, <1>3 DEF TypeOK, SealedTypeOK, files, Begin
<1>5. Alone'
  <2> SUFFICES ASSUME NEW b \in Attempt, NEW c \in Attempt, Alive(b)', Alive(c)', b # c,
                      proc'[b].run = proc'[c].run
               PROVE  proc'[b].run \in overlapped'
    BY DEF Alone
  <2>1. CASE b # a /\ c # a
    BY <2>1, <1>2, <1>3 DEF Alone, Alive
  <2>2. CASE b = a \/ c = a
    <3>1. proc'[b].run = r /\ proc'[c].run = r
      BY <2>2, <1>2
    <3>2. \E d \in {b, c} : d # a /\ Alive(d) /\ proc[d].run = r
      BY <2>2, <3>1, <1>2 DEF Alive
    <3> QED BY <3>1, <3>2, <1>3 DEF AliveOf
  <2> QED BY <2>1, <2>2
<1>6. NoneAfterTheEnd'
  BY <1>2, <1>3 DEF NoneAfterTheEnd, Alive, files
<1>7. ReadsLogged'
  BY <1>1, <1>2, <1>3 DEF ReadsLogged, Alive
<1>8. ScoresKept'
  BY <1>1, <1>2, <1>3 DEF ScoresKept, Alive, files
<1>9. AcceptedUnlessDisturbed'
  <2>1. \A q \in Run : artifact[q] # None => artifact[q].id # a
    BY DEF Begin, Unused
  <2> QED BY <2>1, <1>3 DEF AcceptedUnlessDisturbed, Accepted, files
<1> QED BY <1>4, <1>5, <1>6, <1>7, <1>8, <1>9

\* A process that ends leaves everything as it is.
LEMMA EndInv ==
  ASSUME IInv, NEW a \in Attempt, proc' = [proc EXCEPT ![a] = None],
         UNCHANGED <<commit, dirty, log, files, grid, past>>, events' \in 0..MaxEvents
  PROVE  IInv'
<1> USE DEF IInv
<1>1. proc'[a] = None /\ \A b \in Attempt \ {a} : proc'[b] = proc[b]
  BY DEF TypeOK
<1>2. TypeOK'
  BY DEF TypeOK, SealedTypeOK, files, grid, past
<1> QED BY <1>1, <1>2 DEF Alone, NoneAfterTheEnd, ReadsLogged, ScoresKept,
          AcceptedUnlessDisturbed, Accepted, Alive, files, past

\* A read is logged at the commit of this moment, in a clean tree.
LEMMA ReadInv ==
  ASSUME IInv, NEW a \in Attempt, NEW c \in proc[a].todo, Alive(a),
         Authorise(proc[a].run, a, c), proc' = [proc EXCEPT ![a].todo = @ \ {c}],
         UNCHANGED <<files, grid, past>>
  PROVE  IInv'
<1> USE DEF IInv
<1> DEFINE entry == [run |-> proc[a].run, id |-> a, client |-> c, sha |-> commit]
           next == [proc[a] EXCEPT !.todo = @ \ {c}]
<1>1. /\ proc[a] \in Process /\ proc[a].run \in Run /\ c \in Client
      /\ ~proc[a].scored /\ proc[a].todo \subseteq Client
  BY ProcessOf
<1>2. proc'[a] = next /\ \A b \in Attempt \ {a} : proc'[b] = proc[b]
  BY DEF TypeOK
<1>3. /\ next \in Process /\ next # None /\ next.run = proc[a].run
      /\ next.todo = proc[a].todo \ {c} /\ ~next.scored
  BY <1>1, NoneIsNothing DEF Process
<1>4. ~dirty /\ log' = log \cup {entry} /\ UNCHANGED <<commit, dirty, events>>
  BY DEF Authorise, Frozen
<1>5. TypeOK'
  <2>1. entry \in Entry
    BY <1>1 DEF Entry, TypeOK, SealedTypeOK
  <2> QED BY <2>1, <1>2, <1>3, <1>4 DEF TypeOK, SealedTypeOK, files, grid, past
<1>6. \A b \in Attempt : (Alive(b)' <=> Alive(b)) /\ (Alive(b) => proc'[b].run = proc[b].run)
                         /\ (Alive(b) => (proc'[b].scored <=> proc[b].scored))
  BY <1>1, <1>2, <1>3 DEF Alive
<1>7. Alone' /\ NoneAfterTheEnd' /\ ScoresKept'
  BY <1>6 DEF Alone, NoneAfterTheEnd, ScoresKept, files, past
<1>8. ReadsLogged'
  <2> SUFFICES ASSUME NEW b \in Attempt, Alive(b)', b \notin moved
               PROVE  /\ ~dirty'
                      /\ \A d \in Client \ proc'[b].todo :
                           [run |-> proc'[b].run, id |-> b, client |-> d, sha |-> commit'] \in log'
    BY DEF ReadsLogged, past
  <2>1. CASE b = a
    BY <2>1, <1>2, <1>3, <1>4, <1>6 DEF ReadsLogged
  <2>2. CASE b # a
    BY <2>2, <1>2, <1>4, <1>6 DEF ReadsLogged
  <2> QED BY <2>1, <2>2
<1>9. AcceptedUnlessDisturbed'
  BY <1>4 DEF AcceptedUnlessDisturbed, Accepted, files, past
<1> QED BY <1>5, <1>7, <1>8, <1>9

\* Scores replace those of a run that is not completed, or that overlapped.
LEMMA WriteScoresInv ==
  ASSUME IInv, NEW a \in Attempt, WriteScores(a)
  PROVE  IInv'
<1> USE DEF IInv
<1> DEFINE r == proc[a].run
           next == [proc[a] EXCEPT !.scored = TRUE]
<1>1. Alive(a) /\ proc[a] \in Process /\ r \in Run /\ proc[a].todo = {}
  BY ProcessOf DEF WriteScores
<1>2. proc'[a] = next /\ \A b \in Attempt \ {a} : proc'[b] = proc[b]
  BY DEF WriteScores, TypeOK
<1>3. /\ next \in Process /\ next # None /\ next.run = r
      /\ next.todo = proc[a].todo /\ next.scored
  BY <1>1, NoneIsNothing DEF Process
<1>4. scores'[r] = a /\ \A q \in Run \ {r} : scores'[q] = scores[q]
  BY <1>1 DEF WriteScores, TypeOK
<1>5. UNCHANGED <<sealedVars, artifact, grid, past>>
  BY DEF WriteScores
<1>6. TypeOK'
  <2>1. proc' \in [Attempt -> Process \cup {None}]
    BY <1>3 DEF WriteScores, TypeOK
  <2>2. scores' \in [Run -> Attempt \cup {None}]
    BY <1>1 DEF WriteScores, TypeOK
  <2> QED BY <2>1, <2>2, <1>5 DEF TypeOK, SealedTypeOK, sealedVars, grid, past
<1>7. \A b \in Attempt : (Alive(b)' <=> Alive(b)) /\ (Alive(b) => proc'[b].run = proc[b].run)
                         /\ (Alive(b) => proc'[b].todo = proc[b].todo)
  BY <1>1, <1>2, <1>3 DEF Alive
<1>8. Alone' /\ NoneAfterTheEnd' /\ ReadsLogged'
  BY <1>5, <1>7 DEF Alone, NoneAfterTheEnd, ReadsLogged, sealedVars, past
<1>9. ScoresKept'
  <2> SUFFICES ASSUME NEW b \in Attempt, Alive(b)', proc'[b].scored
               PROVE  scores'[proc'[b].run] = b \/ proc'[b].run \in overlapped'
    BY DEF ScoresKept
  <2>1. CASE b = a
    BY <2>1, <1>2, <1>3, <1>4
  <2>2. CASE b # a /\ proc[b].run = r
    BY <2>2, <1>1, <1>5, <1>7 DEF Alone, past
  <2>3. CASE b # a /\ proc[b].run # r
    <3>1. Alive(b) /\ proc[b].run \in Run /\ proc'[b] = proc[b]
      BY <2>3, <1>2, <1>7, ProcessOf
    <3> QED BY <3>1, <2>3, <1>4, <1>5 DEF ScoresKept, past
  <2> QED BY <2>1, <2>2, <2>3
<1>10. AcceptedUnlessDisturbed'
  <2>1. artifact[r] # None => r \in overlapped
    BY <1>1 DEF NoneAfterTheEnd
  <2> QED BY <2>1, <1>4, <1>5 DEF AcceptedUnlessDisturbed, Accepted, sealedVars, past
<1> QED BY <1>6, <1>8, <1>9, <1>10

\* The artifact tells what the log and the score file tell.
LEMMA WriteArtifactInv ==
  ASSUME IInv, NEW a \in Attempt, WriteArtifact(a)
  PROVE  IInv'
<1> USE DEF IInv
<1> DEFINE r == proc[a].run
           file == [id |-> a, scores |-> a, sha |-> commit, dirty |-> dirty]
<1>1. Alive(a) /\ proc[a] \in Process /\ r \in Run /\ proc[a].todo = {} /\ proc[a].scored
  BY ProcessOf DEF WriteArtifact
<1>2. proc'[a] = None /\ \A b \in Attempt \ {a} : proc'[b] = proc[b]
  BY DEF WriteArtifact, TypeOK
<1>3. artifact'[r] = file /\ \A q \in Run \ {r} : artifact'[q] = artifact[q]
  BY <1>1 DEF WriteArtifact, TypeOK
<1>4. UNCHANGED <<sealedVars, scores, grid, past>>
  BY DEF WriteArtifact
<1>5. TypeOK'
  <2>1. file \in Artifact
    BY DEF Artifact, TypeOK, SealedTypeOK
  <2>2. artifact' \in [Run -> Artifact \cup {None}]
    BY <2>1, <1>1 DEF WriteArtifact, TypeOK
  <2>3. proc' \in [Attempt -> Process \cup {None}]
    BY DEF WriteArtifact, TypeOK
  <2> QED BY <2>2, <2>3, <1>4 DEF TypeOK, SealedTypeOK, sealedVars, grid, past
<1>6. \A b \in Attempt : Alive(b)' => b # a /\ Alive(b) /\ proc'[b] = proc[b] /\ proc[b].run \in Run
  BY <1>2, ProcessOf DEF Alive
<1>7. Alone' /\ ReadsLogged' /\ ScoresKept'
  BY <1>4, <1>6 DEF Alone, ReadsLogged, ScoresKept, sealedVars, past
<1>8. NoneAfterTheEnd'
  <2> SUFFICES ASSUME NEW b \in Attempt, Alive(b)', artifact'[proc'[b].run] # None
               PROVE  proc'[b].run \in overlapped'
    BY DEF NoneAfterTheEnd
  <2>1. CASE proc[b].run = r
    BY <2>1, <1>1, <1>4, <1>6 DEF Alone, past
  <2>2. CASE proc[b].run # r
    BY <2>2, <1>3, <1>4, <1>6 DEF NoneAfterTheEnd, past
  <2> QED BY <2>1, <2>2
<1>9. AcceptedUnlessDisturbed'
  <2> SUFFICES ASSUME NEW q \in Run, artifact'[q] # None, artifact'[q].id \notin moved,
                      q \notin overlapped
               PROVE  Accepted(q)'
    BY <1>4 DEF AcceptedUnlessDisturbed, past
  <2>1. CASE q = r
    <3>1. a \notin moved /\ r \notin overlapped
      BY <2>1, <1>3
    <3>2. ~dirty /\ \A c \in Client : [run |-> r, id |-> a, client |-> c, sha |-> commit] \in log
      BY <3>1, <1>1, FinalRunsAssumption DEF ReadsLogged
    <3>3. scores[r] = a
      BY <3>1, <1>1 DEF ScoresKept
    <3> QED BY <2>1, <3>2, <3>3, <1>3, <1>4 DEF Accepted, sealedVars
  <2>2. CASE q # r
    BY <2>2, <1>3, <1>4 DEF AcceptedUnlessDisturbed, Accepted, sealedVars, past
  <2> QED BY <2>1, <2>2
<1> QED BY <1>5, <1>7, <1>8, <1>9

\* The owner's commits and edits disturb the attempts that are running.
LEMMA RepositoryInv ==
  ASSUME IInv, Repository
  PROVE  IInv'
<1> USE DEF IInv
<1>1. TypeOK'
  <2>1. events' \in 0..MaxEvents
    BY FinalRunsAssumption
       DEF Repository, CommitResults, EditFiles, Event, TypeOK, SealedTypeOK
  <2>2. commit' \in Nat /\ log' \subseteq Entry
    <3>1. commit \in Nat /\ log \subseteq Entry /\ log' = log
      BY DEF Repository, CommitResults, EditFiles, TypeOK, SealedTypeOK
    <3>2. commit' = commit + 1 \/ commit' = commit
      BY DEF Repository, CommitResults, EditFiles
    <3> QED BY <3>1, <3>2
  <2>4. dirty' \in BOOLEAN
    BY Zenon DEF Repository, CommitResults, EditFiles, TypeOK, SealedTypeOK
  <2>3. moved' \subseteq Attempt /\ split' \subseteq Attempt
    BY DEF Repository, Reading, TypeOK
  <2> QED BY <2>1, <2>2, <2>3, <2>4 DEF Repository, TypeOK, SealedTypeOK, files, grid
<1>2. /\ \A a \in Attempt : Alive(a) => a \in moved'
      /\ moved \subseteq moved' /\ log' = log
      /\ UNCHANGED <<proc, files, overlapped>>
  BY DEF Repository, CommitResults, EditFiles
<1> QED BY <1>1, <1>2 DEF Alone, NoneAfterTheEnd, ReadsLogged, ScoresKept,
          AcceptedUnlessDisturbed, Accepted, Alive, files

\* Edits that are taken back disturb nobody.
LEMMA RestoreInv ==
  ASSUME IInv, Restore
  PROVE  IInv'
BY DEF IInv, Restore, RestoreFiles, TypeOK, SealedTypeOK, Alone, NoneAfterTheEnd, ReadsLogged,
   ScoresKept, AcceptedUnlessDisturbed, Accepted, Alive, files, grid, past

\* The grid's own steps touch no process and no file.
LEMMA GridInv ==
  ASSUME IInv, GridStart \/ GridNext \/ GridEnd \/ GridStops \/ \E r \in Run : GridRefused(r)
  PROVE  IInv'
<1> USE DEF IInv
<1>1. UNCHANGED <<commit, dirty, log, proc, files, past>>
  BY DEF GridStart, GridNext, GridEnd, GridStops, GridRefused, sealedVars
<1>2. events' \in 0..MaxEvents
  BY FinalRunsAssumption
     DEF GridStart, GridNext, GridEnd, GridStops, GridRefused, Event, sealedVars, TypeOK, SealedTypeOK
<1>3. gridOn' \in BOOLEAN /\ todo' \subseteq Run /\ child' \in Attempt \cup {None}
  BY DEF GridStart, GridNext, GridEnd, GridStops, GridRefused, Remaining, TypeOK
<1> QED BY <1>1, <1>2, <1>3 DEF TypeOK, SealedTypeOK, Alone, NoneAfterTheEnd, ReadsLogged,
          ScoresKept, AcceptedUnlessDisturbed, Accepted, Alive, files, past

LEMMA NextInv == IInv /\ [Next]_vars => IInv'
<1> SUFFICES ASSUME IInv, [Next]_vars PROVE IInv'
  OBVIOUS
<1>1. ASSUME NEW a \in Attempt, Proceed(a) PROVE IInv'
  <2>1. CASE ReadTest(a)
    <3>1. CASE \E c \in proc[a].todo : /\ Authorise(proc[a].run, a, c)
                                       /\ proc' = [proc EXCEPT ![a].todo = @ \ {c}]
      BY <2>1, <3>1, ReadInv DEF ReadTest
    <3>2. CASE proc' = [proc EXCEPT ![a] = None] /\ UNCHANGED sealedVars
      <4>1. events' \in 0..MaxEvents
        BY <3>2 DEF IInv, TypeOK, SealedTypeOK, sealedVars
      <4> QED BY <2>1, <3>2, <4>1, EndInv DEF ReadTest, sealedVars
    <3> QED BY <2>1, <3>1, <3>2 DEF ReadTest
  <2> QED BY <1>1, <2>1, WriteScoresInv, WriteArtifactInv DEF Proceed
<1>2. ASSUME NEW a \in Attempt, Kill(a) PROVE IInv'
  <2>1. events' \in 0..MaxEvents
    BY <1>2, FinalRunsAssumption DEF Kill, Event, IInv, TypeOK, SealedTypeOK
  <2> QED BY <1>2, <2>1, EndInv DEF Kill
<1>3. NewIds \subseteq Attempt
  BY DEF NewIds
<1>4. ASSUME NEW a \in Attempt, NEW r \in Run, StartByHand(a, r) PROVE IInv'
  <2>1. events' \in 0..MaxEvents
    BY <1>4, FinalRunsAssumption DEF StartByHand, Event, IInv, TypeOK, SealedTypeOK
  <2> QED BY <1>4, <2>1, BeginInv DEF StartByHand, grid, IInv, TypeOK
<1>5. ASSUME NEW a \in Attempt, NEW r \in Run, GridRun(a, r) PROVE IInv'
  <2>1. events' \in 0..MaxEvents /\ UNCHANGED <<commit, dirty, log, files>>
    BY <1>5 DEF GridRun, IInv, TypeOK, SealedTypeOK, sealedVars
  <2> QED BY <1>5, <2>1, BeginInv DEF GridRun, IInv, TypeOK
<1>6. CASE UNCHANGED vars
  BY <1>6 DEF vars, sealedVars, files, grid, past, IInv, TypeOK, SealedTypeOK, Alone,
     NoneAfterTheEnd, ReadsLogged, ScoresKept, AcceptedUnlessDisturbed, Accepted, Alive
<1> QED BY <1>1, <1>2, <1>3, <1>4, <1>5, <1>6, RepositoryInv, RestoreInv, GridInv DEF Next, Grid

-----------------------------------------------------------------------------
(* Reads at more than one commit *)

LEMMA SplitInit == Init => SplitInv
BY DEF Init, SealedInit, SplitInv, ReadsOnce, SplitHasOldRead, Alive

\* Steps that add nothing to the log, the files and the commits, and no process.
LEMMA SplitQuiet ==
  ASSUME IInv, SplitInv, UNCHANGED <<commit, log, artifact, split>>,
         \A b \in Attempt : Alive(b)' => Alive(b) /\ proc'[b].todo = proc[b].todo
  PROVE  SplitInv'
<1>1. ReadsOnce'
  BY DEF SplitInv, ReadsOnce
<1>2. SplitHasOldRead'
  BY DEF SplitInv, SplitHasOldRead, ReadBefore, IInv, TypeOK
<1> QED BY <1>1, <1>2 DEF SplitInv

\* A new attempt has left no trace, so no old one comes back under its run id.
LEMMA SplitBegin ==
  ASSUME IInv, SplitInv, NEW a \in Attempt, NEW r \in Run, Begin(a, r),
         UNCHANGED <<commit, log, artifact>>
  PROVE  SplitInv'
<1> DEFINE new == [run |-> r, todo |-> Client, scored |-> FALSE]
<1>1. /\ proc'[a] = new /\ new.todo = Client /\ \A b \in Attempt \ {a} : proc'[b] = proc[b]
      /\ split' = split
  BY DEF Begin, IInv, TypeOK
<1>2. /\ \A e \in log : e.id # a
      /\ \A q \in Run : artifact[q] # None => artifact[q].id # a
  BY DEF Begin, Unused
<1> HIDE DEF new
<1>3. ReadsOnce'
  BY <1>1, <1>2 DEF SplitInv, ReadsOnce, Alive
<1>4. SplitHasOldRead'
  BY <1>1, <1>2 DEF SplitInv, SplitHasOldRead, ReadBefore, Alive, IInv, TypeOK
<1> QED BY <1>3, <1>4 DEF SplitInv

\* A client is read once, so a later read does not cover an older one.
LEMMA SplitRead ==
  ASSUME IInv, SplitInv, NEW a \in Attempt, NEW c \in proc[a].todo, Alive(a),
         Authorise(proc[a].run, a, c), proc' = [proc EXCEPT ![a].todo = @ \ {c}],
         UNCHANGED <<files, past>>
  PROVE  SplitInv'
<1> DEFINE entry == [run |-> proc[a].run, id |-> a, client |-> c, sha |-> commit]
           next == [proc[a] EXCEPT !.todo = @ \ {c}]
<1>1. /\ proc[a] \in Process /\ c \in Client /\ proc[a].todo \subseteq Client
      /\ commit \in Nat
  BY ProcessOf DEF IInv, TypeOK, SealedTypeOK
<1>2. proc'[a] = next /\ \A b \in Attempt \ {a} : proc'[b] = proc[b]
  BY DEF IInv, TypeOK
<1>3. next.todo = proc[a].todo \ {c}
  BY <1>1 DEF Process
<1>4. /\ log' = log \cup {entry} /\ UNCHANGED <<commit, artifact, split>>
      /\ entry.id = a /\ entry.client = c /\ entry.sha = commit
  BY DEF Authorise, files, past
<1> HIDE DEF entry, next
<1>5. \A b \in Attempt : Alive(b)' => Alive(b) /\ proc'[b].todo \subseteq proc[b].todo
                                       /\ (b # a => proc'[b] = proc[b])
  BY <1>2, <1>3 DEF Alive
<1>6. ReadsOnce'
  BY <1>1, <1>2, <1>3, <1>4, <1>5 DEF SplitInv, ReadsOnce
<1>7. SplitHasOldRead'
  <2> SUFFICES ASSUME NEW b \in split
               PROVE  \E d \in Client :
                        /\ Alive(b)' => d \notin proc'[b].todo /\ ReadBefore(b, d, commit)'
                        /\ \E e \in log' : e.id = b
                        /\ \A r \in Run : artifact[r] # None /\ artifact[r].id = b
                                           => ReadBefore(b, d, artifact[r].sha)'
    BY <1>4 DEF SplitHasOldRead
  <2>0. b \in Attempt
    BY DEF IInv, TypeOK
  <2>1. PICK d \in Client :
          /\ Alive(b) => d \notin proc[b].todo /\ ReadBefore(b, d, commit)
          /\ \E e \in log : e.id = b
          /\ \A r \in Run : artifact[r] # None /\ artifact[r].id = b
                             => ReadBefore(b, d, artifact[r].sha)
    BY DEF SplitInv, SplitHasOldRead
  <2>2. b = a => d # c
    BY <2>1
  <2>3. ASSUME NEW n, ReadBefore(b, d, n) PROVE ReadBefore(b, d, n)'
    BY <2>2, <2>3, <1>4 DEF ReadBefore
  <2>4. Alive(b)' => d \notin proc'[b].todo /\ ReadBefore(b, d, commit)'
    <3>1. SUFFICES ASSUME Alive(b)' PROVE d \notin proc'[b].todo /\ ReadBefore(b, d, commit)'
      OBVIOUS
    <3>2. Alive(b) /\ d \notin proc'[b].todo
      BY <3>1, <2>0, <2>1, <1>5
    <3>3. ReadBefore(b, d, commit)
      BY <3>2, <2>1
    <3>4. \A n : ReadBefore(b, d, n) => ReadBefore(b, d, n)'
      BY <2>2, <1>4 DEF ReadBefore
    <3> QED BY <3>2, <3>3, <1>4, <2>2 DEF ReadBefore
  <2>5. \A r \in Run : artifact[r] # None /\ artifact[r].id = b
                        => ReadBefore(b, d, artifact[r].sha)'
    BY <2>1, <2>2, <1>4 DEF ReadBefore
  <2> QED BY <2>1, <2>4, <2>5, <1>4
<1> QED BY <1>6, <1>7 DEF SplitInv

\* An artifact carries the commit of the moment it is written.
LEMMA SplitWrite ==
  ASSUME IInv, SplitInv, NEW a \in Attempt, WriteArtifact(a)
  PROVE  SplitInv'
<1> DEFINE r == proc[a].run
           file == [id |-> a, scores |-> a, sha |-> commit, dirty |-> dirty]
<1>1. Alive(a) /\ r \in Run
  BY ProcessOf DEF WriteArtifact, IInv
<1>2. proc'[a] = None /\ \A b \in Attempt \ {a} : proc'[b] = proc[b]
  BY DEF WriteArtifact, IInv, TypeOK
<1>3. /\ artifact'[r] = file /\ \A q \in Run \ {r} : artifact'[q] = artifact[q]
      /\ file.id = a /\ file.sha = commit
  BY <1>1 DEF WriteArtifact, IInv, TypeOK
<1>4. UNCHANGED <<commit, log, split>>
  BY DEF WriteArtifact, sealedVars, past
<1> HIDE DEF r, file
<1>5. ReadsOnce'
  BY <1>1, <1>2, <1>3, <1>4 DEF SplitInv, ReadsOnce, Alive
<1>6. SplitHasOldRead'
  BY <1>1, <1>2, <1>3, <1>4 DEF SplitInv, SplitHasOldRead, ReadBefore, Alive, IInv, TypeOK
<1> QED BY <1>5, <1>6 DEF SplitInv

\* What was read before a commit is older than it.
LEMMA SplitRepository ==
  ASSUME IInv, SplitInv, Repository
  PROVE  SplitInv'
<1>1. /\ UNCHANGED <<log, proc, artifact>>
      /\ \/ commit' = commit + 1 /\ split' = split \cup Reading
         \/ commit' = commit /\ split' = split
  BY DEF Repository, CommitResults, EditFiles, files
<1>2. commit \in Nat /\ \A e \in log : e.sha \in Nat
  BY DEF IInv, TypeOK, SealedTypeOK, Entry
<1>3. \A a \in Attempt : Alive(a)' <=> Alive(a)
  BY <1>1 DEF Alive
<1>4. ReadsOnce'
  BY <1>1, <1>2, <1>3 DEF SplitInv, ReadsOnce
<1>5. SplitHasOldRead'
  <2> SUFFICES ASSUME NEW a \in split'
               PROVE  \E c \in Client :
                        /\ Alive(a) => c \notin proc[a].todo /\ ReadBefore(a, c, commit')
                        /\ \E e \in log : e.id = a
                        /\ \A r \in Run : artifact[r] # None /\ artifact[r].id = a
                                           => ReadBefore(a, c, artifact[r].sha)
    BY <1>1, <1>3 DEF SplitHasOldRead, ReadBefore, Alive
  <2>1. CASE a \in split
    <3>1. \A c \in Client : ReadBefore(a, c, commit) => ReadBefore(a, c, commit')
      BY <1>1, <1>2 DEF ReadBefore
    <3> QED BY <2>1, <3>1 DEF SplitInv, SplitHasOldRead
  <2>2. CASE a \notin split /\ a \in Reading
    <3>1. a \in Attempt /\ Alive(a) /\ proc[a].todo # Client /\ proc[a].todo \subseteq Client
      BY <2>2, ProcessOf DEF Reading, IInv
    <3>2. PICK c \in Client : c \notin proc[a].todo
      BY <3>1
    <3>3. commit' = commit + 1
      BY <2>2, <1>1
    <3>4. ReadBefore(a, c, commit')
      BY <3>1, <3>2, <3>3, <1>2 DEF SplitInv, ReadsOnce, ReadBefore
    <3>5. \A r \in Run : artifact[r] # None => artifact[r].id # a
      BY <3>1 DEF SplitInv, ReadsOnce
    <3> QED BY <3>2, <3>4, <3>5 DEF ReadBefore
  <2> QED BY <2>1, <2>2, <1>1
<1> QED BY <1>4, <1>5 DEF SplitInv

LEMMA SplitStep == IInv /\ SplitInv /\ [Next]_vars => SplitInv'
<1> SUFFICES ASSUME IInv, SplitInv, [Next]_vars PROVE SplitInv'
  OBVIOUS
<1>1. ASSUME NEW a \in Attempt, NEW r \in Run, StartByHand(a, r) \/ GridRun(a, r) PROVE SplitInv'
  BY <1>1, SplitBegin DEF StartByHand, GridRun, sealedVars, files
<1>2. ASSUME NEW a \in Attempt, ReadTest(a) PROVE SplitInv'
  <2>1. CASE \E c \in proc[a].todo : /\ Authorise(proc[a].run, a, c)
                                     /\ proc' = [proc EXCEPT ![a].todo = @ \ {c}]
    BY <1>2, <2>1, SplitRead DEF ReadTest
  <2>2. CASE proc' = [proc EXCEPT ![a] = None] /\ UNCHANGED sealedVars
    <3>1. \A b \in Attempt : Alive(b)' => Alive(b) /\ proc'[b].todo = proc[b].todo
      BY <2>2 DEF Alive, IInv, TypeOK
    <3> QED BY <1>2, <2>2, <3>1, SplitQuiet DEF ReadTest, sealedVars, files, past
  <2> QED BY <1>2, <2>1, <2>2 DEF ReadTest
<1>3. ASSUME NEW a \in Attempt, WriteScores(a) PROVE SplitInv'
  <2>1. proc[a] \in Process /\ Alive(a)
    BY <1>3, ProcessOf DEF WriteScores, IInv
  <2>2. \A b \in Attempt : Alive(b)' => Alive(b) /\ proc'[b].todo = proc[b].todo
    BY <1>3, <2>1 DEF WriteScores, Alive, Process, IInv, TypeOK
  <2> QED BY <1>3, <2>2, SplitQuiet DEF WriteScores, sealedVars, past
<1>4. ASSUME NEW a \in Attempt, Kill(a) PROVE SplitInv'
  <2>1. \A b \in Attempt : Alive(b)' => Alive(b) /\ proc'[b].todo = proc[b].todo
    BY <1>4 DEF Kill, Alive, IInv, TypeOK
  <2> QED BY <1>4, <2>1, SplitQuiet DEF Kill, files, past
<1>5. CASE \/ GridStart \/ GridNext \/ GridEnd \/ GridStops \/ (\E r \in Run : GridRefused(r))
           \/ Restore \/ UNCHANGED vars
  <2>1. UNCHANGED <<commit, log, artifact, split, proc>>
    BY <1>5 DEF GridStart, GridNext, GridEnd, GridStops, GridRefused, Restore, RestoreFiles, vars,
                sealedVars, files, past
  <2> QED BY <2>1, SplitQuiet DEF Alive
<1>6. NewIds \subseteq Attempt
  BY DEF NewIds
<1> QED BY <1>1, <1>2, <1>3, <1>4, <1>5, <1>6, SplitWrite, SplitRepository DEF Next, Grid, Proceed

\* The checker compares every entry of the attempt with the artifact's commit.
LEMMA SplitRejected == IInv /\ SplitInv => RejectedIfSplit
<1> SUFFICES ASSUME IInv, SplitInv, NEW r \in Run, artifact[r] # None, artifact[r].id \in split,
                    Accepted(r)
             PROVE  FALSE
  BY DEF RejectedIfSplit
<1>1. PICK c \in Client : ReadBefore(artifact[r].id, c, artifact[r].sha)
  BY DEF SplitInv, SplitHasOldRead
<1> DEFINE e == [run |-> r, id |-> artifact[r].id, client |-> c, sha |-> artifact[r].sha]
<1>2. e \in log /\ e.id = artifact[r].id /\ e.client = c /\ e.sha = artifact[r].sha
  BY DEF Accepted
<1>3. e.sha < artifact[r].sha
  BY <1>1, <1>2 DEF ReadBefore
<1>4. artifact[r].sha \in Nat
  BY DEF IInv, TypeOK, Artifact
<1> QED BY <1>2, <1>3, <1>4

-----------------------------------------------------------------------------
\* Running attempts, the log and the files agree, for any events from outside.
THEOREM CampaignInvariant == Spec => []IInv
BY InitInv, NextInv, PTL DEF Spec

\* All variables keep their types.
THEOREM TypeCorrect == Spec => []TypeOK
<1>1. IInv => TypeOK
  BY DEF IInv
<1> QED BY <1>1, CampaignInvariant, PTL

\* The checker accepts what nothing disturbed, and rejects what was read at one
\* commit and written at another.
THEOREM AcceptedRightlyHolds == Spec => []AcceptedRightly
<1>1. IInv /\ SplitInv => AcceptedRightly
  BY SplitRejected DEF IInv, AcceptedRightly
<1>2. Spec => []SplitInv
  BY SplitInit, SplitStep, CampaignInvariant, PTL DEF Spec
<1> QED BY <1>1, <1>2, CampaignInvariant, PTL

\* Nobody reads or writes for a completed run.
LEMMA CompletedIsLeftAlone ==
  ASSUME IInv, [Next]_vars, NEW r \in Run, artifact[r] # None, r \notin overlapped
  PROVE  /\ artifact'[r] = artifact[r] /\ scores'[r] = scores[r]
         /\ \A e \in log' \ log : e.run # r
<1>1. \A a \in Attempt : Alive(a) => proc[a].run # r
  BY DEF IInv, NoneAfterTheEnd
<1>2. ASSUME NEW a \in Attempt, ReadTest(a)
      PROVE  UNCHANGED files /\ \A e \in log' \ log : e.run # r
  BY <1>1, <1>2 DEF ReadTest, Authorise, sealedVars
<1>3. ASSUME NEW a \in Attempt, WriteScores(a)
      PROVE  UNCHANGED <<artifact, log>> /\ scores'[r] = scores[r]
  BY <1>1, <1>3 DEF WriteScores, IInv, TypeOK, sealedVars
<1>4. ASSUME NEW a \in Attempt, WriteArtifact(a)
      PROVE  UNCHANGED <<scores, log>> /\ artifact'[r] = artifact[r]
  BY <1>1, <1>4 DEF WriteArtifact, IInv, TypeOK, sealedVars
<1>5. (\E a \in Attempt : Kill(a)) \/ Grid \/ GridStops \/ Repository \/ Restore
        \/ (\E a \in NewIds, q \in Run : StartByHand(a, q)) \/ UNCHANGED vars
      => UNCHANGED <<files, log>>
  BY DEF Kill, Grid, GridStart, GridNext, GridEnd, GridRun, GridRefused, GridStops, Repository,
     CommitResults, EditFiles, Restore, RestoreFiles, StartByHand, vars, sealedVars, files
<1> QED BY <1>2, <1>3, <1>4, <1>5 DEF Next, Proceed, files

\* A completed test run is never repeated.
THEOREM NeverRepeatedHolds == Spec => NeverRepeated
<1>1. IInv /\ [Next]_vars =>
        [\A r \in Run :
           artifact[r] # None /\ r \notin overlapped =>
             /\ artifact'[r] = artifact[r]
             /\ scores'[r] = scores[r]
             /\ \A e \in log' \ log : e.run # r]_vars
  BY CompletedIsLeftAlone
<1> QED BY <1>1, CampaignInvariant, PTL DEF Spec, NeverRepeated
=============================================================================
