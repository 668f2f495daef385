------------------------------- MODULE Sealed -------------------------------
(***************************************************************************)
(* The sealed test set (data/access.py, evaluation/sealed.py): a test      *)
(* partition is read by a final run only, at the frozen code, and every    *)
(* read is first written to the access log.  The repository around it is   *)
(* open to its owner: results may be committed at any time (frozen_problem *)
(* allows commits that change results/ only), and files may be edited.     *)
(* A commit of other files is an edit that is not taken back.              *)
(***************************************************************************)
EXTENDS Naturals, FiniteSets

CONSTANTS
  Run,       \* configurations with their seeds: the test runs of the matrix
  Client,    \* the clients of a run, one test partition each
  Attempt,   \* run ids (access_run_id), one per attempt
  MaxEvents  \* bound on what happens to the campaign from outside

VARIABLES
  commit,    \* HEAD, as the number of commits since the tag
  dirty,     \* uncommitted changes outside results/
  log,       \* results/test_access.log
  events     \* how much happened from outside (bound)

sealedVars == <<commit, dirty, log, events>>

Entry == [run : Run, id : Attempt, client : Client, sha : Nat]

SealedTypeOK ==
  /\ commit \in Nat
  /\ dirty \in BOOLEAN
  /\ log \subseteq Entry
  /\ events \in 0..MaxEvents

SealedInit ==
  /\ commit = 0
  /\ dirty = FALSE
  /\ log = {}
  /\ events = 0

-----------------------------------------------------------------------------
\* frozen_problem finds none.
Frozen == ~dirty

\* authorise and the read: the entry is written before the partition is read.
Authorise(r, a, c) ==
  /\ Frozen
  /\ log' = log \cup {[run |-> r, id |-> a, client |-> c, sha |-> commit]}
  /\ UNCHANGED <<commit, dirty, events>>

Event ==
  /\ events < MaxEvents
  /\ events' = events + 1

CommitResults ==
  /\ Event
  /\ commit' = commit + 1
  /\ UNCHANGED <<dirty, log>>

EditFiles ==
  /\ Event
  /\ ~dirty
  /\ dirty' = TRUE
  /\ UNCHANGED <<commit, log>>

RestoreFiles ==
  /\ dirty
  /\ dirty' = FALSE
  /\ UNCHANGED <<commit, log, events>>
=============================================================================
