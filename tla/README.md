# Agentic Mesh: a TLA+ model of its operations, its federation and its final runs

Agentic Mesh watches industrial control sites. An edge runtime scores sensor
windows and publishes alerts; the *mesh* groups the alerts of a site into
incidents, asks the site's nodes for evidence, attributes the incident to an
ATT&CK technique and dispatches actions, of which the high-impact ones wait for
an operator. Models are trained by a federation whose clients keep privacy
ledgers. Results on the sealed test set come from a campaign of final runs, each
made once.

This directory holds TLA+ specifications of that code, TLC runs that check them
on small instances, and TLAPS proofs that hold for every value of the
constants. Paths below are relative to the repository; `agmesh/` stands for
`src/src/agmesh/`. `PROJECT.json` maps every definition to the lines it models,
lists the hazards, and for every checked property gives a mutation of the code
(an operator commented `Mutation:`) under which the property fails.

Contents: 1 inventory, 2 the modules and how they correspond to the code,
3 runs, 4 fairness, 5 proofs, 6 disagreements found, 7 what is not modelled.

## 1. Inventory

### 1.1 Operations path

| Component (files) | State | Operations | What is hard | What makes it correct |
|---|---|---|---|---|
| Message bus (`bus/base.py`, `sqlite_bus.py`) | one row per message: topic, attempts, lease owner and end, available-at, acked-at, failed-at | `publish`, `claim`, `ack`, `release`, reads | several consumers, leases that run out, late acks, redelivery, dead letters | exclusive leases; one final verdict per message; never more than `max_attempts` deliveries; everything is settled in the end |
| Bus in memory (`bus/memory.py`) | the same, in a list | the same | – | the same promises |
| Triage and fusion (`mesh/triage.py`, `fusion.py`) | one open group of alerts per site | `feed`, `drain`, `Incident.summary` | alerts come in claim order, not in data time | incidents are the chains of the delta-t rule |
| Consume loop (`mesh/runner.py`) | alerts seen, open incident, worker pool | `consume`: claim, feed, run, ack | crash between the graph's end and the acks; own leases run out; time-out of a session that still ends | no alert lost or handled twice unless a run that held it was cut short; the topic drained |
| Session store (`mesh/sessions.py`) | tables sessions, hops, steps, actions | `open`, `advance`, `record_hop`, `record_step`, `record_action`, `set_action_status` | one commit per call; idempotent inserts keep the first row | legal transitions, hop budget, one row per key |
| Graph (`mesh/graph.py`) | `MeshState` in the process | nodes triage, investigate, attribute, dispatch; `_advance`, `_finish` | restarted in any state | completed work is never repeated or contradicted; a run that is not killed closes its session |
| Investigator, breaker, node client (`mesh/investigator.py`, `breaker.py`, `nodeclient.py`) | hops done, deadline, failure counts per node | `run`, `_hop`, `allow`, `success`, `failure`, `evidence` | retries within one deadline, late answers, half-open breaker, two commits per hop | hop budget, no node asked twice, evidence kept, degradation reported; an investigation ends in time; a failing node is left alone |
| Attribution, LLM client, rules (`mesh/attribution.py`, `llm.py`, `rules.py`) | none | `attribute`, `chat` | streaming time-out, invalid answers, fallback | an answer is grounded in retrieved techniques, or it abstains |
| Dispatcher (`mesh/dispatcher.py`, `configs/policy/actions.yaml`) | – | `propose`, `dispatch` | two commits per action (outbox) | each proposed action recorded and published once |
| Approvals and their API (`mesh/approvals.py`, `approvals_api.py`) | action rows | `decide` | concurrent operators; crash after the row's commit | one decision per action, only on high impact, published |
| Edge runtime (`edge/*.py`) | evidence store, published alerts | replay, score, store evidence, publish | crash between evidence and alert; rerun | an alert's evidence exists; a rerun adds nothing |
| Node API, tokens (`nodeapi/*.py`, `security/jwt.py`) | replay cache of token ids | `mint`, `verify`, `add`, evidence queries | handlers in a pool of threads; cache at its limit; two clock reads; repeated requests; a restart empties the cache | a token is accepted once; a full cache lets go of expired tokens |
| TLS, egress, redaction (`security/`) | – | library calls, text filters | – | – |
| Process stack (`stack.py`) | child processes | start, stop | – | – |

How they interact: the edge runtime publishes on `alerts.<site>`. `consume`
claims from that topic, feeds `Triage`, and calls `MeshGraph.run` in a worker
for each incident that closes. The graph reads and writes the session store; its
investigator calls node APIs through `nodeclient` with one-time tokens; its
dispatcher writes action rows and publishes on `actions.<site>`. The approval API
is a process of its own on the same database: it changes action rows and
publishes on `approvals`. `consume` acknowledges the alerts when the graph has
ended. Bus and session store are the only state that survives a process.

### 1.2 Federation and privacy

| Component (files) | State | Operations | What is hard | What makes it correct |
|---|---|---|---|---|
| Server, registry (`federated/server.py`, `registry.py`) | round, global model, node status and missed rounds | `Server.run`: register, `hello` (round 0), rounds, `_h1c`; `succeeded`, `missed`, `exhausted` | dropouts, late replies, declined clients, calls that fail, reruns with the old registry | the registry tells what happened; a node is skipped only when its budget is really spent; every run ends |
| Clients, backends (`federated/client.py`, `backends.py`, `flower.py`) | none: a client object lives for one call | `hello`, `fit`, `threshold`, `evaluate` | rebuilt for every call; no reply | what leaves a client is charged first, whatever happens to the reply |
| Privacy ledger and guard (`privacy/accountant_store.py`, `budget_guard.py`, `client_budget.py`) | a file per run and node with the history of releases; reservations of a guard | `prepare`, `check`, `spend`, `record`, `release_reserved` | killed between charge and release; rerun under the same run id; the reserve | the budget is never exceeded; training cannot eat the reserve; a calibrated budget lasts |
| Secure aggregation (`federated/secagg.py`) | – | wraps a library protocol | drop-outs | threshold |
| DP training, noise, calibration, models (`models/`, `privacy/bounds.py`, `noisy_stats.py`, `calibrate.py`) | – | numerical | – | numerical |

### 1.3 Final runs on the sealed test set

| Component (files) | State | Operations | What is hard | What makes it correct |
|---|---|---|---|---|
| Sealed test set (`evaluation/sealed.py`, `data/access.py`) | the access log; the repository's commit and its uncommitted files | `frozen_problem`, `authorise`, `load_partition` | the repository changes between two reads | no read without an entry; none off the frozen code |
| Federated run (`federated/run.py`, `evaluation/results.py`, `common/artifacts.py`, `common/provenance.py`) | score files and artifacts | `main`, `federate`, `record_test`, `write_result`, `write_artifact` | hours between the check for the artifact and its writing; killed between two files; no lock | a completed run is never repeated |
| Grid (`experiments/grid.py`) | its list, its child process | `priority`, `remaining`, `main` | a list made once; failures; a time budget; a child that outlives it | all runs get done, in order |
| Checker (`evaluation/checker.py`) | – | `check_file`, `_access_problems` | reads files and log after the fact | accepts what a proper run wrote |

How they interact: the grid starts one process of `federated/run.py` after the
other; so may the owner, by hand. The processes share only the file system: the
artifacts, the access log and the Git repository.

### 1.4 Other offline parts

Data preparation (`data/`), knowledge base (`kb/`), metrics and statistics
(`evaluation/`), the other experiments, feasibility benchmarks, configuration,
tracing. These are numerical or textual batch programs over files.

## 2. Modules

```
   abstract            detailed                      checked and proved in

   Delivery  <-------  Bus                           MCBus, BusProofs
                        ^ EXTENDS
   Handling  <-------  Pipeline                      MCPipeline, PipelineProofs
   Incident  <-------  Mesh                          MCMesh, MeshProofs
   Ledger    <-------  Federation                    MCFederation, FederationProofs

                       NodeApi                       NodeApiProofs
                        ^ EXTENDS
                       Hop                           MCHop, HopProofs
                       Sealed
                        ^ EXTENDS
                       FinalRuns                     MCFinalRuns, FinalRunsProofs

   the four abstract specifications by themselves: PromisesProofs
```

`Pipeline` uses the operations of `Bus` as they are; what a session does inside
is `Mesh`, and `Pipeline` keeps of it that a session is opened and then closed.
Whether a session that a crash left open is opened again is up to `Pipeline`: `Mesh`
starts the graph at any time, any number of times, and assumes of nobody that it is
started. `Hop` looks into the investigation that `Mesh` has as the step
`AskNode`: there any outcome, here the time, the retries and the breakers that
lead to it. `Federation` shares no state with them: a trained model is a
file that the edge runtime loads. To `FinalRuns` the training is one step.
An arrow is a refinement that a run checks and a theorem proves.

### Bus (`bus/sqlite_bus.py`)

One row per message; the variables are the table's columns. Each public method
is one SQL statement or one `BEGIN IMMEDIATE` transaction, hence one action:
`Publish`, `Claim` (dead-letter exhausted rows, select the oldest claimable
rows, lease them), `Ack`, `Release`. A call that matches no row is a stuttering
step. Time stamps are modelled by the time left until they are reached
(`leaseLeft`, `availIn`), and `Tick` lets time pass for all rows; this keeps the
state finite without a bound on the clock. `created` is the rank of
`created_at`. Two rows with equal stamps, which SQL may return in any order, are
not modelled.

`Delivery` is what the bus promises, without clocks, delays, batches and order:
a message is ready, held, acknowledged or dead, is handed out at most
`MaxAttempts` times and can be settled by its last holder, late or not.
`ImplementsDelivery` is the refinement: a message is held when its lease runs.

### Mesh (`mesh/graph.py`, `sessions.py`, `investigator.py`, `dispatcher.py`, `approvals.py`)

One incident. Variables are in three groups: `tables` (what survives a crash),
`local` (what the mesh process holds: `pc` and the fields of `MeshState`), and
`request` (what requests to the approval API hold). Every commit is an action,
so a crash between any two commits is a behaviour of the model:

| Code | Actions |
|---|---|
| `store.open`, node triage, `_after_triage` | `OpenSession`, `RouteTriage` |
| node investigate; `Investigator.run`, `_hop` | `ReuseInvestigation`, `PlanHops`, `AskNode`, `RecordHopStep`, `RecordHop`, `EndInvestigation` |
| node attribute | `ReuseAttribution`, `StartAttribution`, `RecordAttribution`, `Abstain` |
| node dispatch, `Dispatcher.dispatch` | `ReuseDispatch`, `StartDispatch`, `RecordAction`, `PublishAction`, `RecordDispatch`, `Complete` |
| `decide` | `Decide`, `PublishDecision` |
| kill of the mesh process, of the API | `Crash`, `CrashApi` |

`TRANSITIONS` and `Policy` are the code's tables. Two operators' calls of
`decide` interleave at their commits: the read before the compare-and-set cannot
change the outcome, since existence and impact of a row never change. The
agent's answer (`RecordAttribution`) is any attribution, chosen anew each time
it is asked. A hop's breaker and retries end in one outcome, chosen freely (how
they do is `Hop`); a node that is asked again returns the same records.

`Incident` is what the graph promises: one verdict, never revised; each action
of the verdict recorded once and announced once; completed only when all are
announced. `Mesh` implements it with the recorded attribution as verdict.

### Pipeline (`mesh/runner.py` `consume`, `mesh/triage.py`)

`PublishAlert` is the edge runtime, which publishes in data time. `Poll` is
`bus.claim` and the filter on `seen`; `Feed` is `Triage.feed` on one message;
`Drain` is `Triage.drain`; `OpenSession` and `CloseSession` are the graph;
`AckAlert` is one `bus.ack`, whose result the code does not look at. `Crash` ends
a run anywhere, `TimeOut` is `fut.result` giving up while leaving the pool waits
for the graph. `cut` is history: the alerts a run held when it was cut short. A
session is the set of its alerts, as the idempotency key is. `Tick` of the bus
lets leases run out at any point.

`Handling` is what the loop promises, without leases, attempts, batches, windows
or open sessions: alerts are taken in hand, put into a session that ends, and only
then let go; no alert is in two sessions, and none is given up by the bus before
it is handled, except alerts in hand at the moment a run was cut short (`cut`). In
the mapping an alert is in hand from the claim to its acknowledgement, wherever
the run keeps it (`InHand`). `ImplementsHandling` is the refinement;
`NothingDropped` says the same of single states.

### NodeApi (`security/jwt.py`, `nodeapi/app.py`, `deps.py`)

All node APIs and the requests on their way. FastAPI runs the synchronous handler
in a pool of threads, so a request is handled in three steps that interleave with
those of others: `CheckClaims` (`verify` up to its look at the clock),
`AddToCache` (`ReplayCache.add`, under its lock, with a look of its own) and
`Serve`. `Send` is `mint` and the GET; `Redeliver` lets a token that was sent
arrive again, at any node; `Remove` takes a request off the wire, answered or not;
`RestartApi` empties a cache. A token is the time it is still valid (`life`, which
`ApiTick` counts down); `int(clock())` in `mint` can cost it one tick. A `jti`
that no request and no cache knows any more may come up again, which stands for
the unbounded supply of new ones. `accepted` is history: the valid tokens that got
past the cache.

### Hop (`mesh/investigator.py`, `breaker.py`, `nodeclient.py`)

`EXTENDS NodeApi`: the mesh's investigator with its breakers as the client of
these APIs. `pc` is its place in `run`:

| Code | Actions |
|---|---|
| `plan_hops`; end of the loop or deadline | `StartSession`; `EndSession` |
| `br.allow()` | `Admit`, `Refuse` |
| one attempt: `remaining`, `client.evidence` | `GiveUp`, `Call` |
| 200; another status; 503; the timeout; the connection fails | `Succeed`; `Fail`; `Busy`; `Abandon`; `LoseConnection` |
| `TransientNodeError`: back-off, or the last attempt | `Transient` (part of the three above), `WakeUp` |
| `br.success()`, `br.failure()` | `Success`, `Failure` (parts of the above) |
| kill and restart of the mesh; other things that happen to requests | `Crash`, `Restart`; `Repeat`, `Lose` |

Only waiting takes time: `Tick` counts down `timer`, the rest of the call's
timeouts or of the sleep. A call can take its read timeout and, before that, two
connection timeouts: httpx applies `connect` to TCP and to TLS in turn.
`max_retries`, `deadline_s` and the others are constants in ticks; the back-off is
any time up to `MaxSleep`. The breakers outlive a session and are reset by a
crash; hops recorded before the crash are not made again, which is what `todo`
keeps. `streak` and `spared` are history: what a node did, whatever its breaker
believes.

### Sealed and FinalRuns (`evaluation/sealed.py`, `federated/run.py`, `experiments/grid.py`, `evaluation/checker.py`, ...)

`Sealed` has the repository and the access log. `Frozen` is `frozen_problem`: a
clean tree outside `results/`, and commits since the tag that change `results/`
only. `CommitResults`, `EditFiles` and `RestoreFiles` are its owner, who may do
this at any time. A commit of other files makes every later access fail until it
is taken back, as an edit does, and is modelled as one.

`FinalRuns` has the processes of `federated/run.py` (`proc`: clients still to be
read, scores written or not), the two files of every run, and the grid. `Begin`
is `main` up to the first test read, with the check for the artifact; `ReadTest`
is `load_partition` with `authorise`, for one client; `WriteScores` and
`WriteArtifact` are the two steps of `write_result`; `Kill` ends a process
anywhere. The grid's actions follow its loop: `GridStart` makes the list,
`GridRun` starts the next child in order of `Rank`, `GridRefused` is a child that
finds its artifact made by now, `GridNext` goes on after it, `GridStops` is the
time budget or a kill. `StartByHand` is a manual start beside it. Attempts have
the run ids; each writes scores of its own (which is what makes a mixed-up pair of
files visible). `Accepted` is the checker. `moved`, `split` and `overlapped` are
history: during which attempts the repository changed at all, which of them saw a
commit after their first read, and of which runs two attempts ran at a time.

### Federation (`federated/`, `privacy/`, `models/dp_train.py`)

Variables: the ledgers and the registry (files, which survive), `released` (what
has left each node, known to nobody), the server's place and lists, and the call
in progress. The server asks one client at a time.

| Code | Actions |
|---|---|
| `Server.run`: `register`; `hello`, its charge and its reply; quorum | `StartRun`; `HelloSpend`, `HelloRefused`, `HelloReply`; `EndHello` |
| one node in a round | `SkipExhausted`, `DropOut`, `AskFit` |
| `fit_private`: `guard.spend` before each step; `BudgetExhausted` | `FitStep`; `FitDecline` |
| the reply, in time or late | `FitReply` |
| aggregation, log, next round | `EndRound` |
| `_h1c`, `release_reserved` | `AskThreshold`, `ThresholdReply`, `Finish` |
| `FlowerPool._ask` raises; the process is killed | `CallFails`; `Crash` |

A history of releases is a number, its privacy loss in units of one DP-SGD step,
and the target epsilon is the largest number allowed. Renyi losses of releases
add up and epsilon is monotone in them, so this keeps which releases fit and in
what order they stop fitting, but not the size of any epsilon. `guard.spend`
(check and write) is one action: a client is alone with its file, and the file is
replaced atomically, so a kill in between is a kill before or after. Steps of a
round are drawn from 1 to `MaxSteps` (`local_epoch_choices`). The nodes of
a round are asked in any order; the code's fixed order is one of them. All
clients are private and train (the centralised and local-only baselines are
pools of their own over the same code). A run may be started again under the
same run id, as `accountant_store.py` and the `run_id` parameter of `run.py`
foresee; ledger and registry are then the old ones.

`Ledger` is what the accounting promises for each node, without rounds, calls,
registry rows or runs: a loss is charged before what it pays for leaves the node,
a charge leaves the reserve alone unless it is for the one release per run that the
reserve is kept for, what is thrown away stays charged, and a node is retired only
when there is no room for a step. `ImplementsLedger` is the refinement: `open` is
what the call in progress has charged, a node is retired when it is exhausted.

## 3. Runs

| Run | Specification | What it shows | Bounds and why they are enough |
|---|---|---|---|
| `bus` | `Bus!FairSpec` | leases are exclusive, verdicts final, rows consistent, every message settled; implements `Delivery` | three messages and batches up to two, so that a claim can dead-letter, lease and leave a message behind at once; two consumers, so that a late one meets the next holder; two attempts (the last one differs from the others), lease of two ticks (running, last tick, over), one tick of delay |
| `mesh` | `Mesh!FairSpec` | resumption repeats nothing and leaves no gap, the approval gate holds, one attribution, statuses tell the truth of the recorded investigation, a run that is not killed closes the session whatever the crashes before it left; implements `Incident` | two nodes (one hop made, one to make); two crashes, so that a resumed run is killed again; two operators; one technique with both confidences, so that two different answers exist beside abstention; all severities |
| `pipeline` | `Pipeline!PFairSpec` | no alert is acknowledged unhandled, none is grouped twice in a run, only an alert in the hands of a run that was cut short can be in two sessions, be dropped or stay in a session left open, the other incidents are chains in data time, every other alert is handled in the end; implements `Handling` | three alerts of which the third closes the group of the first two; batch of two, smaller than the topic; three attempts and leases of two ticks, so that leases run out in a session and attempts can be used up; two failures, so that there are runs after a cut and a cut in them |
| `federation` | `Federation!FairSpec` | every ledger covers what left its node and stays within its budget, the H1c reserve survives training, the registry agrees with the logs and these count every node, a calibrated budget lasts for a first run, a run ends; implements `Ledger` | two nodes: the budget of one is exactly calibrated (1 + 3 rounds of 2 steps + 1), the other's runs out in the second or third round; three rounds and `degrade_after` two, so that a node can be degraded, come back and be missed again; a first run and a rerun, which meets half-spent ledgers and old counts |
| `hop` | `Hop!FairSpec` | an investigation ends in time and always ends, a node that failed is left alone, no token is accepted twice, a full cache refuses only for valid tokens | 566,061 states. Either one node whose requests may stay late on the wire or be repeated, or a plan of two nodes without late requests (`Worlds`: both at once is beyond TLC; the proofs have no such bound); two requests at a time, one waited for and one late; a deadline of two ticks and a timeout of two, so that one call can use it up, with a connection timeout of one and a back-off of one, so that both margins are reached; one retry; two failures open a breaker for two ticks; a cache of one token, which is full after the first request, and tokens valid for one tick and one of leeway, so that they expire in the cache and on the wire; three values of `jti`, so that there is always a new one; one crash |
| `final_runs` | `FinalRuns!FairSpec` | what proper attempts write is accepted, what was read before a commit and written after it is not, a completed run is never repeated, all runs get done | 58,187 states. Two runs of different priority; two clients, so that something can happen between two reads; two events from outside (`MaxEvents`: kills, manual starts, commits, edits, a grid that stops), so that an attempt can be killed and another overlap with its repetition, or the grid stop and its child run on beside the next one; four attempts, as many as can leave a trace with two events |
| `federation_no_reply` | `Federation!Spec` | counterexample | as `federation` |
| `mesh_degraded`, `mesh_evidence`, `mesh_decisions` | `Mesh!Spec` | counterexamples, section 6 | as `mesh` |
| `pipeline_sessions` | `Pipeline!PSpec` | counterexample | as `pipeline`, one failure is enough |
| `pipeline_drain` | `Pipeline!PSlowSpec` | counterexample, without any failure | the caller of `tests/chaos/worker.py`: leases of one tick, claims of one alert; only sessions take time (`PSlowSpec`), so that a lease runs out during a session and nowhere else; three alerts, of which each closes the incident of the one before |

Deadlock is checked in the runs of `Bus`, `Mesh`, `Pipeline`, `Hop` and
`FinalRuns`, which never stop (time passes; a closed incident can be delivered
again; the grid can be started again). It is not checked in
those of `Federation`: after the last run nobody starts another. Bounds in
guards: `MaxCrashes` in `Mesh` and `MaxFailures` in `Pipeline` limit how often
processes die: `EventuallyHandled` needs a last cut, and both are counted; `MaxRuns` in
`Federation` limits the runs, each of which adds to ledgers and counts.
`MaxCrashes` in `Hop` is per session, `MaxEvents` in `FinalRuns` for the campaign:
both again because of liveness. `MayStay` in `Hop` keeps a place for the requests
of the mesh, and `Failure` stops counting at the threshold. No other
action is bounded: `created` and `attempts` are bounded by the code itself, and
losses by the budgets.

What the main properties rule out, in short:

- `SettledOneWay`, `RowsConsistent`: `ack` does not test `failed_at` and the
  `UPDATE` of `claim` does not test `lease_owner`; each relies on columns the
  other one clears.
- `LeaseNotStolen`, `SettledForGood`: action properties over all consumers.
- `HopsKept`, `OneAttribution`, `CompletedTruly`, `NeverRaises`:
  consequences of crashes between commits, together the graph's promise to resume.
- `HighImpactGate`, `DecisionsKept`: the mesh re-inserting rows and publishing them
  after a restart while operators decide.
- `HopsKept`, `CompletedTruly` and `DecisionsKept` also contain the claims of
  section 6, with the crashes after which they still hold.
- `ImplementsHandling`, `FedOnce`, `HandledOnce`, `IncidentsChained`: consume over
  leases that run out and runs cut short, on the real bus operations. Each is stated
  for the single alert: what a cut may do to the alerts in hand (join them to another
  group, put them in a second session, leave their first one open) it must not do to
  others, neither in that run nor in later ones. `HandledOnce` also counts: at most
  one session is left open for each cut. `AckedIsHandled` (no alert is
  acknowledged unhandled) is a consequence of the first and proved as well.
- `EndsInTime`: the deadline is looked at before each call only; what may come
  after it (a call's connection, a back-off) adds up once, not once per hop.
- `FailingNodeSpared`: the breaker's state, its counter and its clock over
  sessions, retries and probes, against what the node did.
- `NoTokenTwice`, `RefusedOnlyWhenFull`: the cache must forget neither too early
  (a token within its leeway would pass again) nor too late (the node would refuse
  everybody). `NoTokenTwice` is about tokens still valid at the cache's own look
  at the clock; see section 6 for the others.
- `AcceptedRightly`: the checker's four conditions relate two files, the
  log and two moments of the repository, after any kills. What was undisturbed is
  accepted (`AcceptedUnlessDisturbed`), and what one version of the code read and
  another one scored is rejected (`RejectedIfSplit`).
- `NeverRepeated`: the check in `main`, made once, against lists that are stale and
  processes nobody waits for.
- `BudgetKept`: relates the file to what left the node, over replies the server
  discards, calls that fail, kills between charge and reply, and reruns.
- `H1cComplete`, `PlannedRunNeverDeclines`: what `client_budget.py` is for. The
  first means that a client never takes the branch that declines the histogram.
  The second holds for a first run only: a rerun pays round 0 again.
- `ImplementsLedger`: charges, releases and retirements over guards that look at
  different reserves, in the only orders the promise allows. `ExhaustedIsSpent` is
  a consequence of it and proved as well.
- `RegistryAndLogsAgree`: the registry's two columns, changed under different
  guards, against the server's own logs.

## 4. Fairness

- `Bus`: time passes (`WF` of `Tick`) and each topic keeps being polled by
  somebody (`WF` of `Claim`). Nothing is assumed of `Ack` and `Release`: every
  consumer may crash for ever and messages are still settled, as dead letters.
- `Mesh`: a run of the graph that has been started goes on until it ends or is
  killed (`WF` of `RunOn`): it is one call of `app.invoke`, every step of which
  returns. Nothing is assumed of who starts it: the code starts it again after a
  crash only if the alerts are delivered again and form the same group, which
  `Pipeline` shows they need not. `EveryRunCloses` is therefore about a run, not
  about an incident. Nothing is assumed of operators either.
- `Pipeline`: a consume run is scheduled, and is called again after it ended or was
  killed (`WF` of `Run`), and time passes. That it is called again is an assumption
  about whoever operates the mesh, as `tests/chaos` does with its worker; no loop of
  the code does it: `runner.main` calls `consume` once, on a fresh copy of the edge
  run's database. Only `EventuallyHandled` needs it. Since cuts are
  bounded, *eventually* there means after the last one, and the alerts it excuses
  are those a cut run held: they may end as dead letters that nobody handled. With
  more attempts TLC still finds such alerts, because a run's own re-claims use up
  attempts.
- `PSlowSpec` (run `pipeline_drain`) assumes only that `consume` goes on.
- `Federation`: calls return and the server goes on (`WF` of `Progress`: `_ask`
  has a timeout, the in-process pool calls functions). Nothing is assumed of who
  starts runs, and a run may be killed at any point.
- `Hop`: the investigator goes on and is started again after a crash (`WF` of
  `Investigate`), and time passes. Nothing is assumed of the APIs and the network:
  they may never answer. Since the timeouts are the investigator's own, this is
  enough.
- `FinalRuns`: a process that is not killed goes on (`WF` of `Proceed`, for each);
  the grid runs and is started again as long as its owner wants runs (`WF` of
  `Grid`: `grid.py` says a failed run "runs again ... the next time the grid is
  started"); and edits are taken back (`WF` of `Restore`), without which every
  access is refused for ever. Nothing is assumed of manual starts.

## 5. Proofs

The theorems hold for all sets of messages (finite), consumers, topics, nodes,
techniques, operators and all numbers, under the named assumptions in the
modules (`BusAssumption`, `MeshAssumption`, `PipelineAssumption`,
`NodeApiAssumption`, `HopAssumption`, `FederationAssumption`,
`FinalRunsAssumption`), which TLC also evaluates. They say only that limits are
positive, that NULL is no value of a column, that a run has a client, that the plan fits in the hop
budget
(`plan_hops` is cut to it), and that a budget covers the one-off releases (else
`calibrate` refuses to plan).

**BusProofs.** `IInv` is the conjunction of the type invariant and the three
state invariants; they need each other. `SettledOneWay` is preserved by `Ack`
because an owned row is not failed, and by `Claim` because a free row that
exhausted its attempts loses its owner; `AttemptsRespected` needs that a claim
returns no exhausted row. Both action properties and the refinement
(`BusImplementsDelivery`) follow from `IInv` by one lemma per action.

**MeshProofs.** That the graph never requests a refused transition depends on
which steps can be recorded at which status. `TablesAgree` says this of the
tables alone, so a crash keeps it; `ProcessAgrees` says what the process holds at
each `pc`. `IInv` joins them with the properties, and one lemma per action shows
it inductive; `OutboxComplete` follows from it. `MeshImplementsIncident` maps each
commit to a step of `Incident` or a stutter. The one case with real content is
`RecordAttribution` after a crash: the answer in memory differs from the recorded
one only if there was none.

How far three documented claims hold that a crash can break (section 6) needs what
`IInv` does not say. `EvidenceKept`: until the second crash, every successful hop's
records are in its step, or in memory, or in the recorded investigation, wherever
the first crash struck. `FirstRun`: until the first one, `degraded` is exactly
"some hop was not ok", and a step without a hop is that of the node being asked.
`MeshRemembers` proves both invariant, and `HopsKeptHolds` and `CompletedTrulyHolds`
follow. `DecisionsKeptHolds` and `OnlyApiCrashLosesDecisions` rest on one lemma:
any other step than a crash of the API leaves every decision published or in flight.
`AnnouncedAsRecorded`, part of `DecisionsKept`, is inductive with types alone.

**PipelineProofs.** `Pipeline` is a user of the bus, so `PipelineUsesBus` shows
that each of its steps is a bus step or leaves the bus alone, and the bus's
invariants carry over. `RunInv` adds what a run holds: lists without
repetition, in disjoint places, all of them seen; the incident's session in the
store from `session` to `ack`; and that nothing in the inbox or the open group
is in a session already, except alerts of `cut` (`NotAgain`), which is what
`HandledOnce` needs when leases run out. `IncidentsChained` needs more: alerts are
published in data time and a claim takes the oldest, so apart from alerts of `cut`
everything seen is older than everything unseen (`RowsInOrder`, `InOrder`),
also when leases run out and old alerts are claimed again, and in the runs after a
cut; so `feed` only ever appends to a chain, unless an alert of `cut` is in it
(`Chains`).

`NothingDroppedHolds` and the refinement `PipelineImplementsHandling` rest on
`Owed`: everything that was handed out and not handled is in the run's inbox, group
or incident or in `cut`, and an incident in a session shares with the sessions that
ended only alerts of `cut`. Each step then is a
step of `Handling` or a stutter: a claim takes what was not in hand and gives up
only what is handled, in hand or in `cut`, and `EndIncident` and the acknowledgements only
let go what a closed session holds.

**NodeApiProofs.** `ApiInv` says that, among the valid tokens, a cache holds
exactly those its API accepted (`Remembered`), and that a token has one audience
wherever it is (`OneAudience`). Pruning keeps the first because it drops by the
same comparison that `add` uses; the second is why another node's cache, which
knows nothing of the token, is never asked. `ApiNoTokenTwice` and
`ApiRefusedOnlyWhenFull` follow for each step.

**HopProofs.** `HopUsesApis`: every step of the composition is a step of the APIs
or leaves them alone, hence the two theorems hold of `Hop`. For the investigator
itself, `Timely` bounds `elapsed + timer` by place: a call is made only before the
deadline and its timeouts are cut to what remains; a sleep starts at most where a
call can end. `Informed` says that a breaker knows what the history knows: it is closed
exactly as long as fewer than `Threshold` failures in a row are on record, an open
one counts its time from the last of them, and a half-open one has waited long
enough. `Admitted`: the node that is asked is not behind an open breaker.

**FinalRunsProofs.** `Alone`: processes of a run that is not `overlapped` are
alone; `NoneAfterTheEnd`: nobody works on a completed one. `ReadsLogged`: an
attempt during which nothing moved has entries, at the present commit and a clean
tree, for all clients it has read; `ScoresKept` that the scores of a run are those
of the attempt that is about to write the artifact. With these
`AcceptedUnlessDisturbed` is inductive, although `moved` and `overlapped` only say
what did not happen. The other half of `AcceptedRightly` rests on `SplitInv`: no
entry is of a later commit than HEAD, an attempt reads no client twice (`ReadsOnce`),
and so one in `split` keeps a client of which all its entries are older than HEAD, and
later older than its artifact (`SplitHasOldRead`).

**FederationProofs.** All six safety properties follow from one invariant with
five more parts. `Calls`: at most one call is in progress, of a node still to be
dealt with. `ReserveKept`: from its answer in round 0 until it charges the
histogram, a node's ledger has room for it, because every guard counts the
reserve; so none is declined and `Histograms` holds. `Growth`: after k rounds a first run has charged at most the
histograms and k times `MaxSteps`; with a little arithmetic (`Products`) a
refused step contradicts a calibrated budget. `Rounding`: the outcome of a round
is about the nodes already asked; with `TrailingAppend` (one more log adds one to
the misses in a row or ends them) this is what `RegistryTellsMisses` needs.
With `Accounted` (what is known of a round's outcome while it is collected) it gives
`RegistryAndLogsAgreeHolds`: each logged round counts every node that is not
exhausted, and none twice. The refinement `FederationImplementsLedger` has one lemma
for each kind of step of `Ledger` (`LedgerCharge`, `LedgerReply`, `LedgerDiscard`,
`LedgerDecline`) and needs one invariant more, `OncePerRun`: the reserved release is
charged once in a run, because a node is asked for it once.

**PromisesProofs.** What the four abstract specifications imply by themselves, for
all constants with the hypotheses each theorem names (the abstract modules assume
nothing): safety (`DSafe`, `HSafe`, `ISafe`, `LSafe`) and what no step may do
(`DFinal`, `IFinal`, `LFinal`). They say in a few lines what a user of the bus, the
loop, the graph or the ledger may rely on, and show that the promises are strong
enough to be worth implementing. Since the detailed specifications
implement them, they hold there under the mappings.

Model-checked only: the liveness properties `EventuallySettled`,
`EveryRunCloses`, `EventuallyHandled`, `EventuallyEnds`, `EventuallyInvestigated`
and `EventuallyComplete` (liveness under fairness is out of the prover's reach).
Every safety property of the passing runs and all four refinements are proved, the
refinement of `Delivery` also for the pipeline. What stays out of reach besides
liveness: that the documented claims of section 6 fail is shown by TLC's
counterexamples, their limits by the theorems named there.

## 6. Disagreements found

Each is a run that TLC must find violated; the findings in `PROJECT.json` quote
the lines.

1. `mesh_degraded`: after a crash in an investigation, `Investigator.run` restores
   the hops but starts with `degraded = False`. The session then ends `COMPLETED`
   although a hop met an open breaker or the deadline.
2. `mesh_evidence`: a hop's step is written before its row and never replaced. If
   the process dies between the two, the node is asked again, and if it now
   answers, its records are not in the step: a second crash loses them.
3. `mesh_decisions`: `decide` commits the row, then publishes. A kill in between
   loses the message, and a repeated request is refused.
4. `pipeline_sessions`: redelivered alerts can form another group (some
   of the first one are acknowledged already), hence another key and a second
   session for the same alert. `sessions.py` promises the existing one.
5. `pipeline_drain`: the loop ends at a claim without a fresh alert. When leases
   run out during a session, the oldest claimable rows are the alerts of the incident
   that is open meanwhile, which it has seen; with the limit filled by them it leaves
   unseen alerts behind. This takes a caller with leases shorter than a session and a
   small batch, as `tests/chaos/worker.py` (`lease_s=1.0, batch=1`): in TLC's trace the
   second alert's lease runs out during the session on the first, and the third is
   never claimed. `runner.main` leaves the lease at `max(3600, 4 * worker_timeout_s)`
   and the limit at 100, with which it does not happen.
6. `federation_no_reply`: a node that does not reply, or whose call fails, makes
   the pool raise out of `Server.run`; the run ends and no miss is recorded,
   whereas `registry.py` counts "no reply" as a miss.

What remains true of these claims is proved: 1 holds, with its converse, as long as
nothing crashed (`CompletedTrulyHolds`); 2 after any one crash (`HopsKeptHolds`); 3
in every step that is not a crash of the approval API (`OnlyApiCrashLosesDecisions`);
4 until the first run is cut short (`SessionsReusedUnlessCut`), and afterwards for all
alerts that no such run held (`HandledOnceHolds`); 6 for every call
that does not fail (`AskedIsRecorded`).

`tests/chaos/test_chaos.py:1` sums up its scenarios as "every session terminal". The
model agrees for a graph that is run again on the same incident
(`EveryRunCloses`), but not for the loop as a whole: after a crash the
incident's alerts may form another group or become dead letters, and then the first
session is never opened again and stays open for ever. The scenarios do not
meet this case: a session of theirs has the alerts it had before the kill.
`HandledOnce` says how far it goes: at most one such session for each cut, with
alerts of that cut only.

Seen while modelling, without a run of their own: the memory bus orders a claim
by the stamp alone; the action message published after a resumption carries
the initial status even if an operator decided meanwhile; a rerun of a federated
run under the same run id pays the normalisation histograms a second time, so
that a budget calibrated for one run does not last for it, and a
node that is exhausted in the registry is skipped in the rerun from the start.

Likewise in `NodeApi`, `Hop` and `FinalRuns`:

- `verify` looks at the clock (`security/jwt.py:145`) before the replay cache does
  (`:85`). A token that is accepted before and expires between the two looks of a
  repetition is accepted a second time: the cache no longer counts its entry.
  `NoTokenTwice` therefore speaks of tokens valid at the second look.
- A half-open breaker admits a whole hop, not one call: a failing probe can make
  `max_retries + 1` calls.
- The deadline does not cut a back-off, and the read timeout covers neither the
  TCP nor the TLS connection; `Latest` in `Hop` is what remains true.
- A commit under `results/`, which `frozen_problem` allows, made while a final run
  is under way moves HEAD: its access entries then have another `git_sha` than its
  artifact, the checker rejects it (`evaluation/checker.py:114`), and since the
  artifact exists the run is never repeated. The rejection is what `RejectedIfSplit`
  asks for; that nothing repeats the run is the disagreement.
- `_access_problems` (`evaluation/checker.py:103`) takes entries of other run ids for
  attempts that crashed, since "only a crashed attempt can leave them". Two attempts
  that overlap, one by the grid and one by hand, can both complete; the later
  artifact replaces the earlier one, and the first one's entries look like a crash.
  Hence `overlapped`, which `NeverRepeated` excludes as well.
- Breakers forget what they knew when the mesh is restarted; `FailingNodeSpared`
  counts from the last restart.

## 7. What is not modelled

- Numerical code: models, scoring, noise, privacy calibration, embeddings,
  statistics. TLC has neither reals nor a use for them.
- Text: prompts, rendering, redaction, reports, tracing.
- Cryptography and TLS, process start and stop: library calls without state of
  this code to interleave.
- In `Mesh`: how the agent arrives at its answer (LLM client, retrieval, rules: no
  state, and any answer is allowed), several incidents at once (tables are keyed by
  session, one process runs one session at a time), tokens of the approval API
  (a request is one with a valid token).
- In `Pipeline`: scores of incidents, several consume processes under the same
  consumer name at once, sites beside each other (every site has its own topic
  and database keys), and the edge runtime's evidence (two idempotent writes of one
  process, in a fixed order).
- In `Bus`: equal creation stamps; reads (`pending`, `dead`, `stats`).
- In `NodeApi`: clocks of hosts that differ; claims that are the same in all
  requests of the mesh (issuer, scope, site, window); `healthz`; the start of the
  process. In `Hop`: the two commits of a hop (they are in `Mesh`), records, time
  spent between calls, in the connection pool or in writing a request, answers that
  arrive in pieces (httpx's read timeout is one per read, so a node that
  sends slowly can hold a call longer than the model's).
- In `FinalRuns`: the entry points of the edge runtime and of the mesh with
  `--final`, which use `authorise` the same way; runs whose partitions are missing,
  which the grid skips; the extra score files of H1c; several seeds in one
  process; the tag itself, which is taken to stay; two attempts of a run that start
  within one second and so share a run id.
- In `Federation`: weights, aggregation strategies and evaluation (only that their
  calls can fail), the test part, clients without privacy, a ledger opened with
  another target (`StoreMismatchError`), the size of epsilon, the slack of the
  guard's comparison.
- Whole components, each with its reason in `PROJECT.json`: the in-memory bus (a test
  double), the LLM client, secure aggregation, certificates and egress, the process
  stack, knowledge base, data preparation, statistics, experiments, feasibility
  benchmarks, tracing.

The definitions stand for about 1,500 lines of the repository's 25,000. Most of the
rest is of the first three kinds above: the longest files are experiments,
baselines, data preparation and benchmarks, whose content is numbers and reports,
and command lines that parse options and print. They keep no state that two actors
share and take no steps whose order could go wrong, so there is nothing in them
for a model of this kind to say.
