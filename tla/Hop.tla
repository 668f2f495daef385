-------------------------------- MODULE Hop --------------------------------
(***************************************************************************)
(* The hops of an investigation in time (mesh/investigator.py, breaker.py, *)
(* nodeclient.py), over the node APIs: the deadline all hops share, the    *)
(* retries with back-off, the circuit breakers, and calls whose answer is  *)
(* late or never comes.  Mesh keeps the records, the outcomes and the      *)
(* commits of a hop; here a hop is recorded at once.                       *)
(*                                                                         *)
(* Only waiting takes time: the steps between two calls take none, nor do  *)
(* writing a request and taking a connection from the pool, and an answer  *)
(* arrives in one read (httpx's read timeout is one per read).  As in      *)
(* NodeApi, stamps are modelled by the time that has passed or remains.    *)
(***************************************************************************)
EXTENDS NodeApi, Sequences

CONSTANTS
  Worlds,          \* [plans, late]: sequences plan_hops returns; requests may be late
                   \* or repeated (bound: TLC cannot do with long plans and late requests)
  Deadline,        \* Investigator.deadline_s
  Timeout,         \* Investigator.timeout_s
  ConnectTimeout,  \* connect_timeout_s
  MaxRetries,      \* Investigator.max_retries
  MaxSleep,        \* the longest back-off before the last attempt
  Threshold,       \* CircuitBreaker.threshold
  OpenSeconds,     \* CircuitBreaker.open_seconds
  MaxCrashes,      \* how often the mesh dies in one session (bound)
  None             \* no call in progress

VARIABLES
  world,    \* the member of Worlds this behaviour is in
  pc,       \* where the investigator is; "down": to be started again
  todo,     \* hops to make, that of the current node first
  elapsed,  \* clock() - t0
  attempt,  \* attempt
  timer,    \* time until the call or the sleep ends
  call,     \* the place of the request that is waited for
  state,    \* CircuitBreaker.state
  failures, \* CircuitBreaker.failures; not counted beyond Threshold
  openFor,  \* clock() - opened_at of an open breaker, up to OpenSeconds
  streak,   \* hops of a node that failed in a row, up to Threshold (history)
  spared,   \* time since the last of them, up to OpenSeconds (history)
  crashes   \* crashes of the mesh in this session (bound)

session  == <<todo, elapsed, attempt, timer, call, crashes>>
breakers == <<state, failures, openFor>>
history  == <<streak, spared>>
hopVars  == <<world, pc, session, breakers, history>>
vars     == <<apiVars, hopVars>>

Least(a, b) == IF a <= b THEN a ELSE b

\* What an investigation may take in all: the last call connects (TCP, then TLS)
\* outside its read timeout, and a back-off is not cut at the deadline.
Latest == Deadline + 2 * ConnectTimeout + MaxSleep

ASSUME HopAssumption ==
  /\ Worlds \subseteq [plans : SUBSET Seq(Node), late : BOOLEAN]
  /\ Deadline \in Nat \ {0}
  /\ Timeout \in Nat \ {0}
  /\ ConnectTimeout \in Nat
  /\ MaxRetries \in Nat
  /\ MaxSleep \in Nat
  /\ Threshold \in Nat \ {0}
  /\ OpenSeconds \in Nat
  /\ MaxCrashes \in Nat
  /\ None \notin Request

HopTypeOK ==
  /\ world \in Worlds
  /\ pc \in {"idle", "loop", "try", "wait", "sleep", "down"}
  /\ todo \in Seq(Node)
  /\ elapsed \in Nat
  /\ attempt \in 0..MaxRetries
  /\ timer \in Nat
  /\ call \in Request \cup {None}
  /\ state    \in [Node -> {"closed", "open", "half_open"}]
  /\ failures \in [Node -> 0..Threshold]
  /\ openFor  \in [Node -> 0..OpenSeconds]
  /\ streak   \in [Node -> 0..Threshold]
  /\ spared   \in [Node -> 0..OpenSeconds]
  /\ crashes \in 0..MaxCrashes

TypeOK == ApiTypeOK /\ HopTypeOK

Init ==
  /\ ApiInit
  /\ world \in Worlds
  /\ pc = "idle" /\ todo = <<>> /\ elapsed = 0
  /\ attempt = 0 /\ timer = 0 /\ call = None
  /\ state    = [n \in Node |-> "closed"]
  /\ failures = [n \in Node |-> 0]
  /\ openFor  = [n \in Node |-> 0]
  /\ streak   = [n \in Node |-> 0]
  /\ spared   = [n \in Node |-> 0]
  /\ crashes = 0

-----------------------------------------------------------------------------
(* The circuit breaker of one node *)

Allows(n) == state[n] # "open" \/ openFor[n] >= OpenSeconds

\* success
Success(n) ==
  /\ state'    = [state    EXCEPT ![n] = "closed"]
  /\ failures' = [failures EXCEPT ![n] = 0]
  /\ openFor'  = [openFor  EXCEPT ![n] = 0]
  /\ streak'   = [streak   EXCEPT ![n] = 0]
  /\ spared'   = [spared   EXCEPT ![n] = 0]

\* Mutation: one failure too many is let pass.
TripsLate(n) == state[n] = "half_open" \/ failures[n] >= Threshold

Trips(n) == state[n] = "half_open" \/ failures[n] + 1 >= Threshold

\* failure
Failure(n) ==
  /\ failures' = [failures EXCEPT ![n] = Least(@ + 1, Threshold)]
  /\ state'    = [state   EXCEPT ![n] = IF Trips(n) THEN "open" ELSE @]
  /\ openFor'  = [openFor EXCEPT ![n] = IF Trips(n) THEN 0 ELSE @]
  /\ streak'   = [streak  EXCEPT ![n] = Least(@ + 1, Threshold)]
  /\ spared'   = [spared  EXCEPT ![n] = 0]

-----------------------------------------------------------------------------
(* Investigator.run *)

\* The next incident; hops of an earlier one are not in its plan.
StartSession ==
  /\ pc = "idle"
  /\ \E p \in world.plans : todo' = p
  /\ pc' = "loop"
  /\ elapsed' = 0 /\ crashes' = 0
  /\ UNCHANGED <<apiVars, world, attempt, timer, call, breakers, history>>

\* The loop is through, or broken off at the deadline.
EndSession ==
  /\ pc = "loop"
  /\ todo = <<>> \/ elapsed >= Deadline
  /\ pc' = "idle"
  /\ todo' = <<>> /\ elapsed' = 0
  /\ UNCHANGED <<apiVars, world, attempt, timer, call, crashes, breakers, history>>

Turn == pc = "loop" /\ todo # <<>> /\ elapsed < Deadline

\* allow returns True, and an open breaker becomes half open.
Admit ==
  /\ Turn
  /\ Allows(Head(todo))
  /\ state' = [state EXCEPT ![Head(todo)] = IF @ = "open" THEN "half_open" ELSE @]
  /\ openFor' = [openFor EXCEPT ![Head(todo)] = 0]
  /\ pc' = "try" /\ attempt' = 0
  /\ UNCHANGED <<apiVars, world, todo, elapsed, timer, call, crashes, failures, history>>

\* allow returns False: outcome breaker_open.
Refuse ==
  /\ Turn
  /\ ~Allows(Head(todo))
  /\ todo' = Tail(todo)
  /\ UNCHANGED <<apiVars, world, pc, elapsed, attempt, timer, call, crashes, breakers, history>>

Remaining == Deadline - elapsed

\* Mutation: every call gets the full timeout.
FullTimeout == Timeout + 2 * Least(ConnectTimeout, Timeout)

\* The timeouts of one call: the read timeout is what is left of the deadline,
\* at most, and so is the one of each of the two phases that connect.
CallTime ==
  LET t == Least(Timeout, Remaining) IN t + 2 * Least(ConnectTimeout, t)

\* Which place and which jti a request takes is of no account.
Places == IF \E r \in Request : ~Open(r) THEN {CHOOSE r \in Request : ~Open(r)} ELSE {}
NewTokens == IF \E j \in Token : Fresh(j) THEN {CHOOSE j \in Token : Fresh(j)} ELSE {}

\* client.evidence, up to the request.
Call ==
  /\ pc = "try"
  /\ elapsed < Deadline
  /\ \E r \in Places, j \in NewTokens : Send(r, j, Head(todo)) /\ call' = r
  /\ timer' = CallTime
  /\ pc' = "wait"
  /\ UNCHANGED <<world, todo, elapsed, attempt, crashes, breakers, history>>

\* The outcome of the hop is not ok: the breaker is told and the hop recorded.
FailHop ==
  /\ Failure(Head(todo))
  /\ pc' = "loop" /\ todo' = Tail(todo)
  /\ attempt' = 0 /\ timer' = 0 /\ call' = None
  /\ UNCHANGED <<world, elapsed, crashes>>

\* No time is left for the attempt: outcome deadline.
GiveUp ==
  /\ pc = "try"
  /\ elapsed >= Deadline
  /\ FailHop
  /\ UNCHANGED apiVars

\* Mutation: the last attempt is followed by another.
RetriesLeftAlways == attempt <= MaxRetries

RetriesLeft == attempt < MaxRetries

\* TransientNodeError: the attempt is repeated after a back-off, or was the last.
Transient ==
  \/ /\ RetriesLeft
     /\ timer' \in 0..MaxSleep
     /\ pc' = "sleep" /\ call' = None
     /\ UNCHANGED <<world, todo, elapsed, attempt, crashes, breakers, history>>
  \/ /\ ~RetriesLeft
     /\ FailHop

\* Mutation: an attempt that failed is not counted.
WakeUpUncounted ==
  /\ pc = "sleep" /\ timer = 0
  /\ pc' = "try"
  /\ UNCHANGED <<apiVars, world, todo, elapsed, attempt, timer, call, crashes, breakers, history>>

WakeUp ==
  /\ pc = "sleep" /\ timer = 0
  /\ pc' = "try" /\ attempt' = attempt + 1
  /\ UNCHANGED <<apiVars, world, todo, elapsed, timer, call, crashes, breakers, history>>

\* The request that is waited for has not been lost.
Pending == call # None /\ Open(call)

Answer == IF Pending THEN req[call].stage ELSE "none"

\* 200: the hop is made.
Succeed ==
  /\ pc = "wait" /\ Answer = "200"
  /\ Remove(call)
  /\ Success(Head(todo))
  /\ pc' = "loop" /\ todo' = Tail(todo)
  /\ attempt' = 0 /\ timer' = 0 /\ call' = None
  /\ UNCHANGED <<world, elapsed, crashes>>

\* Any other code but 503 is a NodeError, which is never retried.
Fail ==
  /\ pc = "wait" /\ Answer \in {"401", "403", "500"}
  /\ Remove(call)
  /\ FailHop

\* 503: the replay cache is full.
Busy ==
  /\ pc = "wait" /\ Answer = "503"
  /\ Remove(call)
  /\ Transient

\* The call has used up its timeouts.
TimeOut ==
  /\ pc = "wait" /\ timer = 0 /\ Answer \notin Code
  /\ Transient

\* A place is left for the requests of the mesh (bound).
MayStay ==
  world.late /\ Cardinality({r \in Request : Open(r) /\ r # call}) + 1 < Cardinality(Request)

\* Its request may reach the API all the same, or is gone with the connection.
Abandon ==
  /\ TimeOut
  /\ \/ MayStay /\ UNCHANGED apiVars
     \/ Pending /\ Remove(call)
     \/ ~Pending /\ UNCHANGED apiVars

\* The connection fails, at any time.
LoseConnection ==
  /\ pc = "wait"
  /\ \/ Pending /\ Remove(call)
     \/ ~Pending /\ UNCHANGED apiVars
  /\ Transient

-----------------------------------------------------------------------------
(* The mesh process dies; its session is investigated again, without the    *)
(* hops that were recorded, with a new t0 and with new breakers.             *)

Crash ==
  /\ pc \notin {"idle", "down"}
  /\ crashes < MaxCrashes
  /\ crashes' = crashes + 1
  /\ \/ MayStay /\ UNCHANGED apiVars
     \/ Pending /\ Remove(call)
     \/ ~Pending /\ UNCHANGED apiVars
  /\ pc' = "down"
  /\ elapsed' = 0 /\ attempt' = 0 /\ timer' = 0 /\ call' = None
  /\ state'    = [n \in Node |-> "closed"]
  /\ failures' = [n \in Node |-> 0]
  /\ openFor'  = [n \in Node |-> 0]
  /\ streak'   = [n \in Node |-> 0]
  /\ spared'   = [n \in Node |-> 0]
  /\ UNCHANGED <<world, todo>>

Restart ==
  /\ pc = "down"
  /\ pc' = "loop"
  /\ UNCHANGED <<apiVars, world, session, breakers, history>>

-----------------------------------------------------------------------------
(* The rest of the world *)

Waiting == pc \in {"wait", "sleep"} /\ timer > 0

Tick ==
  /\ Waiting \/ pc \in {"idle", "down"}
  /\ ApiTick
  /\ elapsed' = IF Waiting THEN elapsed + 1 ELSE elapsed
  /\ timer' = IF Waiting THEN timer - 1 ELSE timer
  /\ openFor' = [n \in Node |->
       IF state[n] = "open" THEN Least(openFor[n] + 1, OpenSeconds) ELSE openFor[n]]
  /\ spared' = [n \in Node |->
       IF streak[n] = Threshold THEN Least(spared[n] + 1, OpenSeconds) ELSE spared[n]]
  /\ UNCHANGED <<world, pc, todo, attempt, call, crashes, state, failures, streak>>

Repeat(r, j, a, n) ==
  /\ Redeliver(r, j, a, n)
  /\ MayStay
  /\ UNCHANGED hopVars

Lose(r) == r # call /\ Remove(r) /\ UNCHANGED hopVars

Apis ==
  \/ \E r \in Request, j \in Token, a, n \in Node : Repeat(r, j, a, n)
  \/ \E r \in Request : Handle(r) /\ UNCHANGED hopVars
  \/ \E r \in Request : Lose(r)
  \/ \E n \in Node : RestartApi(n) /\ UNCHANGED hopVars

\* What the investigator does without waiting for anybody.
Investigate ==
  \/ EndSession \/ Admit \/ Refuse
  \/ Call \/ GiveUp \/ Succeed \/ Fail \/ Busy \/ Abandon \/ WakeUp
  \/ Restart

Next == StartSession \/ Investigate \/ LoseConnection \/ Crash \/ Apis \/ Tick

Spec == Init /\ [][Next]_vars

\* The investigator runs, is started again when it died, and time passes;
\* nothing is assumed of the node APIs or the network.
FairSpec == Spec /\ WF_vars(Investigate) /\ WF_vars(Tick)

-----------------------------------------------------------------------------
\* An investigation ends in time, whatever nodes do: no call is waited for later
\* than the two connection timeouts after the deadline, and the whole run takes at
\* most one back-off more (run checks the deadline before every call only).
EndsInTime ==
  elapsed <= IF pc = "wait" THEN Deadline + 2 * ConnectTimeout ELSE Latest

\* A node whose last hops failed (breaker.py: "after failure_threshold consecutive
\* failures") is not called again before open_seconds have passed since then, by
\* any session of this process, in the retries of a probe, or after one that failed.
FailingNodeSpared ==
  [][\A n \in Node :
       (pc = "try" /\ pc' = "wait" /\ n = Head(todo) /\ streak[n] = Threshold)
       => spared[n] = OpenSeconds]_vars

\* An investigation that was started comes to an end although every call fails,
\* hangs or is refused.
EventuallyInvestigated == (pc = "loop") ~> (pc = "idle")
=============================================================================
