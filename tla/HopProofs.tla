----------------------------- MODULE HopProofs -----------------------------
(***************************************************************************)
(* Investigations end in time and spare failing nodes, for any plans,      *)
(* timeouts and thresholds.  Their steps are steps of the node APIs'       *)
(* module, so that what NodeApiProofs shows of the tokens holds here.      *)
(***************************************************************************)
EXTENDS Hop, NodeApiProofs

LEMMA Numbers ==
  /\ Deadline \in Nat /\ Timeout \in Nat /\ ConnectTimeout \in Nat /\ MaxRetries \in Nat
  /\ MaxSleep \in Nat /\ Threshold \in Nat /\ Threshold >= 1 /\ OpenSeconds \in Nat
  /\ MaxCrashes \in Nat
BY HopAssumption

LEMMA Plans == \A w \in Worlds : \A p \in w.plans : p \in Seq(Node)
BY HopAssumption

-----------------------------------------------------------------------------
(* The steps of the mesh and of the world are steps of the APIs *)

LEMMA CallSends ==
  ASSUME HopTypeOK, todo # <<>>, Call
  PROVE  \E r \in Request, j \in Token : Send(r, j, Head(todo)) /\ call' = r
<1>1. Places \subseteq Request /\ NewTokens \subseteq Token
  BY DEF Places, NewTokens
<1> QED BY <1>1 DEF Call

\* A hop is in progress only while there is one to make.
HopInPlan == pc \in {"try", "wait", "sleep"} => todo # <<>>

LEMMA ApiSteps ==
  ASSUME HopTypeOK, HopInPlan, [Next]_vars
  PROVE  [ApiNext]_apiVars
<1> USE DEF HopTypeOK
<1>1. CASE Call
  <2>1. Head(todo) \in Node
    BY <1>1 DEF HopInPlan, Call
  <2> QED BY <2>1, <1>1, CallSends DEF ApiNext, Call, HopInPlan
<1>2. CASE Succeed \/ Fail \/ Busy
  <2>1. call \in Request /\ Remove(call)
    BY <1>2 DEF Succeed, Fail, Busy, Answer, Pending
  <2> QED BY <2>1 DEF ApiNext
<1>3. CASE Abandon \/ LoseConnection \/ Crash
  <2>1. (call \in Request /\ Remove(call)) \/ UNCHANGED apiVars
    BY <1>3 DEF Abandon, LoseConnection, Crash, Pending
  <2> QED BY <2>1 DEF ApiNext
<1>4. CASE Tick
  BY <1>4 DEF Tick, ApiNext
<1>5. CASE Apis
  BY <1>5 DEF Apis, Repeat, Lose, ApiNext
<1>6. CASE StartSession \/ EndSession \/ Admit \/ Refuse \/ GiveUp \/ WakeUp \/ Restart
  BY <1>6 DEF StartSession, EndSession, Admit, Refuse, GiveUp, WakeUp, Restart
<1>7. CASE UNCHANGED vars
  BY <1>7 DEF vars
<1> QED BY <1>1, <1>2, <1>3, <1>4, <1>5, <1>6, <1>7 DEF Next, Investigate

-----------------------------------------------------------------------------
(* The inductive invariant *)

\* How far an investigation has got, with the time the current wait may still take.
Timely ==
  /\ pc \in {"loop", "try"} => elapsed <= Latest
  /\ pc = "wait" => elapsed + timer <= Deadline + 2 * ConnectTimeout
  /\ pc = "sleep" => elapsed + timer <= Latest /\ attempt < MaxRetries
  /\ pc \in {"idle", "down"} => elapsed = 0

\* What a breaker knows of its node: all failures in a row, and since when.
Informed(n) ==
  /\ failures[n] = streak[n]
  /\ state[n] = "closed" <=> streak[n] # Threshold
  /\ state[n] = "open" => openFor[n] = spared[n]
  /\ state[n] = "half_open" => spared[n] = OpenSeconds

\* The node that is asked is not behind an open breaker.
Admitted == pc \in {"try", "wait", "sleep"} => state[Head(todo)] # "open"

HopInv == HopTypeOK /\ HopInPlan /\ Timely /\ (\A n \in Node : Informed(n)) /\ Admitted

LEMMA InitHopInv == Init => HopInv
BY Numbers DEF Init, HopInv, HopTypeOK, HopInPlan, Timely, Informed, Admitted, Latest

LEMMA StartSessionInv == HopInv /\ StartSession => HopInv'
<1> SUFFICES ASSUME HopInv, StartSession PROVE HopInv'
  OBVIOUS
<1>1. todo' \in Seq(Node)
  BY Plans DEF StartSession, HopInv, HopTypeOK
<1> QED BY <1>1, Numbers DEF StartSession, breakers, history, HopInv, HopTypeOK, HopInPlan,
          Timely, Informed, Admitted, Latest

LEMMA EndSessionInv == HopInv /\ EndSession => HopInv'
BY DEF EndSession, breakers, history, HopInv, HopTypeOK, HopInPlan, Timely, Informed, Admitted

LEMMA AdmitInv == HopInv /\ Admit => HopInv'
<1> SUFFICES ASSUME HopInv, Admit PROVE HopInv'
  OBVIOUS
<1> DEFINE n == Head(todo)
<1>1. n \in Node /\ todo # <<>>
  BY DEF Admit, Turn, HopInv, HopTypeOK
<1>2. \A m \in Node : m # n => state'[m] = state[m] /\ openFor'[m] = openFor[m]
  BY DEF Admit, HopInv, HopTypeOK
<1>3. state'[n] = IF state[n] = "open" THEN "half_open" ELSE state[n]
  BY <1>1 DEF Admit, HopInv, HopTypeOK
<1>4. state[n] = "open" => spared[n] = OpenSeconds
  BY <1>1, Numbers DEF Admit, Allows, HopInv, HopTypeOK, Informed
<1>5. HopTypeOK'
  BY <1>1, Numbers DEF Admit, history, HopInv, HopTypeOK
<1>6. \A m \in Node : Informed(m)'
  BY <1>1, <1>2, <1>3, <1>4 DEF Admit, history, HopInv, HopTypeOK, Informed
<1> QED BY <1>1, <1>3, <1>5, <1>6 DEF Admit, Turn, HopInv, HopInPlan, Timely, Admitted

LEMMA RefuseInv == HopInv /\ Refuse => HopInv'
<1> SUFFICES ASSUME HopInv, Refuse PROVE HopInv'
  OBVIOUS
<1>1. todo' \in Seq(Node)
  BY DEF Refuse, Turn, HopInv, HopTypeOK
<1> QED BY <1>1 DEF Refuse, Turn, breakers, history, HopInv, HopTypeOK, HopInPlan,
          Timely, Informed, Admitted

\* The timeouts of a call end with the deadline, but for the connections.
LEMMA CallTimeBound ==
  ASSUME HopTypeOK, elapsed < Deadline
  PROVE  CallTime \in Nat /\ elapsed + CallTime <= Deadline + 2 * ConnectTimeout
BY Numbers DEF HopTypeOK, CallTime, Remaining, Least

LEMMA CallInv == HopInv /\ Call => HopInv'
<1> SUFFICES ASSUME HopInv, Call PROVE HopInv'
  OBVIOUS
<1>1. call' \in Request
  BY CallSends DEF Call, HopInv, HopInPlan
<1>2. timer' \in Nat /\ elapsed + timer' <= Deadline + 2 * ConnectTimeout
  BY CallTimeBound DEF Call, HopInv
<1> QED BY <1>1, <1>2 DEF Call, breakers, history, HopInv, HopTypeOK, HopInPlan,
          Timely, Informed, Admitted

\* A success closes the breaker.
LEMMA SuccessInforms ==
  ASSUME HopTypeOK, \A m \in Node : Informed(m), NEW n \in Node, Success(n)
  PROVE  /\ state' \in [Node -> {"closed", "open", "half_open"}]
         /\ failures' \in [Node -> 0..Threshold] /\ streak' \in [Node -> 0..Threshold]
         /\ openFor' \in [Node -> 0..OpenSeconds] /\ spared' \in [Node -> 0..OpenSeconds]
         /\ \A m \in Node : Informed(m)'
<1>1. /\ state' \in [Node -> {"closed", "open", "half_open"}]
      /\ failures' \in [Node -> 0..Threshold] /\ streak' \in [Node -> 0..Threshold]
      /\ openFor' \in [Node -> 0..OpenSeconds] /\ spared' \in [Node -> 0..OpenSeconds]
  BY Numbers DEF HopTypeOK, Success
<1>2. \A m \in Node : Informed(m)'
  BY Numbers DEF HopTypeOK, Success, Informed
<1> QED BY <1>1, <1>2

\* A failure that reaches the threshold opens it, with the time running from now.
LEMMA FailureInforms ==
  ASSUME HopTypeOK, \A m \in Node : Informed(m), NEW n \in Node, Failure(n)
  PROVE  /\ state' \in [Node -> {"closed", "open", "half_open"}]
         /\ failures' \in [Node -> 0..Threshold] /\ streak' \in [Node -> 0..Threshold]
         /\ openFor' \in [Node -> 0..OpenSeconds] /\ spared' \in [Node -> 0..OpenSeconds]
         /\ \A m \in Node : Informed(m)'
<1>1. \A i \in 0..Threshold : Least(i + 1, Threshold) \in 0..Threshold
                              /\ (Least(i + 1, Threshold) = Threshold <=> i + 1 >= Threshold)
  BY Numbers DEF Least
<1>2. /\ state' \in [Node -> {"closed", "open", "half_open"}]
      /\ openFor' \in [Node -> 0..OpenSeconds] /\ spared' \in [Node -> 0..OpenSeconds]
  BY Numbers DEF HopTypeOK, Failure
<1>3. failures' \in [Node -> 0..Threshold] /\ streak' \in [Node -> 0..Threshold]
  BY <1>1 DEF HopTypeOK, Failure
<1>4. \A m \in Node : m # n => Informed(m)'
  BY DEF HopTypeOK, Failure, Informed
<1>5. Informed(n)'
  <2>1. failures'[n] = Least(failures[n] + 1, Threshold) /\ streak'[n] = failures'[n]
    BY DEF HopTypeOK, Failure, Informed
  <2>2. failures[n] \in 0..Threshold /\ spared'[n] = 0
    BY DEF HopTypeOK, Failure
  <2>3. CASE Trips(n)
    <3>1. state'[n] = "open" /\ openFor'[n] = 0
      BY <2>3 DEF HopTypeOK, Failure
    <3>2. failures[n] + 1 >= Threshold
      BY <2>2, <2>3, Numbers DEF Trips, Informed
    <3> QED BY <1>1, <2>1, <2>2, <3>1, <3>2 DEF Informed
  <2>4. CASE ~Trips(n)
    <3>1. state'[n] = state[n] /\ state[n] = "closed" /\ failures[n] + 1 < Threshold
      BY <2>2, <2>4, Numbers DEF HopTypeOK, Failure, Trips, Informed
    <3> QED BY <1>1, <2>1, <2>2, <3>1, Numbers DEF Informed
  <2> QED BY <2>3, <2>4
<1> QED BY <1>2, <1>3, <1>4, <1>5

\* The end of a hop that is not ok, whatever ended it.
LEMMA FailHopInv ==
  ASSUME HopInv, FailHop, pc \in {"try", "wait"}, timer \in Nat
  PROVE  HopInv'
<1>1. Head(todo) \in Node /\ todo' \in Seq(Node)
  BY DEF FailHop, HopInv, HopTypeOK, HopInPlan
<1>2. elapsed <= Latest
  BY Numbers DEF HopInv, HopTypeOK, Timely, Latest
<1>3. /\ state' \in [Node -> {"closed", "open", "half_open"}]
      /\ failures' \in [Node -> 0..Threshold] /\ streak' \in [Node -> 0..Threshold]
      /\ openFor' \in [Node -> 0..OpenSeconds] /\ spared' \in [Node -> 0..OpenSeconds]
      /\ \A m \in Node : Informed(m)'
  BY <1>1, FailureInforms DEF FailHop, HopInv
<1>4. HopTypeOK'
  <2>1. world' \in Worlds /\ elapsed' \in Nat /\ crashes' \in 0..MaxCrashes
    BY DEF FailHop, HopInv, HopTypeOK
  <2>2. pc' = "loop" /\ attempt' = 0 /\ timer' = 0 /\ call' = None
    BY DEF FailHop
  <2> QED BY <1>1, <1>3, <2>1, <2>2, Numbers DEF HopTypeOK
<1>5. HopInPlan' /\ Timely' /\ Admitted'
  BY <1>2, Numbers DEF FailHop, HopInPlan, Timely, Admitted
<1> QED BY <1>3, <1>4, <1>5 DEF HopInv

\* What is waited after a call is at most one back-off more.
LEMMA OneSleepMore ==
  ASSUME NEW e \in Nat, NEW t \in Nat, NEW s \in 0..MaxSleep,
         e + t <= Deadline + 2 * ConnectTimeout
  PROVE  e + s <= Latest
BY Numbers DEF Latest

\* A call that failed is repeated, or ends the hop.
LEMMA TransientInv ==
  ASSUME HopInv, Transient, pc = "wait"
  PROVE  HopInv'
<1>1. CASE FailHop
  BY <1>1, FailHopInv DEF HopInv, HopTypeOK
<1>2. CASE RetriesLeft /\ timer' \in 0..MaxSleep /\ pc' = "sleep" /\ call' = None
           /\ UNCHANGED <<world, todo, elapsed, attempt, crashes, breakers, history>>
  <2>1. elapsed + timer' <= Latest /\ timer' \in Nat
    <3>1. elapsed \in Nat /\ timer \in Nat /\ elapsed + timer <= Deadline + 2 * ConnectTimeout
      BY DEF HopInv, HopTypeOK, Timely
    <3>2. timer' \in 0..MaxSleep
      BY <1>2
    <3>3. timer' \in Nat
      BY <3>2, Numbers
    <3>4. elapsed + timer' <= Latest
      BY <3>1, <3>2, OneSleepMore
    <3> QED BY <3>3, <3>4
  <2> QED BY <1>2, <2>1 DEF RetriesLeft, breakers, history, HopInv, HopTypeOK, HopInPlan,
            Timely, Informed, Admitted
<1> QED BY <1>1, <1>2 DEF Transient

LEMMA SucceedInv == HopInv /\ Succeed => HopInv'
<1> SUFFICES ASSUME HopInv, Succeed PROVE HopInv'
  OBVIOUS
<1>1. Head(todo) \in Node /\ todo' \in Seq(Node)
  BY DEF Succeed, HopInv, HopTypeOK, HopInPlan
<1>2. elapsed <= Latest
  BY Numbers DEF Succeed, HopInv, HopTypeOK, Timely, Latest
<1>3. /\ state' \in [Node -> {"closed", "open", "half_open"}]
      /\ failures' \in [Node -> 0..Threshold] /\ streak' \in [Node -> 0..Threshold]
      /\ openFor' \in [Node -> 0..OpenSeconds] /\ spared' \in [Node -> 0..OpenSeconds]
      /\ \A m \in Node : Informed(m)'
  BY <1>1, SuccessInforms DEF Succeed, HopInv
<1>4. HopTypeOK'
  <2>1. world' \in Worlds /\ elapsed' \in Nat /\ crashes' \in 0..MaxCrashes
    BY DEF Succeed, HopInv, HopTypeOK
  <2>2. pc' = "loop" /\ attempt' = 0 /\ timer' = 0 /\ call' = None
    BY DEF Succeed
  <2> QED BY <1>1, <1>3, <2>1, <2>2, Numbers DEF HopTypeOK
<1>5. HopInPlan' /\ Timely' /\ Admitted'
  BY <1>2, Numbers DEF Succeed, HopInPlan, Timely, Admitted
<1> QED BY <1>3, <1>4, <1>5 DEF HopInv

LEMMA WakeUpInv == HopInv /\ WakeUp => HopInv'
BY Numbers DEF WakeUp, breakers, history, HopInv, HopTypeOK, HopInPlan, Timely, Informed,
   Admitted, Latest

LEMMA CrashInv == HopInv /\ Crash => HopInv'
<1> SUFFICES ASSUME HopInv, Crash PROVE HopInv'
  OBVIOUS
<1>1. HopTypeOK'
  BY Numbers DEF Crash, HopInv, HopTypeOK
<1>2. \A n \in Node : Informed(n)'
  BY Numbers DEF Crash, Informed
<1> QED BY <1>1, <1>2 DEF Crash, HopInv, HopInPlan, Timely, Admitted

LEMMA RestartInv == HopInv /\ Restart => HopInv'
BY Numbers DEF Restart, session, breakers, history, HopInv, HopTypeOK, HopInPlan, Timely,
   Informed, Admitted, Latest

LEMMA TickInv == HopInv /\ Tick => HopInv'
<1> SUFFICES ASSUME HopInv, Tick PROVE HopInv'
  OBVIOUS
<1>1. \A i \in 0..OpenSeconds : Least(i + 1, OpenSeconds) \in 0..OpenSeconds
  BY Numbers DEF Least
<1>2. elapsed' \in Nat /\ timer' \in Nat
  BY DEF Tick, Waiting, HopInv, HopTypeOK
<1>3. openFor' \in [Node -> 0..OpenSeconds] /\ spared' \in [Node -> 0..OpenSeconds]
  BY <1>1 DEF Tick, HopInv, HopTypeOK
<1>4. HopTypeOK'
  BY <1>2, <1>3 DEF Tick, HopInv, HopTypeOK
<1>5. Timely'
  BY Numbers DEF Tick, Waiting, HopInv, HopTypeOK, Timely, Latest
<1>6. \A n \in Node : Informed(n)'
  BY Numbers DEF Tick, HopInv, HopTypeOK, Informed, Least
<1> QED BY <1>4, <1>5, <1>6 DEF Tick, HopInv, HopInPlan, Admitted

LEMMA NextHopInv == HopInv /\ [Next]_vars => HopInv'
<1> SUFFICES ASSUME HopInv, [Next]_vars PROVE HopInv'
  OBVIOUS
<1>1. CASE GiveUp \/ Fail
  BY <1>1, FailHopInv DEF GiveUp, Fail, HopInv, HopTypeOK
<1>2. CASE Busy \/ Abandon \/ LoseConnection
  BY <1>2, TransientInv DEF Busy, Abandon, TimeOut, LoseConnection
<1>3. CASE Apis \/ UNCHANGED vars
  <2>1. UNCHANGED hopVars
    BY <1>3 DEF Apis, Repeat, Lose, vars
  <2> QED BY <2>1 DEF hopVars, session, breakers, history, HopInv, HopTypeOK, HopInPlan,
            Timely, Informed, Admitted
<1> QED BY <1>1, <1>2, <1>3, StartSessionInv, EndSessionInv, AdmitInv, RefuseInv, CallInv,
        SucceedInv, WakeUpInv, CrashInv, RestartInv, TickInv DEF Next, Investigate

-----------------------------------------------------------------------------
\* The inductive invariant of the hops, with the one of the APIs.
THEOREM HopInvariant == Spec => [](HopInv /\ ApiInv)
<1>1. HopInv /\ ApiInv /\ [Next]_vars => ApiInv'
  BY ApiSteps, ApiNextInv DEF HopInv
<1>2. Init => HopInv /\ ApiInv
  BY InitHopInv, ApiInitInv DEF Init
<1> QED BY <1>1, <1>2, NextHopInv, PTL DEF Spec

\* The mesh and the network only do to the APIs what their module allows.
THEOREM HopUsesApis == Spec => ApiSpec
<1>1. HopInv /\ [Next]_vars => [ApiNext]_apiVars
  BY ApiSteps DEF HopInv
<1>2. Init => ApiInit
  BY DEF Init
<1> QED BY <1>1, <1>2, HopInvariant, PTL DEF Spec, ApiSpec

\* All variables keep their types, for any number of retries and crashes.
THEOREM TypeCorrect == Spec => []TypeOK
<1>1. HopInv /\ ApiInv => TypeOK
  BY DEF HopInv, ApiInv, TypeOK
<1> QED BY <1>1, HopInvariant, PTL

\* No investigation takes longer than the deadline, two connections and a back-off.
THEOREM EndsInTimeHolds == Spec => []EndsInTime
<1>1. HopInv => EndsInTime
  BY Numbers DEF HopInv, HopTypeOK, Timely, EndsInTime, Latest
<1> QED BY <1>1, HopInvariant, PTL

\* Only in Call does an attempt become a wait.
LEMMA CallsAreAdmitted ==
  ASSUME HopInv, [Next]_vars, NEW n \in Node,
         pc = "try", pc' = "wait", n = Head(todo), streak[n] = Threshold
  PROVE  spared[n] = OpenSeconds
<1>1. state[n] \in {"closed", "open", "half_open"}
  BY DEF HopInv, HopTypeOK
<1> QED BY <1>1 DEF HopInv, Informed, Admitted

\* No node whose last hops failed is called before open_seconds have passed.
THEOREM FailingNodeSparedHolds == Spec => FailingNodeSpared
<1>1. HopInv /\ [Next]_vars =>
        [\A n \in Node :
          (pc = "try" /\ pc' = "wait" /\ n = Head(todo) /\ streak[n] = Threshold)
          => spared[n] = OpenSeconds]_vars
  BY CallsAreAdmitted
<1> QED BY <1>1, HopInvariant, PTL DEF Spec, FailingNodeSpared

\* The promises of the replay caches hold with the mesh as their client.
THEOREM NoTokenTwiceHolds == Spec => NoTokenTwice
BY HopUsesApis, ApiNoTokenTwice, PTL

THEOREM RefusedOnlyWhenFullHolds == Spec => RefusedOnlyWhenFull
BY HopUsesApis, ApiRefusedOnlyWhenFull, PTL
=============================================================================
