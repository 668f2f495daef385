------------------------------ MODULE NodeApi ------------------------------
(***************************************************************************)
(* Tokens and the node APIs (security/jwt.py, nodeapi/app.py, deps.py).    *)
(* Every request carries a token of its own; the API checks its claims,    *)
(* then adds its jti to the replay cache, then reads the evidence.  The    *)
(* handler is synchronous and runs in a pool of threads, so requests       *)
(* interleave at the points where they read the clock or take the lock of  *)
(* the cache: each of the three stages is an action, and time may pass     *)
(* between them.  A request may be delayed, lost, or arrive again.         *)
(*                                                                         *)
(* Clocks compare exp + LEEWAY_S with now; a token is modelled by the time *)
(* it is still valid (0: exp + LEEWAY_S < now).  All hosts share a clock.  *)
(* Of a token's claims only jti, aud and exp differ between the requests   *)
(* of the mesh; it always asks for exactly the window of the token.        *)
(***************************************************************************)
EXTENDS Naturals, FiniteSets

CONSTANTS
  Node,       \* nodes, each with an API process
  Token,      \* values of jti; one that nobody holds any more may come up again
  Request,    \* requests an API has at once (bound)
  Free,       \* no request in this place
  Ttl,        \* TokenMinter.ttl_s and TokenVerifier.max_ttl_s
  Leeway,     \* LEEWAY_S
  MaxEntries  \* ReplayCache.max_entries

Lifetime == Ttl + Leeway + 1

Code == {"200", "401", "403", "500", "503"}
Stage == {"sent", "checked", "serving"} \cup Code
RequestRecord == [jti : Token, aud : Node, to : Node, stage : Stage]

ASSUME NodeApiAssumption ==
  /\ IsFiniteSet(Token)
  /\ IsFiniteSet(Request)
  /\ Free \notin RequestRecord
  /\ Ttl \in Nat \ {0}
  /\ Leeway \in Nat
  /\ MaxEntries \in Nat \ {0}

VARIABLES
  life,      \* time a token is still valid
  req,       \* requests between the client and the API
  cache,     \* ReplayCache.seen of a node's API (its keys)
  accepted   \* valid tokens a node's API accepted since it was started (history)

apiVars == <<life, req, cache, accepted>>

ApiTypeOK ==
  /\ life \in [Token -> 0..Lifetime]
  /\ req  \in [Request -> RequestRecord \cup {Free}]
  /\ cache \in [Node -> SUBSET Token]
  /\ accepted \in [Node -> SUBSET Token]

ApiInit ==
  /\ life = [j \in Token |-> 0]
  /\ req = [r \in Request |-> Free]
  /\ cache = [n \in Node |-> {}]
  /\ accepted = [n \in Node |-> {}]

-----------------------------------------------------------------------------
Valid(j) == life[j] > 0

Open(r) == req[r] # Free

\* secrets.token_hex: a jti that nobody holds.
Fresh(j) ==
  /\ \A r \in Request : Open(r) => req[r].jti # j
  /\ \A n \in Node : j \notin cache[n] \cup accepted[n]

\* mint and the GET: int(clock()) may cost the token the rest of a second.
Send(r, j, n) ==
  /\ ~Open(r)
  /\ Fresh(j)
  /\ \E l \in {Lifetime - 1, Lifetime} : life' = [life EXCEPT ![j] = l]
  /\ req' = [req EXCEPT ![r] = [jti |-> j, aud |-> n, to |-> n, stage |-> "sent"]]
  /\ UNCHANGED <<cache, accepted>>

\* A token on the wire or accepted, with its audience.
Sent(j, a) ==
  \/ j \in accepted[a]
  \/ \E q \in Request : Open(q) /\ req[q].jti = j /\ req[q].aud = a

\* A token that was sent before arrives again, at its own node or another.
Redeliver(r, j, a, n) ==
  /\ ~Open(r)
  /\ Sent(j, a)
  /\ req' = [req EXCEPT ![r] = [jti |-> j, aud |-> a, to |-> n, stage |-> "sent"]]
  /\ UNCHANGED <<life, cache, accepted>>

\* The claims verify looks at before it asks the cache.
ClaimsHold(j, a, n) == a = n /\ Valid(j)

\* verify up to the cache, with its first look at the clock.
CheckClaims(r) ==
  /\ Open(r) /\ req[r].stage = "sent"
  /\ req' = [req EXCEPT ![r].stage =
               IF ClaimsHold(req[r].jti, req[r].aud, req[r].to) THEN "checked" ELSE "401"]
  /\ UNCHANGED <<life, cache, accepted>>

\* Mutation: entries are dropped at exp, although verify grants the leeway.
PrunedAtExp(n) ==
  IF Cardinality(cache[n]) >= MaxEntries
  THEN {j \in cache[n] : life[j] > Leeway} ELSE cache[n]

\* Mutation: a full cache is never pruned.
NeverPruned(n) == cache[n]

\* A full cache drops what is no longer valid.
Pruned(n) ==
  IF Cardinality(cache[n]) >= MaxEntries THEN {j \in cache[n] : Valid(j)} ELSE cache[n]

\* ReplayCache.add, under its lock and with its own look at the clock.
AddToCache(r) ==
  /\ Open(r) /\ req[r].stage = "checked"
  /\ LET j == req[r].jti
         n == req[r].to
     IN \/ /\ j \in cache[n] /\ Valid(j)
           /\ req' = [req EXCEPT ![r].stage = "403"]
           /\ UNCHANGED <<cache, accepted>>
        \/ /\ ~(j \in cache[n] /\ Valid(j))
           /\ Cardinality(Pruned(n)) >= MaxEntries
           /\ req' = [req EXCEPT ![r].stage = "503"]
           /\ cache' = [cache EXCEPT ![n] = Pruned(n)]
           /\ UNCHANGED accepted
        \/ /\ ~(j \in cache[n] /\ Valid(j))
           /\ Cardinality(Pruned(n)) < MaxEntries
           /\ req' = [req EXCEPT ![r].stage = "serving"]
           /\ cache' = [cache EXCEPT ![n] = Pruned(n) \cup {j}]
           /\ accepted' = [accepted EXCEPT ![n] = IF Valid(j) THEN @ \cup {j} ELSE @]
  /\ UNCHANGED life

\* EvidenceStore.between and the response; reading the database may fail.
Serve(r) ==
  /\ Open(r) /\ req[r].stage = "serving"
  /\ \E c \in {"200", "500"} : req' = [req EXCEPT ![r].stage = c]
  /\ UNCHANGED <<life, cache, accepted>>

\* Requests that are no longer there leave their tokens to nobody, unless another
\* request or a cache knows them.
Forget(gone, nodes) ==
  life' = [j \in Token |->
             IF \/ \E q \in Request \ gone : Open(q) /\ req[q].jti = j
                \/ \E n \in Node \ nodes : j \in cache[n]
             THEN life[j] ELSE 0]

\* A request or its answer is taken off the wire: read, lost, or unwanted.
Remove(r) ==
  /\ Open(r)
  /\ req' = [req EXCEPT ![r] = Free]
  /\ Forget({r}, {})
  /\ UNCHANGED <<cache, accepted>>

\* The API process starts again, with an empty cache.
RestartApi(n) ==
  /\ cache' = [cache EXCEPT ![n] = {}]
  /\ accepted' = [accepted EXCEPT ![n] = {}]
  /\ req' = [r \in Request |-> IF Open(r) /\ req[r].to = n THEN Free ELSE req[r]]
  /\ Forget({r \in Request : Open(r) /\ req[r].to = n}, {n})

ApiTick ==
  /\ life' = [j \in Token |-> IF life[j] > 0 THEN life[j] - 1 ELSE 0]
  /\ accepted' = [n \in Node |-> {j \in accepted[n] : life[j] > 1}]
  /\ UNCHANGED <<req, cache>>

Handle(r) == CheckClaims(r) \/ AddToCache(r) \/ Serve(r)

ApiNext ==
  \/ \E r \in Request, j \in Token, n \in Node : Send(r, j, n)
  \/ \E r \in Request, j \in Token, a, n \in Node : Redeliver(r, j, a, n)
  \/ \E r \in Request : Handle(r) \/ Remove(r)
  \/ \E n \in Node : RestartApi(n)
  \/ ApiTick

ApiSpec == ApiInit /\ [][ApiNext]_apiVars

-----------------------------------------------------------------------------
\* Among the valid tokens, an API remembers exactly those it accepted, and a
\* request gets past the claims only at the node its token is for.
Remembered ==
  /\ \A n \in Node : accepted[n] = {j \in cache[n] : Valid(j)}
  /\ \A r \in Request : (Open(r) /\ req[r].stage \in {"checked", "serving"}) => req[r].aud = req[r].to

\* A token has one audience, also when it is sent again.
OneAudience ==
  \A j \in Token, a, b \in Node : Sent(j, a) /\ Sent(j, b) => a = b

\* A token that is still valid when the cache is asked is accepted only once, by
\* one API, between two restarts of it (jwt.py: "kept until expiry"): whatever
\* requests interleave, however the cache is pruned, and whoever sends it again.
\* (A token that expires between the two looks at the clock is out of this.)
NoTokenTwice ==
  [][\A r \in Request :
       (Open(r) /\ req[r].stage = "checked" /\ req'[r] = [req[r] EXCEPT !.stage = "serving"]
          /\ Valid(req[r].jti))
       => \A n \in Node : req[r].jti \notin accepted[n]]_apiVars

\* A request is refused for a full cache only while the API has that many tokens
\* to remember which are still valid: expired ones never shut a node off.
RefusedOnlyWhenFull ==
  [][\A r \in Request :
       (Open(r) /\ req[r].stage = "checked" /\ req'[r] = [req[r] EXCEPT !.stage = "503"])
       => Cardinality(accepted[req[r].to]) >= MaxEntries]_apiVars
=============================================================================
