--------------------------- MODULE NodeApiProofs ---------------------------
(***************************************************************************)
(* The replay caches of the node APIs.  The inductive invariant says that  *)
(* a cache holds exactly the valid tokens its API accepted, and that a     *)
(* token has one audience wherever it turns up.                            *)
(***************************************************************************)
EXTENDS NodeApi, TLAPS

ApiInv == ApiTypeOK /\ Remembered /\ OneAudience

LEMMA LifetimeNat == Lifetime \in Nat /\ Lifetime >= 2
BY NodeApiAssumption DEF Lifetime

\* Initially nothing has been sent.
LEMMA ApiInitInv == ApiInit => ApiInv
BY LifetimeNat DEF ApiInit, ApiInv, ApiTypeOK, Remembered, OneAudience, Sent, Open, Valid

\* A fresh token has not been sent, and no cache holds it.
LEMMA SendInv ==
  ASSUME ApiInv, NEW r \in Request, NEW j \in Token, NEW n \in Node, Send(r, j, n)
  PROVE  ApiInv'
<1> USE DEF ApiInv
<1>1. ApiTypeOK'
  BY LifetimeNat DEF ApiTypeOK, Send, RequestRecord, Stage
<1>2. Remembered'
  BY LifetimeNat, NodeApiAssumption
     DEF ApiTypeOK, Remembered, Send, Fresh, Valid, Open, RequestRecord, Stage, Code
<1>3. OneAudience'
  <2> SUFFICES ASSUME NEW k \in Token, NEW a \in Node, NEW b \in Node, Sent(k, a)', Sent(k, b)'
               PROVE  a = b
    BY DEF OneAudience
  <2>1. req'[r].jti = j /\ req'[r].aud = n /\ \A q \in Request \ {r} : req'[q] = req[q]
    BY DEF Send, ApiTypeOK
  <2>2. accepted' = accepted
    BY DEF Send
  <2>3. ASSUME NEW c \in Node, Sent(k, c)' PROVE Sent(k, c) \/ (k = j /\ c = n)
    BY <2>1, <2>2, <2>3 DEF Sent, Open
  <2>4. \A c \in Node : ~Sent(j, c)
    BY DEF Send, Fresh, Sent
  <2> QED BY <2>3, <2>4 DEF OneAudience
<1> QED BY <1>1, <1>2, <1>3

\* A token that is sent again was sent before.
LEMMA RedeliverInv ==
  ASSUME ApiInv, NEW r \in Request, NEW j \in Token, NEW a \in Node, NEW n \in Node,
         Redeliver(r, j, a, n)
  PROVE  ApiInv'
<1> USE DEF ApiInv
<1>1. ApiTypeOK'
  BY DEF ApiTypeOK, Redeliver, RequestRecord, Stage
<1>2. Remembered'
  BY NodeApiAssumption
     DEF ApiTypeOK, Remembered, Redeliver, Valid, Open, RequestRecord, Stage, Code
<1>3. OneAudience'
  <2>1. req'[r].jti = j /\ req'[r].aud = a /\ \A q \in Request \ {r} : req'[q] = req[q]
    BY DEF Redeliver, ApiTypeOK
  <2>2. accepted' = accepted /\ Sent(j, a)
    BY DEF Redeliver
  <2>3. \A k \in Token, c \in Node : Sent(k, c)' => Sent(k, c)
    BY <2>1, <2>2 DEF Sent, Open
  <2> QED BY <2>3 DEF OneAudience
<1> QED BY <1>1, <1>2, <1>3

\* Only a token for this node gets past the claims.
LEMMA CheckClaimsInv ==
  ASSUME ApiInv, NEW r \in Request, CheckClaims(r)
  PROVE  ApiInv'
<1> USE DEF ApiInv
<1>1. req[r] \in RequestRecord
  BY DEF CheckClaims, Open, ApiTypeOK
<1>2. PICK s \in Stage : req' = [req EXCEPT ![r].stage = s]
                         /\ (s = "checked" => req[r].aud = req[r].to) /\ s # "serving"
  BY DEF CheckClaims, ClaimsHold, Stage, Code
<1>3. [req[r] EXCEPT !.stage = s] \in RequestRecord
  BY <1>1, <1>2 DEF RequestRecord
<1>4. ApiTypeOK'
  BY <1>2, <1>3 DEF ApiTypeOK, CheckClaims
<1>5. Remembered'
  BY <1>1, <1>2, <1>3, NodeApiAssumption
     DEF ApiTypeOK, Remembered, CheckClaims, Valid, Open, RequestRecord
<1>6. OneAudience'
  <2>1. \A k \in Token, c \in Node : Sent(k, c)' => Sent(k, c)
    BY <1>1, <1>2, <1>3, NodeApiAssumption DEF ApiTypeOK, Sent, Open, CheckClaims, RequestRecord
  <2> QED BY <2>1 DEF OneAudience
<1> QED BY <1>4, <1>5, <1>6

\* Pruning keeps what is valid.
LEMMA PrunedKeepsValid ==
  ASSUME NEW n \in Node, NEW j \in cache[n], Valid(j)
  PROVE  j \in Pruned(n)
BY DEF Pruned

\* What is accepted goes into the cache.
LEMMA AddToCacheInv ==
  ASSUME ApiInv, NEW r \in Request, AddToCache(r)
  PROVE  ApiInv'
<1> USE DEF ApiInv
<1> DEFINE j == req[r].jti
           n == req[r].to
<1>1. req[r] \in RequestRecord /\ j \in Token /\ n \in Node /\ req[r].aud = n
  BY DEF AddToCache, Open, ApiTypeOK, Remembered, RequestRecord
<1>2. PICK s \in Stage : req' = [req EXCEPT ![r].stage = s]
  BY DEF AddToCache, Stage, Code
<1>3. [req[r] EXCEPT !.stage = s] \in RequestRecord
  BY <1>1, <1>2 DEF RequestRecord
<1>4. life' = life
  BY DEF AddToCache
<1>5. \A m \in Node : m # n => cache'[m] = cache[m] /\ accepted'[m] = accepted[m]
  BY <1>1 DEF AddToCache, ApiTypeOK
<1>6. \/ cache'[n] = cache[n] /\ accepted'[n] = accepted[n]
      \/ cache'[n] = Pruned(n) /\ accepted'[n] = accepted[n]
      \/ /\ cache'[n] = Pruned(n) \cup {j}
         /\ accepted'[n] = IF Valid(j) THEN accepted[n] \cup {j} ELSE accepted[n]
  BY <1>1 DEF AddToCache, ApiTypeOK
<1>7. Pruned(n) \subseteq cache[n] /\ \A k \in cache[n] : Valid(k) => k \in Pruned(n)
  BY <1>1 DEF Pruned
<1>8. ApiTypeOK'
  <2>1. req' \in [Request -> RequestRecord \cup {Free}]
    BY <1>2, <1>3 DEF ApiTypeOK
  <2>2. cache' \in [Node -> SUBSET Token]
    BY <1>1, <1>7 DEF ApiTypeOK, AddToCache
  <2>3. accepted' \in [Node -> SUBSET Token]
    BY <1>1 DEF ApiTypeOK, AddToCache
  <2> QED BY <2>1, <2>2, <2>3, <1>4 DEF ApiTypeOK
<1>9. Remembered'
  <2>1. \A m \in Node : accepted'[m] = {k \in cache'[m] : Valid(k)'}
    BY <1>1, <1>4, <1>5, <1>6, <1>7 DEF Remembered, Valid
  <2>2. \A q \in Request : Open(q)' /\ req'[q].stage \in {"checked", "serving"} => req'[q].aud = req'[q].to
    BY <1>1, <1>2, <1>3, NodeApiAssumption DEF ApiTypeOK, Remembered, Open, RequestRecord
  <2> QED BY <2>1, <2>2 DEF Remembered
<1>10. OneAudience'
  <2>1. Sent(j, n)
    BY <1>1 DEF Sent, AddToCache
  <2>2. \A k \in Token, c \in Node : k \in accepted'[c] => k \in accepted[c] \/ (k = j /\ c = n)
    BY <1>1, <1>5, <1>6
  <2>3. \A q \in Request : Open(q)' => Open(q) /\ req'[q].jti = req[q].jti /\ req'[q].aud = req[q].aud
    BY <1>1, <1>2, <1>3, NodeApiAssumption DEF ApiTypeOK, Open, RequestRecord, AddToCache
  <2>4. \A k \in Token, c \in Node : Sent(k, c)' => Sent(k, c)
    BY <2>1, <2>2, <2>3 DEF Sent
  <2> QED BY <2>4 DEF OneAudience
<1> QED BY <1>8, <1>9, <1>10

\* The answer does not touch the cache.
LEMMA ServeInv ==
  ASSUME ApiInv, NEW r \in Request, Serve(r)
  PROVE  ApiInv'
<1> USE DEF ApiInv
<1>1. req[r] \in RequestRecord
  BY DEF Serve, Open, ApiTypeOK
<1>2. PICK s \in {"200", "500"} : req' = [req EXCEPT ![r].stage = s]
  BY DEF Serve
<1>3. [req[r] EXCEPT !.stage = s] \in RequestRecord
  BY <1>1, <1>2 DEF RequestRecord, Stage, Code
<1>4. ApiTypeOK'
  BY <1>2, <1>3 DEF ApiTypeOK, Serve
<1>5. Remembered'
  BY <1>1, <1>2, <1>3, NodeApiAssumption
     DEF ApiTypeOK, Remembered, Serve, Valid, Open, RequestRecord
<1>6. \A k \in Token, c \in Node : Sent(k, c)' => Sent(k, c)
  BY <1>1, <1>2, <1>3, NodeApiAssumption DEF ApiTypeOK, Sent, Open, Serve, RequestRecord
<1> QED BY <1>4, <1>5, <1>6 DEF OneAudience

\* Tokens in a cache that is kept are not forgotten.
LEMMA ForgetKeeps ==
  ASSUME ApiTypeOK, NEW gone \in SUBSET Request, NEW nodes \in SUBSET Node, Forget(gone, nodes)
  PROVE  /\ life' \in [Token -> 0..Lifetime]
         /\ \A n \in Node \ nodes : \A j \in cache[n] : life'[j] = life[j]
BY LifetimeNat DEF Forget, ApiTypeOK

LEMMA RemoveInv ==
  ASSUME ApiInv, NEW r \in Request, Remove(r)
  PROVE  ApiInv'
<1> USE DEF ApiInv
<1>1. /\ life' \in [Token -> 0..Lifetime]
      /\ \A n \in Node : \A j \in cache[n] : life'[j] = life[j]
  <2>1. Forget({r}, {}) /\ {r} \in SUBSET Request /\ {} \in SUBSET Node /\ Node \ {} = Node
    BY DEF Remove
  <2> QED BY <2>1, ForgetKeeps
<1>2. \A q \in Request : Open(q)' => req'[q] = req[q] /\ Open(q)
  BY DEF Remove, Open, ApiTypeOK
<1>3. ApiTypeOK'
  BY <1>1 DEF ApiTypeOK, Remove
<1>4. Remembered'
  BY <1>1, <1>2 DEF ApiTypeOK, Remembered, Remove, Valid
<1>5. \A k \in Token, c \in Node : Sent(k, c)' => Sent(k, c)
  BY <1>2 DEF Sent, Remove
<1> QED BY <1>3, <1>4, <1>5 DEF OneAudience

LEMMA RestartApiInv ==
  ASSUME ApiInv, NEW n \in Node, RestartApi(n)
  PROVE  ApiInv'
<1> USE DEF ApiInv
<1>1. /\ life' \in [Token -> 0..Lifetime]
      /\ \A m \in Node \ {n} : \A j \in cache[m] : life'[j] = life[j]
  BY ForgetKeeps DEF RestartApi
<1>2. \A q \in Request : Open(q)' => req'[q] = req[q] /\ Open(q)
  BY DEF RestartApi, Open, ApiTypeOK
<1>3. /\ cache'[n] = {} /\ accepted'[n] = {}
      /\ \A m \in Node \ {n} : cache'[m] = cache[m] /\ accepted'[m] = accepted[m]
  BY DEF RestartApi, ApiTypeOK
<1>4. ApiTypeOK'
  BY <1>1 DEF ApiTypeOK, RestartApi
<1>5. Remembered'
  BY <1>1, <1>2, <1>3 DEF ApiTypeOK, Remembered, Valid
<1>6. \A k \in Token, c \in Node : Sent(k, c)' => Sent(k, c)
  BY <1>2, <1>3 DEF Sent
<1> QED BY <1>4, <1>5, <1>6 DEF OneAudience

LEMMA ApiTickInv ==
  ASSUME ApiInv, ApiTick
  PROVE  ApiInv'
<1> USE DEF ApiInv
<1>1. ApiTypeOK'
  BY LifetimeNat DEF ApiTypeOK, ApiTick
<1>2. \A j \in Token : Valid(j)' <=> life[j] > 1
  BY DEF Valid, ApiTick, ApiTypeOK
<1>3. Remembered'
  BY <1>2 DEF ApiTypeOK, Remembered, ApiTick, Valid, Open
<1>4. \A k \in Token, c \in Node : Sent(k, c)' => Sent(k, c)
  BY DEF Sent, ApiTick, Open
<1> QED BY <1>1, <1>3, <1>4 DEF OneAudience

\* No step of the APIs or of the network breaks the invariant.
LEMMA ApiNextInv == ApiInv /\ [ApiNext]_apiVars => ApiInv'
<1> SUFFICES ASSUME ApiInv, [ApiNext]_apiVars PROVE ApiInv'
  OBVIOUS
<1>1. CASE UNCHANGED apiVars
  BY <1>1 DEF apiVars, ApiInv, ApiTypeOK, Remembered, OneAudience, Sent, Open, Valid
<1>2. CASE ApiNext
  BY <1>2, SendInv, RedeliverInv, CheckClaimsInv, AddToCacheInv, ServeInv, RemoveInv,
     RestartApiInv, ApiTickInv DEF ApiNext, Handle
<1> QED BY <1>1, <1>2

-----------------------------------------------------------------------------
\* A request that gets an answer of the cache, or past it, does so in AddToCache.
LEMMA PassesInAddToCache ==
  ASSUME ApiTypeOK, [ApiNext]_apiVars, NEW r \in Request, NEW s \in {"serving", "503"},
         Open(r), req[r].stage = "checked", req'[r] = [req[r] EXCEPT !.stage = s]
  PROVE  AddToCache(r)
<1>1. req[r] \in RequestRecord /\ req'[r] # Free /\ req'[r] # req[r]
      /\ req'[r].stage = s /\ req[r].stage # "sent" /\ req[r].stage # "serving"
  BY NodeApiAssumption DEF ApiTypeOK, Open, RequestRecord, Stage, Code
<1>2. \A q \in Request, j \in Token, n \in Node : ~Send(q, j, n)
  BY <1>1 DEF Send, Open, ApiTypeOK
<1>3. \A q \in Request, j \in Token, a, n \in Node : ~Redeliver(q, j, a, n)
  BY <1>1 DEF Redeliver, Open, ApiTypeOK
<1>4. \A q \in Request : ~CheckClaims(q) /\ ~Serve(q)
  BY <1>1 DEF CheckClaims, Serve, ApiTypeOK
<1>5. \A q \in Request : AddToCache(q) => q = r
  BY <1>1 DEF AddToCache, ApiTypeOK
<1>6. \A q \in Request : ~Remove(q)
  BY <1>1 DEF Remove, ApiTypeOK
<1>7. \A n \in Node : ~RestartApi(n)
  BY <1>1 DEF RestartApi
<1>8. ~ApiTick /\ ~UNCHANGED apiVars
  BY <1>1 DEF ApiTick, apiVars
<1> QED BY <1>2, <1>3, <1>4, <1>5, <1>6, <1>7, <1>8 DEF ApiNext, Handle

\* The answer tells what the cache held.
LEMMA StageAfterCache ==
  ASSUME ApiTypeOK, NEW r \in Request, AddToCache(r)
  PROVE  \/ /\ req'[r].stage = "403"
            /\ req[r].jti \in cache[req[r].to] /\ Valid(req[r].jti)
         \/ /\ req'[r].stage = "503"
            /\ Cardinality(Pruned(req[r].to)) >= MaxEntries
         \/ /\ req'[r].stage = "serving"
            /\ ~(req[r].jti \in cache[req[r].to] /\ Valid(req[r].jti))
<1>1. req[r] \in RequestRecord
  BY DEF ApiTypeOK, AddToCache, Open
<1>2. /\ req' = [req EXCEPT ![r].stage = "403"] => req'[r].stage = "403"
      /\ req' = [req EXCEPT ![r].stage = "503"] => req'[r].stage = "503"
      /\ req' = [req EXCEPT ![r].stage = "serving"] => req'[r].stage = "serving"
  BY <1>1 DEF ApiTypeOK, RequestRecord
<1> QED BY <1>2 DEF AddToCache

\* A step accepts no token that is accepted already and still valid.
LEMMA AcceptsOnce ==
  ASSUME ApiInv, [ApiNext]_apiVars, NEW r \in Request, NEW n \in Node,
         Open(r), req[r].stage = "checked", req'[r] = [req[r] EXCEPT !.stage = "serving"],
         Valid(req[r].jti)
  PROVE  req[r].jti \notin accepted[n]
<1> USE DEF ApiInv
<1>1. AddToCache(r)
  BY PassesInAddToCache
<1>2. req[r] \in RequestRecord /\ req[r].aud = req[r].to
  BY DEF ApiTypeOK, Open, Remembered
<1>3. req'[r].stage = "serving"
  BY <1>2 DEF RequestRecord
<1>4. req[r].jti \notin cache[req[r].to]
  BY <1>1, <1>3, StageAfterCache
<1>5. req[r].jti \notin accepted[req[r].to]
  BY <1>2, <1>4 DEF Remembered, RequestRecord
<1>6. Sent(req[r].jti, req[r].to)
  BY <1>2 DEF Sent
<1>7. req[r].jti \in accepted[n] => n = req[r].to
  BY <1>2, <1>6 DEF OneAudience, Sent, RequestRecord
<1> QED BY <1>5, <1>7

\* A full cache after pruning holds valid tokens only.
LEMMA RefusesOnlyWhenFull ==
  ASSUME ApiInv, [ApiNext]_apiVars, NEW r \in Request,
         Open(r), req[r].stage = "checked", req'[r] = [req[r] EXCEPT !.stage = "503"]
  PROVE  Cardinality(accepted[req[r].to]) >= MaxEntries
<1> USE DEF ApiInv
<1>1. AddToCache(r)
  BY PassesInAddToCache
<1>2. req[r] \in RequestRecord
  BY DEF ApiTypeOK, Open
<1>3. req'[r].stage = "503"
  BY <1>2 DEF RequestRecord
<1>4. Cardinality(Pruned(req[r].to)) >= MaxEntries
  BY <1>1, <1>3, StageAfterCache
<1>5. Pruned(req[r].to) = accepted[req[r].to]
  BY <1>2, <1>4 DEF Pruned, Remembered, RequestRecord
<1> QED BY <1>4, <1>5

\* For any use of the APIs: what they remember, and the two promises of the cache.
THEOREM ApiRemembers == ApiSpec => [](ApiTypeOK /\ Remembered)
<1>1. ApiSpec => []ApiInv
  BY ApiInitInv, ApiNextInv, PTL DEF ApiSpec
<1> QED BY <1>1, PTL DEF ApiInv

THEOREM ApiNoTokenTwice == ApiSpec => NoTokenTwice
<1>1. ApiInv /\ [ApiNext]_apiVars =>
        [\A r \in Request :
          (Open(r) /\ req[r].stage = "checked" /\ req'[r] = [req[r] EXCEPT !.stage = "serving"]
             /\ Valid(req[r].jti))
          => \A n \in Node : req[r].jti \notin accepted[n]]_apiVars
  BY AcceptsOnce
<1>2. ApiSpec => []ApiInv
  BY ApiInitInv, ApiNextInv, PTL DEF ApiSpec
<1> QED BY <1>1, <1>2, PTL DEF ApiSpec, NoTokenTwice

THEOREM ApiRefusedOnlyWhenFull == ApiSpec => RefusedOnlyWhenFull
<1>1. ApiInv /\ [ApiNext]_apiVars =>
        [\A r \in Request :
          (Open(r) /\ req[r].stage = "checked" /\ req'[r] = [req[r] EXCEPT !.stage = "503"])
          => Cardinality(accepted[req[r].to]) >= MaxEntries]_apiVars
  BY RefusesOnlyWhenFull
<1>2. ApiSpec => []ApiInv
  BY ApiInitInv, ApiNextInv, PTL DEF ApiSpec
<1> QED BY <1>1, <1>2, PTL DEF ApiSpec, RefusedOnlyWhenFull
=============================================================================
