--------------------------- MODULE TokenCacheProofs ---------------------------
(***************************************************************************)
(* Proofs about TokenCache, for every set of goroutines, resources and     *)
(* tokens, every token lifetime, clock resolution and expiry buffer.       *)
(***************************************************************************)
EXTENDS TokenCache, TLAPS

\* Rounding ExpiresIn to whole seconds never lengthens a token's life.
LEMMA ExpiresInBound == ExpiresIn \in Nat /\ ExpiresIn <= TokenTTL
  <1>1. \A n \in Nat, d \in Nat \ {0} : n \div d \in Nat /\ (n \div d) * d <= n
      OBVIOUS
  <1>2. \A n, d \in Nat : n * d \in Nat
      OBVIOUS
  <1> QED BY <1>1, <1>2, ConstantsAssumption DEF ExpiresIn

\* The fetches under way are those of the lock's holder: at most one.
LEMMA OneFetch ==
    ASSUME LockHeld, NEW g \in Goroutine, NEW h \in Goroutine,
           pc[g] \in {"request", "response"}, pc[h] \in {"request", "response"}
    PROVE  g = h
  BY DEF LockHeld

\* No goroutine is fetching while the lock is free.
LEMMA FreeLock ==
    ASSUME LockHeld, writer = None, NEW g \in Goroutine
    PROVE  pc[g] \notin {"request", "response"}
  BY NoneAssumption DEF LockHeld

\* What goroutine g may do.
Step(g) ==
    \/ \E r \in Resource : BeginGetToken(g, r)
    \/ ReadCache(g)
    \/ Lock(g)
    \/ \E t \in Token : ServerIssues(g, t)
    \/ StoreToken(g)
    \/ ReturnToken(g)
    \/ FetchFails(g)
    \/ \E t \in Token : BeginRevoke(g, t)
    \/ ServerRevokes(g)
    \/ RevokeAnswered(g)
    \/ Evict(g)
    \/ RevokeFails(g)

\* Time passes, a goroutine takes a step or nothing happens.
LEMMA NextSteps ==
    ASSUME [Next]_vars
    PROVE  Tick \/ (\E g \in Goroutine : Step(g)) \/ UNCHANGED vars
  BY DEF Next, Step

\* A step of a goroutine moves that goroutine alone.
LEMMA StepMoves ==
    ASSUME TypeOK, NEW g \in Goroutine, Step(g), NEW h \in Goroutine, h # g
    PROVE  pc'[h] = pc[h] /\ resource'[h] = resource[h]
  <1>1. \E step : pc' = [pc EXCEPT ![g] = step]
      BY DEF Step, BeginGetToken, BeginRevoke, ServerIssues, ReadCache, Lock, StoreToken,
         FetchFails, ServerRevokes, RevokeAnswered, Evict, RevokeFails, ReturnToken,
         Unlocked, Return, Goto
  <1>2. resource' = resource \/ \E r : resource' = [resource EXCEPT ![g] = r]
      BY DEF Step, BeginGetToken, BeginRevoke, ServerIssues, ReadCache, Lock, StoreToken,
         FetchFails, ServerRevokes, RevokeAnswered, Evict, RevokeFails, ReturnToken,
         Unlocked, Return, callVars
  <1> QED BY <1>1, <1>2 DEF TypeOK

\* Init establishes every part of IInv.
LEMMA InitIInv == Init => IInv
  <1> SUFFICES ASSUME Init PROVE IInv
      OBVIOUS
  <1>1. TypeOK
      BY DEF Init, TypeOK, Steps
  <1>2. LockHeld
      BY NoneAssumption DEF Init, LockHeld
  <1>3. CallsCoherent /\ HistoryCoherent
      BY DEF Init, CallsCoherent, CallCoherent, HistoryCoherent
  <1>4. CacheHonest /\ NoRedundantFetch
      BY DEF Init, CacheHonest, NoRedundantFetch
  <1> QED BY <1>1, <1>2, <1>3, <1>4 DEF IInv

\* Every step keeps the types.
LEMMA TypeStep == IInv /\ [Next]_vars => TypeOK'
  <1> SUFFICES ASSUME IInv, [Next]_vars PROVE TypeOK'
      OBVIOUS
  <1> TypeOK /\ CallsCoherent /\ HistoryCoherent
      BY DEF IInv
  <1> USE DEF TypeOK, Goto, Steps
  <1>1. CASE Tick
      BY <1>1 DEF Tick, callVars, historyVars
  <1>2. ASSUME NEW g \in Goroutine, NEW r \in Resource, BeginGetToken(g, r) PROVE TypeOK'
      BY <1>2 DEF BeginGetToken, historyVars
  <1>3. ASSUME NEW g \in Goroutine, ReadCache(g) PROVE TypeOK'
      BY <1>3 DEF ReadCache, Fresh, Unlocked, Entry, CallsCoherent, CallCoherent,
                  callVars, historyVars
  <1>4. ASSUME NEW g \in Goroutine, Lock(g) PROVE TypeOK'
      BY <1>4 DEF Lock, Fresh, Unlocked, Entry, CallsCoherent, CallCoherent,
                  callVars, historyVars
  <1>5. ASSUME NEW g \in Goroutine, NEW t \in Token, ServerIssues(g, t) PROVE TypeOK'
      BY <1>5, ConstantsAssumption DEF ServerIssues, Issued, CallsCoherent, CallCoherent, historyVars
  <1>6. ASSUME NEW g \in Goroutine, StoreToken(g) PROVE TypeOK'
      BY <1>6, ExpiresInBound DEF StoreToken, Unlocked, Entry, CallsCoherent, CallCoherent,
                                  historyVars
  <1>7. ASSUME NEW g \in Goroutine, FetchFails(g) \/ RevokeFails(g) PROVE TypeOK'
      BY <1>7 DEF FetchFails, RevokeFails, Return, historyVars
  <1>8. ASSUME NEW g \in Goroutine, NEW t \in Token, BeginRevoke(g, t) PROVE TypeOK'
      BY <1>8 DEF BeginRevoke, historyVars
  <1>9. ASSUME NEW g \in Goroutine, ServerRevokes(g) PROVE TypeOK'
      <2>1. server[held[g]] \in Issued
          BY <1>9 DEF ServerRevokes, CallsCoherent, CallCoherent, HistoryCoherent
      <2>2. [server[held[g]] EXCEPT !.revoked = TRUE] \in Issued
          BY <2>1 DEF Issued
      <2> QED BY <1>9, <2>2 DEF ServerRevokes, callVars, historyVars
  <1>10. ASSUME NEW g \in Goroutine, RevokeAnswered(g) PROVE TypeOK'
      BY <1>10 DEF RevokeAnswered, callVars, historyVars
  <1>11. ASSUME NEW g \in Goroutine, Evict(g) PROVE TypeOK'
      BY <1>11 DEF Evict, Return, CallsCoherent, CallCoherent
  <1>12. ASSUME NEW g \in Goroutine, ReturnToken(g) PROVE TypeOK'
      BY <1>12 DEF ReturnToken, Return, CallsCoherent, CallCoherent
  <1>13. CASE UNCHANGED vars
      BY <1>13 DEF vars
  <1> QED BY <1>1, <1>2, <1>3, <1>4, <1>5, <1>6, <1>7, <1>8, <1>9, <1>10, <1>11, <1>12, <1>13
          DEF Next

\* Every step keeps the lock with the fetch.
LEMMA LockStep == IInv /\ [Next]_vars => LockHeld'
  <1> SUFFICES ASSUME IInv, [Next]_vars PROVE LockHeld'
      OBVIOUS
  <1> TypeOK /\ LockHeld
      BY DEF IInv
  <1> USE DEF TypeOK, Goto, LockHeld
  <1>1. CASE Tick \/ UNCHANGED vars
      BY <1>1 DEF Tick, vars
  <1>2. ASSUME NEW g \in Goroutine,
               \/ \E r \in Resource : BeginGetToken(g, r)
               \/ \E t \in Token : BeginRevoke(g, t)
               \/ ReadCache(g)
               \/ ReturnToken(g)
               \/ ServerRevokes(g)
               \/ RevokeAnswered(g)
               \/ Evict(g)
               \/ RevokeFails(g)
        PROVE  LockHeld'
      <2>1. \E step \in Steps \ {"request", "response"} : pc' = [pc EXCEPT ![g] = step]
          BY <1>2 DEF BeginGetToken, BeginRevoke, ReadCache, ServerRevokes, RevokeAnswered,
                      Evict, RevokeFails, ReturnToken, Unlocked, Return, Steps
      <2>2. writer' = writer /\ pc[g] \notin {"request", "response"}
          BY <1>2 DEF BeginGetToken, BeginRevoke, ReadCache, ServerRevokes, RevokeAnswered,
                      Evict, RevokeFails, ReturnToken
      <2> QED BY <2>1, <2>2
  <1>3. ASSUME NEW g \in Goroutine, Lock(g) PROVE LockHeld'
      BY <1>3, NoneAssumption DEF Lock, Unlocked
  <1>4. ASSUME NEW g \in Goroutine, NEW t \in Token, ServerIssues(g, t) PROVE LockHeld'
      BY <1>4 DEF ServerIssues
  <1>5. ASSUME NEW g \in Goroutine, StoreToken(g) \/ FetchFails(g) PROVE LockHeld'
      BY <1>5, NoneAssumption DEF StoreToken, FetchFails, Unlocked, Return
  <1> QED BY <1>1, <1>2, <1>3, <1>4, <1>5 DEF Next
-----------------------------------------------------------------------------
\* What the server has issued it goes on knowing, with the same grant.
LEMMA ServerGrows ==
    ASSUME IInv, [Next]_vars, NEW t \in Token, server[t] # None
    PROVE  /\ server'[t] # None
           /\ server'[t].resource = server[t].resource
           /\ server'[t].expiresAt = server[t].expiresAt
  <1> TypeOK /\ CallsCoherent /\ HistoryCoherent
      BY DEF IInv
  <1>1. CASE UNCHANGED server
      BY <1>1
  <1>2. ASSUME NEW g \in Goroutine, NEW u \in Token, ServerIssues(g, u)
        PROVE  server'[t] = server[t]
      BY <1>2 DEF ServerIssues, TypeOK
  <1>3. ASSUME NEW g \in Goroutine, ServerRevokes(g)
        PROVE  /\ server'[t] # None
               /\ server'[t].resource = server[t].resource
               /\ server'[t].expiresAt = server[t].expiresAt
      <2>1. server[t] \in Issued /\ [server[t] EXCEPT !.revoked = TRUE] \in Issued
          BY DEF TypeOK, Issued
      <2>2. \/ server'[t] = server[t]
            \/ server'[t] = [server[t] EXCEPT !.revoked = TRUE]
          BY <1>3 DEF ServerRevokes, TypeOK, CallsCoherent, CallCoherent
      <2> QED BY <2>1, <2>2, NoneAssumption DEF Issued
  <1>4. \/ UNCHANGED server
        \/ \E g \in Goroutine : ServerRevokes(g) \/ \E u \in Token : ServerIssues(g, u)
      BY DEF Next, vars, Tick, BeginGetToken, ReadCache, Lock, StoreToken, FetchFails,
             ReturnToken, BeginRevoke, RevokeAnswered, Evict, RevokeFails
  <1> QED BY <1>1, <1>2, <1>3, <1>4

\* A call that is not moved by the step stays coherent, unless the step gives
\* its new token to someone else.
LEMMA OthersCoherent ==
    ASSUME IInv, [Next]_vars, NEW h \in Goroutine,
           pc'[h] = pc[h], resource'[h] = resource[h], now'[h] = now[h], held'[h] = held[h],
           revokedBefore'[h] = revokedBefore[h],
           clock <= clock', returned \subseteq returned', revoked \subseteq revoked',
           pc[h] = "response" =>
               /\ held[h] \notin returned'
               /\ \A k \in Goroutine : pc'[k] = "return" => held'[k] # held[h]
    PROVE  CallCoherent(h)'
  <1>0. TypeOK /\ TypeOK' /\ CallsCoherent /\ CallCoherent(h)
      BY TypeStep DEF IInv, CallsCoherent
  <1>1. now'[h] <= clock' /\ revokedBefore'[h] \subseteq revoked'
      BY <1>0 DEF TypeOK, CallCoherent
  <1>2. ASSUME pc[h] \in {"response", "return"}
        PROVE  /\ held'[h] # None
               /\ server'[held'[h]] # None
               /\ server'[held'[h]].resource = resource'[h]
               /\ server'[held'[h]].expiresAt = server[held[h]].expiresAt
      <2>1. held[h] \in Token /\ server[held[h]] # None /\ server[held[h]].resource = resource[h]
          BY <1>0, <1>2 DEF TypeOK, CallCoherent
      <2> QED BY <2>1, ServerGrows, NoneAssumption
  <1>3. pc'[h] = "response" =>
          /\ held'[h] # None /\ held'[h] \notin returned'
          /\ \A k \in Goroutine : pc'[k] = "return" => held'[k] # held'[h]
          /\ server'[held'[h]] # None
          /\ server'[held'[h]].resource = resource'[h]
          /\ now'[h] + TokenTTL <= server'[held'[h]].expiresAt
      BY <1>0, <1>2 DEF CallCoherent
  <1>4. pc'[h] = "return" =>
          /\ held'[h] # None /\ held'[h] \notin revokedBefore'[h]
          /\ server'[held'[h]] # None
          /\ server'[held'[h]].resource = resource'[h]
          /\ \/ now'[h] + TokenTTL <= server'[held'[h]].expiresAt
             \/ now'[h] + ExpiryBuffer < server'[held'[h]].expiresAt
      BY <1>0, <1>2 DEF CallCoherent
  <1>5. /\ pc'[h] \in {"read", "lock", "request", "response", "return"} => resource'[h] # None
        /\ pc'[h] \in {"revokeRequest", "revokeResponse", "evict"} => held'[h] \in returned'
      BY <1>0 DEF CallCoherent
  <1> QED BY <1>1, <1>3, <1>4, <1>5 DEF CallCoherent

\* A call that has returned is coherent.
LEMMA ReturnCoherent ==
    ASSUME TypeOK, NEW g \in Goroutine, NEW t, Return(g, t), clock' \in Nat
    PROVE  CallCoherent(g)'
  BY DEF TypeOK, Return, Goto, CallCoherent

\* A call that has let go of the lock with a good token is coherent.
LEMMA UnlockedCoherent ==
    ASSUME TypeOK, NEW g \in Goroutine, CallCoherent(g), resource[g] # None,
           NEW t \in Token, Unlocked(g, t), UNCHANGED <<clock, server>>,
           t \notin revokedBefore[g], server[t] # None, server[t].resource = resource[g],
           \/ now[g] + TokenTTL <= server[t].expiresAt
           \/ now[g] + ExpiryBuffer < server[t].expiresAt
    PROVE  CallCoherent(g)'
  <1>1. /\ pc'[g] = "return" /\ held'[g] = t
        /\ UNCHANGED <<resource, now, revokedBefore, revoked>>
      BY DEF Unlocked, Goto, TypeOK, historyVars
  <1> QED BY <1>1, NoneAssumption DEF CallCoherent

\* What GetToken finds fresh in the cache is the resource's, unrevoked, and
\* outlives the buffer at the server.
LEMMA FreshIsGood ==
    ASSUME IInv, NEW g \in Goroutine, pc[g] \in {"read", "lock"},
           Fresh(cache[resource[g]], now[g])
    PROVE  LET t == cache[resource[g]].accessToken IN
           /\ t \in Token /\ t \notin revokedBefore[g]
           /\ server[t] # None /\ server[t].resource = resource[g]
           /\ now[g] + ExpiryBuffer < server[t].expiresAt
  <1> DEFINE entry == cache[resource[g]]
             t == entry.accessToken
  <1>0. TypeOK /\ CallCoherent(g) /\ HistoryCoherent /\ CacheHonest /\ now[g] \in Nat
      BY DEF IInv, CallsCoherent, TypeOK
  <1>1. resource[g] \in Resource
      BY <1>0 DEF TypeOK, CallCoherent
  <1>2. entry # None /\ entry.expiresAt \in Nat /\ t \in Token
      BY <1>0, <1>1 DEF Fresh, TypeOK, Entry
  <1>3. t \notin revokedBefore[g]
      BY <1>0, <1>1, <1>2 DEF HistoryCoherent, CallCoherent
  <1>4. server[t] # None /\ server[t].resource = resource[g] /\ entry.expiresAt <= server[t].expiresAt
      BY <1>0, <1>1, <1>2 DEF CacheHonest
  <1>5. server[t].expiresAt \in Nat
      BY <1>0, <1>2, <1>4 DEF TypeOK, Issued
  <1>6. entry.expiresAt - now[g] > ExpiryBuffer
      BY DEF Fresh
  <1>7. now[g] + ExpiryBuffer < server[t].expiresAt
      BY <1>0, <1>2, <1>4, <1>5, <1>6, ConstantsAssumption
  <1> QED BY <1>2, <1>3, <1>4, <1>7

\* Every step keeps the calls coherent.
LEMMA CallsStep == IInv /\ [Next]_vars => CallsCoherent'
  <1> SUFFICES ASSUME IInv, [Next]_vars, NEW h \in Goroutine PROVE CallCoherent(h)'
      BY DEF CallsCoherent
  <1>0. TypeOK /\ TypeOK' /\ LockHeld /\ CallsCoherent /\ HistoryCoherent /\ CallCoherent(h)
      BY TypeStep DEF IInv, CallsCoherent
  <1> DEFINE Same == /\ pc'[h] = pc[h] /\ resource'[h] = resource[h] /\ now'[h] = now[h]
                     /\ held'[h] = held[h] /\ revokedBefore'[h] = revokedBefore[h]
  <1>1. CASE Tick \/ UNCHANGED vars
      BY <1>0, <1>1, OthersCoherent DEF Tick, vars, callVars, historyVars, TypeOK, CallCoherent
  <1>2. ASSUME NEW g \in Goroutine, Step(g), g # h
        PROVE  CallCoherent(h)'
      <2>1. Same
          BY <1>0, <1>2 DEF TypeOK, Step, BeginGetToken, BeginRevoke, ServerIssues, ReadCache,
             Lock, StoreToken, FetchFails, ServerRevokes, RevokeAnswered, Evict, RevokeFails,
             ReturnToken, Unlocked, Return, Goto, callVars
      <2>2. clock' = clock
          BY <1>2 DEF Step, BeginGetToken, BeginRevoke, ServerIssues, ReadCache, Lock,
             StoreToken, ReturnToken, FetchFails, ServerRevokes, RevokeAnswered, Evict,
             RevokeFails
      <2>3. /\ \/ returned' = returned
               \/ pc[g] = "return" /\ returned' = returned \cup {held[g]}
            /\ revoked \subseteq revoked'
          <3>1. CASE ReturnToken(g)
              BY <3>1 DEF ReturnToken
          <3>2. CASE Evict(g)
              BY <3>2 DEF Evict
          <3>3. CASE ~ReturnToken(g) /\ ~Evict(g)
              BY <1>2, <3>3 DEF Step, BeginGetToken, BeginRevoke, ServerIssues, ReadCache, Lock,
                 StoreToken, FetchFails, ServerRevokes, RevokeAnswered, RevokeFails,
                 Unlocked, historyVars
          <3> QED BY <3>1, <3>2, <3>3
      <2>4. ASSUME pc[h] = "response"
            PROVE  /\ held[h] \notin returned'
                   /\ \A k \in Goroutine : pc'[k] = "return" => held'[k] # held[h]
          <3>1. writer = h /\ held[h] \notin returned
                /\ \A k \in Goroutine : pc[k] = "return" => held[k] # held[h]
              BY <1>0, <2>4 DEF LockHeld, CallCoherent
          <3>2. held[h] \notin returned'
              BY <1>2, <2>3, <3>1
          <3>3. ~StoreToken(g) /\ ~ReadCache(g) /\ ~Lock(g)
              BY <1>0, <1>2, <2>4, <3>1, OneFetch, NoneAssumption DEF StoreToken, ReadCache, Lock
          <3>4. /\ pc'[g] # "return"
                /\ \A k \in Goroutine \ {g} : pc'[k] = pc[k] /\ held'[k] = held[k]
              BY <1>0, <1>2, <3>3 DEF TypeOK, Step, BeginGetToken, BeginRevoke, ServerIssues,
                 FetchFails, ServerRevokes, RevokeAnswered, Evict, RevokeFails, ReturnToken,
                 Return, Goto, callVars
          <3> QED BY <3>1, <3>2, <3>4
      <2> QED BY <1>0, <2>1, <2>2, <2>3, <2>4, OthersCoherent DEF TypeOK
  <1>3. ASSUME NEW r \in Resource, BeginGetToken(h, r) PROVE CallCoherent(h)'
      BY <1>0, <1>3, NoneAssumption DEF BeginGetToken, Goto, TypeOK, CallCoherent, historyVars
  <1>4. ASSUME ReadCache(h) \/ Lock(h) PROVE CallCoherent(h)'
      <2>0. pc[h] \in {"read", "lock"} /\ UNCHANGED <<clock, server>> /\ resource[h] # None
          BY <1>0, <1>4 DEF ReadCache, Lock, CallCoherent
      <2>1. CASE Fresh(cache[resource[h]], now[h])
          <3>1. Unlocked(h, cache[resource[h]].accessToken)
              BY <1>4, <2>1 DEF ReadCache, Lock
          <3> QED BY <1>0, <2>0, <2>1, <3>1, FreshIsGood, UnlockedCoherent
      <2>2. CASE ~Fresh(cache[resource[h]], now[h])
          <3>1. /\ pc' = [pc EXCEPT ![h] = IF ReadCache(h) THEN "lock" ELSE "request"]
                /\ UNCHANGED <<resource, now, clock, revokedBefore, revoked>>
              BY <1>4, <2>2 DEF ReadCache, Lock, Goto, callVars, historyVars
          <3> QED BY <1>0, <2>0, <3>1 DEF TypeOK, CallCoherent
      <2> QED BY <2>1, <2>2
  <1>5. ASSUME NEW t \in Token, ServerIssues(h, t) PROVE CallCoherent(h)'
      <2>1. /\ pc[h] = "request" /\ pc'[h] = "response" /\ held'[h] = t
            /\ resource'[h] = resource[h] /\ now'[h] = now[h]
            /\ UNCHANGED <<clock, returned, revoked, revokedBefore>>
            /\ \A k \in Goroutine \ {h} : pc'[k] = pc[k] /\ held'[k] = held[k]
          BY <1>0, <1>5 DEF ServerIssues, Goto, TypeOK, historyVars
      <2>2. server'[t] = [resource |-> resource[h], expiresAt |-> clock + TokenTTL,
                          revoked |-> FALSE]
          BY <1>0, <1>5 DEF ServerIssues, TypeOK
      <2>3. server'[t] \in Issued
          BY <1>0, <2>1, <2>2, ConstantsAssumption DEF Issued, TypeOK, CallCoherent
      <2>4. /\ t \notin returned
            /\ \A k \in Goroutine : pc'[k] = "return" => held'[k] # t
          BY <1>0, <1>5, <2>1 DEF ServerIssues, HistoryCoherent, CallsCoherent, CallCoherent
      <2>5. now[h] + TokenTTL <= clock + TokenTTL
          BY <1>0, ConstantsAssumption DEF TypeOK, CallCoherent
      <2>6. /\ server'[t] # None
            /\ server'[t].resource = resource[h]
            /\ now[h] + TokenTTL <= server'[t].expiresAt
          <3>1. server'[t] # None
              BY <2>3, NoneAssumption
          <3>2. server'[t].resource = resource[h] /\ server'[t].expiresAt = clock + TokenTTL
              BY <2>2
          <3> QED BY <2>5, <3>1, <3>2
      <2>7. /\ t # None /\ now'[h] <= clock' /\ resource'[h] # None
            /\ revokedBefore'[h] \subseteq revoked'
          BY <1>0, <2>1, NoneAssumption DEF CallCoherent
      <2>8. /\ held'[h] # None /\ held'[h] \notin returned'
            /\ \A k \in Goroutine : pc'[k] = "return" => held'[k] # held'[h]
            /\ server'[held'[h]] # None
            /\ server'[held'[h]].resource = resource'[h]
            /\ now'[h] + TokenTTL <= server'[held'[h]].expiresAt
          BY <2>1, <2>4, <2>6, <2>7
      <2> QED BY <2>1, <2>7, <2>8 DEF CallCoherent
  <1>6. ASSUME StoreToken(h) PROVE CallCoherent(h)'
      <2>1. /\ pc[h] = "response" /\ Unlocked(h, held[h]) /\ UNCHANGED <<clock, server>>
          BY <1>6 DEF StoreToken
      <2>2. /\ held[h] \in Token /\ held[h] \notin revokedBefore[h] /\ resource[h] # None
            /\ server[held[h]] # None /\ server[held[h]].resource = resource[h]
            /\ now[h] + TokenTTL <= server[held[h]].expiresAt
          BY <1>0, <2>1 DEF TypeOK, CallCoherent, HistoryCoherent
      <2> QED BY <1>0, <2>1, <2>2, UnlockedCoherent
  <1>7. ASSUME ReturnToken(h) \/ FetchFails(h) \/ Evict(h) \/ RevokeFails(h)
        PROVE  CallCoherent(h)'
      BY <1>0, <1>7, ReturnCoherent
         DEF ReturnToken, FetchFails, Evict, RevokeFails, TypeOK
  <1>8. ASSUME NEW t \in Token, BeginRevoke(h, t) PROVE CallCoherent(h)'
      BY <1>0, <1>8 DEF BeginRevoke, Goto, TypeOK, CallCoherent, historyVars
  <1>9. ASSUME ServerRevokes(h) \/ RevokeAnswered(h) PROVE CallCoherent(h)'
      BY <1>0, <1>9 DEF ServerRevokes, RevokeAnswered, Goto, TypeOK, CallCoherent,
                        callVars, historyVars
  <1>10. Step(h) => CallCoherent(h)'
      BY <1>3, <1>4, <1>5, <1>6, <1>7, <1>8, <1>9 DEF Step
  <1> QED BY <1>1, <1>2, <1>10, NextSteps
-----------------------------------------------------------------------------
\* How the cache can change: one entry is filled by the lock's holder, or
\* entries are evicted while no one holds the lock.
LEMMA CacheSteps ==
    ASSUME IInv, [Next]_vars
    PROVE  \/ \E g \in Goroutine : StoreToken(g)
           \/ \E g \in Goroutine : Evict(g)
           \/ UNCHANGED cache /\ revoked' = revoked
  BY DEF Next, vars, Tick, BeginGetToken, ReadCache, Lock, ServerIssues, FetchFails,
         BeginRevoke, ServerRevokes, RevokeAnswered, RevokeFails, ReturnToken,
         Unlocked, historyVars

\* Every step keeps the order issued, returned, revoked, and the cache within it.
LEMMA HistoryStep == IInv /\ [Next]_vars => HistoryCoherent'
  <1> SUFFICES ASSUME IInv, [Next]_vars PROVE HistoryCoherent'
      OBVIOUS
  <1>0. TypeOK /\ CallsCoherent /\ HistoryCoherent /\ CacheHonest
      BY DEF IInv
  <1>1. /\ returned \subseteq returned'
        /\ \A t \in returned' \ returned : t \in Token /\ server[t] # None
      <2>1. ASSUME NEW g \in Goroutine, ReturnToken(g)
            PROVE  /\ returned \subseteq returned'
                   /\ \A t \in returned' \ returned : t \in Token /\ server[t] # None
          BY <1>0, <2>1 DEF ReturnToken, TypeOK, CallsCoherent, CallCoherent
      <2>2. UNCHANGED returned \/ \E g \in Goroutine : ReturnToken(g)
          BY DEF Next, vars, Tick, BeginGetToken, ReadCache, Lock, StoreToken, ServerIssues,
                 FetchFails, BeginRevoke, ServerRevokes, RevokeAnswered, RevokeFails, Evict,
                 Unlocked, historyVars
      <2> QED BY <2>1, <2>2
  <1>2. \A t \in returned' : server'[t] # None
      BY <1>0, <1>1, ServerGrows DEF HistoryCoherent, TypeOK
  <1>3. ASSUME NEW g \in Goroutine, StoreToken(g) PROVE HistoryCoherent'
      <2>1. held[g] \notin revoked /\ held[g] \in Token
          BY <1>0, <1>3 DEF StoreToken, TypeOK, CallsCoherent, CallCoherent, HistoryCoherent
      <2>2. resource[g] \in Resource
          BY <1>0, <1>3 DEF StoreToken, TypeOK, CallsCoherent, CallCoherent
      <2>3. \A r \in Resource : cache'[r] # None => cache'[r].accessToken \notin revoked'
          BY <1>0, <1>3, <2>1, <2>2 DEF StoreToken, Unlocked, historyVars, TypeOK,
             HistoryCoherent
      <2> QED BY <1>0, <1>1, <1>2, <1>3, <2>3 DEF HistoryCoherent, StoreToken, Unlocked,
             historyVars
  <1>4. ASSUME NEW g \in Goroutine, Evict(g) PROVE HistoryCoherent'
      <2>1. held[g] \in returned
          BY <1>0, <1>4 DEF Evict, CallsCoherent, CallCoherent
      <2>2. \A r \in Resource : cache'[r] # None => cache'[r].accessToken \notin revoked'
          BY <1>0, <1>4 DEF Evict, HistoryCoherent
      <2> QED BY <1>0, <1>1, <1>2, <1>4, <2>1, <2>2 DEF HistoryCoherent, Evict
  <1>5. CASE UNCHANGED cache /\ revoked' = revoked
      BY <1>0, <1>1, <1>2, <1>5 DEF HistoryCoherent
  <1> QED BY <1>3, <1>4, <1>5, CacheSteps

\* Every step keeps the cache honest.
LEMMA HonestStep == IInv /\ [Next]_vars => CacheHonest'
  <1> SUFFICES ASSUME IInv, [Next]_vars, NEW r \in Resource, cache'[r] # None
               PROVE  /\ server'[cache'[r].accessToken] # None
                      /\ server'[cache'[r].accessToken].resource = r
                      /\ cache'[r].expiresAt <= server'[cache'[r].accessToken].expiresAt
      BY DEF CacheHonest
  <1>0. TypeOK /\ CallsCoherent /\ CacheHonest
      BY DEF IInv
  <1>1. CASE cache[r] # None /\ cache'[r] = cache[r]
      <2>1. cache[r].accessToken \in Token
          BY <1>0, <1>1 DEF TypeOK, Entry
      <2> QED BY <1>0, <1>1, <2>1, ServerGrows DEF CacheHonest
  <1>2. ASSUME NEW g \in Goroutine, StoreToken(g), resource[g] = r
        PROVE  /\ server'[cache'[r].accessToken] # None
               /\ server'[cache'[r].accessToken].resource = r
               /\ cache'[r].expiresAt <= server'[cache'[r].accessToken].expiresAt
      <2>1. /\ held[g] \in Token /\ server[held[g]] # None /\ server[held[g]].resource = r
            /\ now[g] + TokenTTL <= server[held[g]].expiresAt
          BY <1>0, <1>2 DEF StoreToken, TypeOK, CallsCoherent, CallCoherent
      <2>2. cache'[r] = [accessToken |-> held[g], expiresAt |-> now[g] + ExpiresIn]
          BY <1>0, <1>2 DEF StoreToken, TypeOK
      <2>3. now[g] \in Nat /\ server[held[g]].expiresAt \in Nat
          BY <1>0, <2>1 DEF TypeOK, Issued
      <2>4. now[g] + ExpiresIn <= server[held[g]].expiresAt
          BY <2>1, <2>3, ExpiresInBound, ConstantsAssumption
      <2> QED BY <1>2, <2>1, <2>2, <2>4 DEF StoreToken
  <1>3. ASSUME NEW g \in Goroutine, StoreToken(g) \/ Evict(g), resource[g] # r \/ Evict(g)
        PROVE  cache[r] # None /\ cache'[r] = cache[r]
      BY <1>0, <1>3 DEF StoreToken, Evict, TypeOK
  <1> QED BY <1>1, <1>2, <1>3, CacheSteps

\* Every step keeps the fetches needed.
LEMMA FetchStep == IInv /\ [Next]_vars => NoRedundantFetch'
  <1> SUFFICES ASSUME IInv, [Next]_vars, NEW h \in Goroutine,
                      pc'[h] \in {"request", "response"}
               PROVE  ~Fresh(cache'[resource'[h]], clock')
      BY DEF NoRedundantFetch, Fresh
  <1>0. TypeOK /\ TypeOK' /\ LockHeld /\ LockHeld' /\ CallsCoherent /\ NoRedundantFetch
      BY TypeStep, LockStep DEF IInv
  <1>1. ASSUME NEW entry \in Entry \cup {None}, NEW m \in Nat, NEW n \in Nat, m <= n,
               ~Fresh(entry, m)
        PROVE  ~Fresh(entry, n)
      BY <1>1, ConstantsAssumption DEF Fresh, Entry
  <1>2. CASE pc[h] \in {"request", "response"}
      <2>1. ~\E g \in Goroutine : StoreToken(g) \/ Evict(g)
          <3>1. ~\E g \in Goroutine : StoreToken(g)
              <4>1. ASSUME NEW g \in Goroutine, StoreToken(g)
                    PROVE  pc[g] = "response" /\ pc'[g] = "return"
                  BY <1>0, <4>1 DEF StoreToken, Unlocked, Goto, TypeOK
              <4> QED BY <1>0, <1>2, <4>1, OneFetch
          <3>2. ~\E g \in Goroutine : Evict(g)
              BY <1>0, <1>2, FreeLock DEF Evict
          <3> QED BY <3>1, <3>2
      <2>2. UNCHANGED cache
          BY <2>1, CacheSteps
      <2>3. resource'[h] = resource[h] /\ resource[h] \in Resource
          <3>1. resource[h] \in Resource
              BY <1>0, <1>2 DEF TypeOK, CallsCoherent, CallCoherent
          <3>2. CASE Tick \/ UNCHANGED vars
              BY <3>1, <3>2 DEF Tick, vars, callVars
          <3>3. ASSUME NEW g \in Goroutine, Step(g), g # h
                PROVE  resource'[h] = resource[h]
              BY <1>0, <3>3, StepMoves
          <3>4. CASE Step(h)
              <4>1. ~StoreToken(h) /\ ~FetchFails(h)
                  BY <1>0 DEF StoreToken, FetchFails, Unlocked, Return, Goto, TypeOK
              <4>2. \/ StoreToken(h) \/ FetchFails(h)
                    \/ \E t \in Token : ServerIssues(h, t)
                  BY <1>2, <3>4 DEF Step, BeginGetToken, ReadCache, Lock, BeginRevoke,
                     ReturnToken, ServerRevokes, RevokeAnswered, RevokeFails, Evict
              <4> QED BY <3>1, <4>1, <4>2 DEF ServerIssues
          <3> QED BY <3>1, <3>2, <3>3, <3>4, NextSteps
      <2>4. clock' \in Nat /\ clock <= clock'
          <3>1. clock' = clock \/ clock' = clock + 1
              BY DEF Next, vars, Tick, BeginGetToken, ReadCache, Lock, ServerIssues,
                 StoreToken, ReturnToken, FetchFails, BeginRevoke, ServerRevokes,
                 RevokeAnswered, RevokeFails, Evict
          <3> QED BY <1>0, <3>1 DEF TypeOK
      <2> QED BY <1>0, <1>1, <1>2, <2>2, <2>3, <2>4 DEF NoRedundantFetch, TypeOK
  <1>3. CASE pc[h] \notin {"request", "response"}
      <2>1. Lock(h)
          <3>1. ~(Tick \/ UNCHANGED vars)
              BY <1>3 DEF Tick, vars
          <3>2. ASSUME NEW g \in Goroutine, Step(g)
                PROVE  g = h
              BY <1>0, <1>3, <3>2, StepMoves
          <3>3. Step(h) => Lock(h)
              BY <1>0, <1>3 DEF Step, BeginGetToken, ReadCache, ServerIssues, StoreToken,
                 FetchFails, BeginRevoke, ServerRevokes, RevokeAnswered, RevokeFails,
                 Evict, ReturnToken, Unlocked, Return, Goto, TypeOK
          <3> QED BY <3>1, <3>2, <3>3, NextSteps
      <2>2. /\ ~Fresh(cache[resource[h]], now[h])
            /\ UNCHANGED <<cache, clock, resource>>
          BY <1>0, <2>1 DEF Lock, Unlocked, Goto, TypeOK, callVars
      <2>3. resource[h] \in Resource /\ now[h] \in Nat /\ now[h] <= clock
          BY <1>0, <2>1 DEF Lock, TypeOK, CallsCoherent, CallCoherent
      <2> QED BY <1>0, <1>1, <2>2, <2>3 DEF TypeOK
  <1> QED BY <1>2, <1>3
-----------------------------------------------------------------------------
\* The write lock, the calls under way, the cache and what was answered stay in
\* agreement in every reachable state of GetToken and Revoke.
THEOREM Inductive == Spec => []IInv
  <1>1. IInv /\ [Next]_vars => IInv'
      BY TypeStep, LockStep, CallsStep, HistoryStep, HonestStep, FetchStep DEF IInv
  <1> QED BY InitIInv, <1>1, PTL DEF Spec

\* The variables hold what the Go fields and locals can hold.
THEOREM TypeCorrect == Spec => []TypeOK
  <1>1. IInv => TypeOK
      BY DEF IInv
  <1> QED BY Inductive, <1>1, PTL

\* A cache entry is for the right resource and never outlives its token at the
\* server, for every latency, lifetime and rounding.
THEOREM HonestCorrect == Spec => []CacheHonest
  <1>1. IInv => CacheHonest
      BY DEF IInv
  <1> QED BY Inductive, <1>1, PTL

\* The double-checked lock never fetches what the cache has fresh.
THEOREM FetchCorrect == Spec => []NoRedundantFetch
  <1>1. IInv => NoRedundantFetch
      BY DEF IInv
  <1> QED BY Inductive, <1>1, PTL

\* A GetToken call that returns a token returns what it held when it unlocked.
LEMMA ServedFrom ==
    ASSUME IInv, [Next]_vars, NEW g \in Goroutine, NEW t \in Token, Serves(g, t)
    PROVE  pc[g] = "return" /\ t = held[g]
  <1>0. TypeOK
      BY DEF IInv
  <1>1. ASSUME NEW h \in Goroutine, Step(h)
        PROVE  h = g
      BY <1>0, <1>1, StepMoves DEF Serves
  <1>2. ~(Tick \/ UNCHANGED vars)
      BY DEF Serves, Tick, vars
  <1>3. Step(g)
      BY <1>1, <1>2, NextSteps
  <1>4. ReturnToken(g)
      BY <1>3 DEF Serves, Step, BeginGetToken, ReadCache, Lock, ServerIssues, StoreToken,
         FetchFails, BeginRevoke, ServerRevokes, RevokeAnswered, Evict, RevokeFails
  <1> QED BY <1>0, <1>4 DEF Serves, ReturnToken, Return, TypeOK

\* A call no longer than the expiry buffer returns a live token.
THEOREM ServedCorrect == Spec => ServedInTimeIsAlive
  <1>1. ASSUME IInv, [Next]_vars, NEW g \in Goroutine, NEW t \in Token, Serves(g, t),
               clock - now[g] <= ExpiryBuffer, clock - now[g] <= TokenTTL
        PROVE  /\ server[t] # None
               /\ server[t].resource = resource[g]
               /\ clock <= server[t].expiresAt
      <2>0. TypeOK /\ CallCoherent(g) /\ now[g] \in Nat /\ clock \in Nat
          BY <1>1 DEF IInv, TypeOK, CallsCoherent
      <2>1. /\ server[t] # None /\ server[t].resource = resource[g]
            /\ \/ now[g] + TokenTTL <= server[t].expiresAt
               \/ now[g] + ExpiryBuffer < server[t].expiresAt
          BY <1>1, <2>0, ServedFrom DEF CallCoherent
      <2>2. server[t].expiresAt \in Nat
          BY <2>0, <2>1 DEF TypeOK, Issued
      <2> QED BY <1>1, <2>0, <2>1, <2>2, ConstantsAssumption
  <1>2. IInv /\ [Next]_vars =>
          [\A g \in Goroutine, t \in Token :
             Serves(g, t) /\ clock - now[g] <= ExpiryBuffer /\ clock - now[g] <= TokenTTL =>
                 /\ server[t] # None
                 /\ server[t].resource = resource[g]
                 /\ clock <= server[t].expiresAt]_vars
      BY <1>1
  <1> QED BY Inductive, <1>2, PTL DEF Spec, ServedInTimeIsAlive

\* A token whose revocation was answered before a GetToken call began is not what
\* the call returns, though it returns after it has let go of the lock.
THEOREM RevokedCorrect == Spec => RevokedNeverServed
  <1>1. ASSUME IInv, [Next]_vars, NEW g \in Goroutine, NEW t \in Token, Serves(g, t)
        PROVE  t \notin revokedBefore[g]
      BY <1>1, ServedFrom DEF IInv, CallsCoherent, CallCoherent
  <1>2. IInv /\ [Next]_vars =>
          [\A g \in Goroutine, t \in Token : Serves(g, t) => t \notin revokedBefore[g]]_vars
      BY <1>1
  <1> QED BY Inductive, <1>2, PTL DEF Spec, RevokedNeverServed

=============================================================================
