-------------------------- MODULE ClientSessionProofs --------------------------
(***************************************************************************)
(* Proofs about ClientSession: which API requests may be refused, and that *)
(* nothing survives a restart of the server, for every number of           *)
(* goroutines, resources and tokens and every lifetime and expiry buffer.  *)
(***************************************************************************)
EXTENDS ClientSession, TokenCacheProofs

\* Who takes a step: the clock, a goroutine, someone behind the Client's back.
LEMMA SessionSteps ==
    ASSUME [SessionNext]_allVars
    PROVE  \/ Tick /\ UNCHANGED sessionVars
           \/ \E g \in Goroutine, r \in Resource : BeginRoundTrip(g, r)
           \/ \E g \in Goroutine : GetTokenStep(g)
           \/ \E g \in Goroutine, t \in Token : IssueToken(g, t)
           \/ \E g \in Goroutine, a \in {"ok", "unauthorized", "error"} : EndRoundTrip(g, a)
           \/ Restart
           \/ \E t \in Token : RevokeElsewhere(t)
           \/ Reregister
           \/ UNCHANGED allVars
  <1>1. ASSUME NEW g \in Goroutine, Send(g)
        PROVE  \E a \in {"ok", "unauthorized", "error"} : EndRoundTrip(g, a)
      <2>1. CASE Honoured(result[g])
          BY <1>1, <2>1 DEF Send
      <2>2. CASE ~Honoured(result[g])
          BY <1>1, <2>2 DEF Send
      <2> QED BY <2>1, <2>2
  <1>2. ASSUME NEW g \in Goroutine, TripFails(g)
        PROVE  \E a \in {"ok", "unauthorized", "error"} : EndRoundTrip(g, a)
      BY <1>2 DEF TripFails
  <1> QED BY <1>1, <1>2 DEF SessionNext

\* SessionInit establishes the invariant.
LEMMA InitSession == SessionInit => SessionIInv
  <1> SUFFICES ASSUME SessionInit PROVE SessionIInv
      OBVIOUS
  <1> USE DEF SessionInit
  <1>1. TypeOK
      BY InitIInv DEF IInv
  <1>2. SessionTypeOK
      BY <1>1 DEF SessionTypeOK
  <1>3. TokensAccounted
      BY DEF Init, TokensAccounted
  <1>4. CacheBacked
      BY DEF Init, CacheBacked
  <1>5. TripsCoherent
      <2> SUFFICES ASSUME NEW g \in Goroutine PROVE TripCoherent(g)
          BY DEF TripsCoherent
      <2>1. /\ clock = 0 /\ now[g] = 0 /\ began[g] = 0
            /\ pc[g] = "idle" /\ result[g] = None
          BY DEF Init
      <2> QED BY <2>1 DEF TripCoherent
  <1> QED BY <1>2, <1>3, <1>4, <1>5 DEF SessionIInv

-----------------------------------------------------------------------------
(* What becomes of a token.                                                *)

\* A token once drawn keeps its standing in a step, or is lost in it.
LEMMA TokenFate ==
    ASSUME SessionIInv, [SessionNext]_allVars, NEW t \in Token, t \in drawn
    PROVE  /\ t \in drawn'
           /\ \/ lostAt'[t] = lostAt[t] /\ (lostAt[t] = None => server'[t] = server[t])
              \/ lostAt[t] = None /\ lostAt'[t] = clock
  <1>0. SessionTypeOK /\ TokensAccounted /\ TypeOK
      BY DEF SessionIInv, SessionTypeOK
  <1>1. CASE Tick /\ UNCHANGED sessionVars
      BY <1>1 DEF Tick, sessionVars
  <1>2. CASE \E g \in Goroutine, r \in Resource : BeginRoundTrip(g, r)
      BY <1>2 DEF BeginRoundTrip, BeginGetToken
  <1>3. CASE \E g \in Goroutine : GetTokenStep(g)
      BY <1>3 DEF GetTokenStep, ReadCache, Lock, StoreToken, ReturnToken, FetchFails,
         sessionVars
  <1>4. CASE \E g \in Goroutine, u \in Token : IssueToken(g, u)
      BY <1>0, <1>4 DEF IssueToken, ServerIssues, TypeOK
  <1>5. CASE \E g \in Goroutine, a \in {"ok", "unauthorized", "error"} : EndRoundTrip(g, a)
      BY <1>5 DEF EndRoundTrip
  <1>6. CASE Restart
      BY <1>0, <1>6 DEF Restart, Lose, TokensAccounted
  <1>7. CASE \E u \in Token : RevokeElsewhere(u)
      BY <1>0, <1>7 DEF RevokeElsewhere, Lose, TypeOK
  <1>8. CASE Reregister
      BY <1>8 DEF Reregister
  <1>9. CASE UNCHANGED allVars
      BY <1>9 DEF allVars
  <1> QED BY <1>1, <1>2, <1>3, <1>4, <1>5, <1>6, <1>7, <1>8, <1>9, SessionSteps

\* What is true of a token a call has just fetched stays true.
LEMMA NewForKept ==
    ASSUME SessionIInv, [SessionNext]_allVars, NEW t \in Token, NEW n \in Nat,
           n <= clock, NewFor(t, n)
    PROVE  /\ t \in drawn'
           /\ lostAt'[t] = None => n + TokenTTL <= server'[t].expiresAt
           /\ lostAt'[t] # None => n <= lostAt'[t]
  <1>1. t \in drawn
      BY DEF NewFor
  <1>2. CASE lostAt'[t] = lostAt[t] /\ (lostAt[t] = None => server'[t] = server[t])
      BY <1>1, <1>2, TokenFate DEF NewFor
  <1>3. CASE lostAt[t] = None /\ lostAt'[t] = clock
      <2>1. lostAt'[t] # None
          BY <1>3, TimeAssumption DEF SessionIInv, SessionTypeOK, TypeOK
      <2> QED BY <1>1, <1>3, <2>1, TokenFate
  <1> QED BY <1>1, <1>2, <1>3, TokenFate

\* What is true of a token in the cache stays true.
LEMMA BackedKept ==
    ASSUME SessionIInv, [SessionNext]_allVars, NEW t \in Token, NEW e \in Nat,
           e <= clock + ExpiresIn, BackedUntil(t, e)
    PROVE  /\ t \in drawn'
           /\ lostAt'[t] = None => e <= server'[t].expiresAt
           /\ lostAt'[t] # None => e <= lostAt'[t] + ExpiresIn
  <1>1. t \in drawn
      BY DEF BackedUntil
  <1>2. CASE lostAt'[t] = lostAt[t] /\ (lostAt[t] = None => server'[t] = server[t])
      BY <1>1, <1>2, TokenFate DEF BackedUntil
  <1>3. CASE lostAt[t] = None /\ lostAt'[t] = clock
      <2>1. lostAt'[t] # None
          BY <1>3, TimeAssumption DEF SessionIInv, SessionTypeOK, TypeOK
      <2> QED BY <1>1, <1>3, <2>1, TokenFate
  <1> QED BY <1>1, <1>2, <1>3, TokenFate

\* A token found fresh and then lost was lost after the request began.
LEMMA JustifiedKept ==
    ASSUME SessionIInv, [SessionNext]_allVars, NEW t \in Token, NEW n \in Nat,
           n <= clock, Justified(t, n)
    PROVE  Justified(t, n)'
  <1>1. t \in drawn
      BY DEF Justified, NewFor, BackedUntil
  <1>2. CASE lostAt'[t] = lostAt[t] /\ (lostAt[t] = None => server'[t] = server[t])
      BY <1>1, <1>2, TokenFate DEF Justified, BackedUntil, NewFor
  <1>3. CASE lostAt[t] = None /\ lostAt'[t] = clock
      <2>1. lostAt'[t] # None
          BY <1>3, TimeAssumption DEF SessionIInv, SessionTypeOK, TypeOK
      <2> QED BY <1>1, <1>3, <2>1, TokenFate DEF Justified, NewFor
  <1> QED BY <1>1, <1>2, <1>3, TokenFate

-----------------------------------------------------------------------------
(* The parts of the invariant, one after the other.                        *)

\* What the server records of a token it issues.
LEMMA IssuedRecord ==
    ASSUME SessionIInv, NEW g \in Goroutine, NEW t \in Token, IssueToken(g, t)
    PROVE  [resource |-> resource[g], expiresAt |-> clock + TokenTTL, revoked |-> FALSE]
             \in Issued
  <1>1. TypeOK /\ SessionTypeOK /\ TripsCoherent
      BY DEF SessionIInv, SessionTypeOK
  <1>2. resource[g] \in Resource
      BY <1>1 DEF IssueToken, ServerIssues, TripsCoherent, TripCoherent, SessionTypeOK, TypeOK
  <1>3. clock + TokenTTL \in Nat
      BY <1>1, ConstantsAssumption DEF TypeOK
  <1> QED BY <1>2, <1>3 DEF Issued

\* Every step keeps the types of the Client's and the server's variables.
LEMMA SessionTypeStep == SessionIInv /\ [SessionNext]_allVars => SessionTypeOK'
  <1> SUFFICES ASSUME SessionIInv, [SessionNext]_allVars PROVE SessionTypeOK'
      OBVIOUS
  <1>0. /\ SessionTypeOK /\ TypeOK /\ CacheBacked /\ TripsCoherent
        /\ ExpiresIn \in Nat
      BY ExpiresInBound DEF SessionIInv, SessionTypeOK
  <1>1. CASE Tick /\ UNCHANGED sessionVars
      BY <1>0, <1>1 DEF Tick, sessionVars, callVars, historyVars, SessionTypeOK, TypeOK
  <1>2. ASSUME NEW g \in Goroutine, NEW r \in Resource, BeginRoundTrip(g, r)
        PROVE  SessionTypeOK'
      <2>1. TypeOK'
          BY <1>0, <1>2 DEF BeginRoundTrip, BeginGetToken, Goto, historyVars, TypeOK, Steps
      <2> QED BY <1>0, <1>2, <2>1 DEF BeginRoundTrip, BeginGetToken, SessionTypeOK, TypeOK
  <1>3. ASSUME NEW g \in Goroutine, GetTokenStep(g)
        PROVE  SessionTypeOK'
      <2>1. /\ pc[g] \in {"response", "return"} => held[g] \in Token
            /\ pc[g] # "idle" => resource[g] \in Resource
          BY <1>0 DEF TripsCoherent, TripCoherent, SessionTypeOK, TypeOK
      <2>2. CASE ReadCache(g) \/ Lock(g)
          <3>1. ASSUME Fresh(cache[resource[g]], now[g]), pc[g] # "idle"
                PROVE  cache[resource[g]].accessToken \in Token
              BY <1>0, <2>1, <3>1 DEF Fresh, TypeOK, Entry
          <3> QED BY <1>0, <1>3, <2>2, <3>1 DEF GetTokenStep, ReadCache, Lock, Unlocked,
                 Goto, callVars, historyVars, sessionVars, SessionTypeOK, TypeOK,
                 Steps
      <2>3. CASE StoreToken(g)
          <3>1. [accessToken |-> held[g], expiresAt |-> now[g] + ExpiresIn] \in Entry
              BY <1>0, <2>1, <2>3 DEF StoreToken, Entry, TypeOK
          <3> QED BY <1>0, <1>3, <2>1, <2>3, <3>1 DEF GetTokenStep, StoreToken, Unlocked,
                 Goto, historyVars, sessionVars, SessionTypeOK, TypeOK, Steps
      <2>4. CASE FetchFails(g)
          BY <1>0, <1>3, <2>4 DEF GetTokenStep, FetchFails, Return, Goto, historyVars,
             sessionVars, SessionTypeOK, TypeOK, Steps
      <2>5. CASE ReturnToken(g)
          BY <1>0, <1>3, <2>1, <2>5 DEF GetTokenStep, ReturnToken, Return, Goto,
             sessionVars, SessionTypeOK, TypeOK, Steps
      <2> QED BY <1>3, <2>2, <2>3, <2>4, <2>5 DEF GetTokenStep
  <1>4. ASSUME NEW g \in Goroutine, NEW t \in Token, IssueToken(g, t)
        PROVE  SessionTypeOK'
      <2>1. [resource |-> resource[g], expiresAt |-> clock + TokenTTL, revoked |-> FALSE]
              \in Issued
          BY <1>4, IssuedRecord
      <2> QED BY <1>0, <1>4, <2>1 DEF IssueToken, ServerIssues, Goto, historyVars,
             SessionTypeOK, TypeOK, Steps
  <1>5. ASSUME NEW g \in Goroutine, NEW a \in {"ok", "unauthorized", "error"},
               EndRoundTrip(g, a)
        PROVE  SessionTypeOK'
      BY <1>0, <1>5 DEF EndRoundTrip, historyVars, SessionTypeOK, TypeOK
  <1>6. CASE Restart
      BY <1>0, <1>6 DEF Restart, Lose, callVars, historyVars, SessionTypeOK, TypeOK
  <1>7. ASSUME NEW t \in Token, RevokeElsewhere(t)
        PROVE  SessionTypeOK'
      <2>1. server[t] \in Issued
          BY <1>0, <1>7 DEF RevokeElsewhere, TypeOK
      <2>2. [server[t] EXCEPT !.revoked = TRUE] \in Issued
          BY <2>1 DEF Issued
      <2>3. server' = [server EXCEPT ![t] = [server[t] EXCEPT !.revoked = TRUE]]
          BY <1>7 DEF RevokeElsewhere
      <2>4. server' \in [Token -> Issued \cup {None}]
          BY <1>0, <2>2, <2>3 DEF TypeOK
      <2> QED BY <1>0, <1>7, <2>4 DEF RevokeElsewhere, Lose, callVars, historyVars,
             SessionTypeOK, TypeOK
  <1>8. CASE Reregister
      BY <1>0, <1>8 DEF Reregister, callVars, historyVars, SessionTypeOK, TypeOK
  <1>9. CASE UNCHANGED allVars
      BY <1>0, <1>9 DEF allVars, SessionTypeOK, TypeOK
  <1> QED BY <1>1, <1>2, <1>3, <1>4, <1>5, <1>6, <1>7, <1>8, <1>9, SessionSteps

\* The books of the server: a token is issued once, lost once and for all, and
\* no token is there while the client is not registered.
LEMMA TokensStep == SessionIInv /\ [SessionNext]_allVars => TokensAccounted'
  <1> SUFFICES ASSUME SessionIInv, [SessionNext]_allVars PROVE TokensAccounted'
      OBVIOUS
  <1>0. SessionTypeOK /\ TypeOK /\ TokensAccounted
      BY DEF SessionIInv, SessionTypeOK
  <1>1. CASE Tick /\ UNCHANGED sessionVars
      <2> SUFFICES ASSUME NEW t \in Token, lostAt[t] # None PROVE lostAt[t] <= clock + 1
          BY <1>0, <1>1 DEF Tick, sessionVars, TokensAccounted
      <2> QED BY <1>0 DEF TokensAccounted, SessionTypeOK, TypeOK
  <1>2. CASE \E g \in Goroutine, r \in Resource : BeginRoundTrip(g, r)
      BY <1>0, <1>2 DEF BeginRoundTrip, BeginGetToken, TokensAccounted
  <1>3. CASE \E g \in Goroutine : GetTokenStep(g)
      BY <1>0, <1>3 DEF GetTokenStep, ReadCache, Lock, StoreToken, ReturnToken, FetchFails,
         sessionVars, TokensAccounted
  <1>4. ASSUME NEW g \in Goroutine, NEW t \in Token, IssueToken(g, t)
        PROVE  TokensAccounted'
      <2>1. /\ server'[t] = [resource |-> resource[g], expiresAt |-> clock + TokenTTL,
                             revoked |-> FALSE]
            /\ \A u \in Token \ {t} : server'[u] = server[u]
          BY <1>0, <1>4 DEF IssueToken, ServerIssues, TypeOK
      <2>2. lostAt[t] = None
          BY <1>0, <1>4 DEF IssueToken, TokensAccounted
      <2>3. [resource |-> resource[g], expiresAt |-> clock + TokenTTL, revoked |-> FALSE]
              # None
          BY <1>4, NoneAssumption, IssuedRecord
      <2> QED BY <1>0, <1>4, <2>1, <2>2, <2>3 DEF IssueToken, ServerIssues, TokensAccounted
  <1>5. CASE \E g \in Goroutine, a \in {"ok", "unauthorized", "error"} : EndRoundTrip(g, a)
      BY <1>0, <1>5 DEF EndRoundTrip, TokensAccounted
  <1>6. CASE Restart
      <2>1. clock # None
          BY <1>0, TimeAssumption DEF TypeOK
      <2> QED BY <1>0, <1>6, <2>1 DEF Restart, Lose, TokensAccounted, TypeOK
  <1>7. ASSUME NEW t \in Token, RevokeElsewhere(t)
        PROVE  TokensAccounted'
      <2>1. clock # None /\ clock \in Nat
          BY <1>0, TimeAssumption DEF TypeOK
      <2>2. server[t] \in Issued /\ server[t] # None
          BY <1>0, <1>7 DEF RevokeElsewhere, TypeOK
      <2>3. /\ server'[t] = [server[t] EXCEPT !.revoked = TRUE]
            /\ \A u \in Token \ {t} : server'[u] = server[u]
          BY <1>0, <1>7 DEF RevokeElsewhere, TypeOK
      <2>4. server'[t].revoked
          BY <2>2, <2>3 DEF Issued
      <2>5. lostAt'[t] # None /\ lostAt'[t] <= clock
          BY <1>0, <1>7, <2>1 DEF RevokeElsewhere, Lose, TokensAccounted
      <2> QED BY <1>0, <1>7, <2>1, <2>2, <2>3, <2>4, <2>5
             DEF RevokeElsewhere, Lose, TokensAccounted
  <1>8. CASE Reregister
      BY <1>0, <1>8 DEF Reregister, TokensAccounted
  <1>9. CASE UNCHANGED allVars
      BY <1>0, <1>9 DEF allVars, TokensAccounted
  <1> QED BY <1>1, <1>2, <1>3, <1>4, <1>5, <1>6, <1>7, <1>8, <1>9, SessionSteps

\* Time does not go back.
LEMMA ClockGrows ==
    ASSUME SessionIInv, [SessionNext]_allVars
    PROVE  clock \in Nat /\ clock' \in Nat /\ clock <= clock'
  <1>1. clock \in Nat
      BY DEF SessionIInv, SessionTypeOK, TypeOK
  <1>2. clock' = clock \/ clock' = clock + 1
      BY SessionSteps DEF Tick, BeginRoundTrip, BeginGetToken, GetTokenStep, ReadCache,
         Lock, StoreToken, ReturnToken, FetchFails, IssueToken, ServerIssues, EndRoundTrip, Restart,
         RevokeElsewhere, Reregister, allVars
  <1> QED BY <1>1, <1>2

\* A cached token is lost no earlier than ExpiresIn before its entry goes stale.
LEMMA CacheStep == SessionIInv /\ [SessionNext]_allVars => CacheBacked'
  <1> SUFFICES ASSUME SessionIInv, [SessionNext]_allVars, NEW r \in Resource, cache'[r] # None
               PROVE  /\ cache'[r].expiresAt <= clock' + ExpiresIn
                      /\ BackedUntil(cache[r].accessToken, cache[r].expiresAt)'
      BY DEF CacheBacked
  <1>0. /\ SessionTypeOK /\ TypeOK /\ CacheBacked /\ TripsCoherent
        /\ ExpiresIn \in Nat /\ ExpiresIn <= TokenTTL
        /\ clock \in Nat /\ clock' \in Nat /\ clock <= clock'
      BY ClockGrows, ExpiresInBound DEF SessionIInv, SessionTypeOK
  <1>1. CASE cache'[r] = cache[r]
      <2>1. /\ cache[r].accessToken \in Token /\ cache[r].expiresAt \in Nat
            /\ cache[r].expiresAt <= clock + ExpiresIn
            /\ BackedUntil(cache[r].accessToken, cache[r].expiresAt)
          BY <1>0, <1>1 DEF CacheBacked, TypeOK, Entry
      <2> QED BY <1>0, <1>1, <2>1, BackedKept DEF BackedUntil
  <1>2. ASSUME NEW g \in Goroutine, StoreToken(g), UNCHANGED sessionVars,
               cache'[r] # cache[r]
        PROVE  /\ cache'[r].expiresAt <= clock' + ExpiresIn
               /\ BackedUntil(cache[r].accessToken, cache[r].expiresAt)'
      <2>1. cache'[r] = [accessToken |-> held[g], expiresAt |-> now[g] + ExpiresIn]
          BY <1>0, <1>2 DEF StoreToken, TypeOK
      <2>2. cache'[r].accessToken = held[g] /\ cache'[r].expiresAt = now[g] + ExpiresIn
          BY <2>1
      <2>3. /\ held[g] \in Token /\ now[g] \in Nat /\ now[g] <= clock
            /\ NewFor(held[g], now[g])
          BY <1>0, <1>2 DEF StoreToken, TripsCoherent, TripCoherent, TypeOK
      <2>4. /\ held[g] \in drawn'
            /\ lostAt'[held[g]] = None => now[g] + TokenTTL <= server'[held[g]].expiresAt
            /\ lostAt'[held[g]] # None => now[g] <= lostAt'[held[g]]
          BY <2>3, NewForKept
      <2>5. /\ lostAt'[held[g]] # None => lostAt'[held[g]] \in Nat
            /\ lostAt'[held[g]] = None => server'[held[g]].expiresAt \in Nat
          <3>1. SessionTypeOK' /\ TokensAccounted'
              BY SessionTypeStep, TokensStep
          <3> QED BY <2>3, <2>4, <3>1 DEF SessionTypeOK, TypeOK, TokensAccounted, Issued
      <2>6. lostAt'[held[g]] = None => now[g] + ExpiresIn <= server'[held[g]].expiresAt
          BY <1>0, <2>3, <2>4, <2>5, ConstantsAssumption
      <2>7. lostAt'[held[g]] # None => now[g] + ExpiresIn <= lostAt'[held[g]] + ExpiresIn
          BY <1>0, <2>3, <2>4, <2>5
      <2> QED BY <1>0, <2>2, <2>3, <2>4, <2>6, <2>7 DEF BackedUntil
  <1>3. CASE Reregister
      BY <1>3 DEF Reregister
  <1> QED BY <1>1, <1>2, <1>3, SessionSteps DEF Tick, BeginRoundTrip, BeginGetToken,
         GetTokenStep, ReadCache, Lock, ReturnToken, FetchFails, IssueToken, ServerIssues,
         EndRoundTrip, Restart, RevokeElsewhere, allVars

\* A step that leaves a goroutine's call alone leaves it coherent.
LEMMA TripLeft ==
    ASSUME SessionIInv, [SessionNext]_allVars, NEW g \in Goroutine,
           clock' \in Nat, clock <= clock',
           pc'[g] = pc[g], resource'[g] = resource[g], now'[g] = now[g],
           held'[g] = held[g], result'[g] = result[g],
           trip'[g] = trip[g], began'[g] = began[g]
    PROVE  TripCoherent(g)'
  <1>0. /\ TripCoherent(g) /\ now[g] \in Nat /\ began[g] \in Nat /\ clock \in Nat
        /\ held[g] # None => held[g] \in Token
        /\ result[g] # None => result[g] \in Token
      BY DEF SessionIInv, SessionTypeOK, TypeOK, TripsCoherent
  <1>1. now'[g] <= clock' /\ began'[g] <= clock'
      BY <1>0 DEF TripCoherent
  <1>2. pc'[g] = "response" => held'[g] # None /\ NewFor(held[g], now[g])'
      BY <1>0, NewForKept DEF TripCoherent, NewFor
  <1>3. \A t \in Token, n \in Nat : n <= clock /\ Justified(t, n) =>
          \/ /\ t \in drawn'
             /\ lostAt'[t] = None => n + TokenTTL <= server'[t].expiresAt
             /\ lostAt'[t] # None => n <= lostAt'[t]
          \/ /\ t \in drawn'
             /\ lostAt'[t] = None => n + ExpiryBuffer + 1 <= server'[t].expiresAt
             /\ lostAt'[t] # None => n + ExpiryBuffer + 1 <= lostAt'[t] + ExpiresIn
      BY JustifiedKept DEF Justified, NewFor, BackedUntil
  <1>4. pc'[g] = "return" => held'[g] # None /\ Justified(held[g], now[g])'
      BY <1>0, <1>3 DEF TripCoherent, Justified, NewFor, BackedUntil
  <1>5. result'[g] # None => trip'[g] # None /\ Justified(result[g], began[g])'
      BY <1>0, <1>3 DEF TripCoherent, Justified, NewFor, BackedUntil
  <1> QED BY <1>0, <1>1, <1>2, <1>4, <1>5 DEF TripCoherent

\* What GetToken finds fresh in the cache justifies the request it is for.
LEMMA FoundFresh ==
    ASSUME SessionIInv, NEW g \in Goroutine, pc[g] \in {"read", "lock"},
           Fresh(cache[resource[g]], now[g])
    PROVE  /\ cache[resource[g]].accessToken \in Token
           /\ BackedUntil(cache[resource[g]].accessToken, began[g] + ExpiryBuffer + 1)
  <1> DEFINE entry == cache[resource[g]]
             t == entry.accessToken
  <1>0. SessionTypeOK /\ TypeOK /\ TokensAccounted /\ ExpiresIn \in Nat /\ ExpiryBuffer \in Nat
      BY ExpiresInBound, ConstantsAssumption DEF SessionIInv, SessionTypeOK
  <1>1. resource[g] \in Resource /\ now[g] = began[g] /\ began[g] \in Nat
      BY <1>0 DEF SessionIInv, SessionTypeOK, TypeOK, TripsCoherent, TripCoherent
  <1>2. entry # None /\ t \in Token /\ entry.expiresAt \in Nat
      BY <1>0, <1>1 DEF Fresh, TypeOK, Entry
  <1>3. BackedUntil(t, entry.expiresAt)
      BY <1>1, <1>2 DEF SessionIInv, CacheBacked
  <1>4. began[g] + ExpiryBuffer + 1 <= entry.expiresAt
      BY <1>0, <1>1, <1>2 DEF Fresh
  <1>5. /\ lostAt[t] # None => lostAt[t] \in Nat
        /\ lostAt[t] = None => server[t].expiresAt \in Nat
      BY <1>0, <1>2, <1>3 DEF SessionTypeOK, TypeOK, TokensAccounted, BackedUntil, Issued
  <1> HIDE DEF entry, t
  <1>6. BackedUntil(t, began[g] + ExpiryBuffer + 1)
      BY <1>0, <1>1, <1>2, <1>3, <1>4, <1>5 DEF BackedUntil
  <1> QED BY <1>2, <1>6 DEF t, entry

\* A goroutine's step keeps its own call coherent.
LEMMA OwnTrip ==
    ASSUME SessionIInv, [SessionNext]_allVars, NEW g \in Goroutine,
           \/ \E r \in Resource : BeginRoundTrip(g, r)
           \/ GetTokenStep(g)
           \/ \E t \in Token : IssueToken(g, t)
           \/ \E a \in {"ok", "unauthorized", "error"} : EndRoundTrip(g, a)
    PROVE  TripCoherent(g)'
  <1>0. /\ SessionTypeOK /\ TypeOK /\ TripCoherent(g) /\ TokensAccounted
        /\ clock \in Nat /\ now[g] \in Nat /\ began[g] \in Nat
      BY DEF SessionIInv, SessionTypeOK, TypeOK, TripsCoherent
  <1>1. ASSUME NEW r \in Resource, BeginRoundTrip(g, r)
        PROVE  TripCoherent(g)'
      <2>1. /\ pc'[g] = "read" /\ resource'[g] = r /\ trip'[g] = r /\ clock' = clock
            /\ now'[g] = clock /\ began'[g] = clock /\ result'[g] = None
          BY <1>0, <1>1 DEF BeginRoundTrip, BeginGetToken, Goto, SessionTypeOK, TypeOK
      <2> QED BY <1>0, <2>1, NoneAssumption DEF TripCoherent
  <1>2. CASE GetTokenStep(g)
      <2>0. /\ clock' = clock /\ server' = server
            /\ UNCHANGED <<drawn, lostAt, trip, began>>
          BY <1>2 DEF GetTokenStep, ReadCache, Lock, StoreToken, ReturnToken, FetchFails,
         sessionVars
      <2>1. CASE ReadCache(g) /\ ~Fresh(cache[resource[g]], now[g])
          <3>1. /\ pc'[g] = "lock" /\ pc[g] = "read"
                /\ UNCHANGED <<resource, now, held, result>>
              BY <1>0, <2>1 DEF ReadCache, Goto, callVars, TypeOK
          <3> QED BY <1>0, <2>0, <3>1 DEF TripCoherent
      <2>2. CASE Lock(g) /\ ~Fresh(cache[resource[g]], now[g])
          <3>1. /\ pc'[g] = "request" /\ pc[g] = "lock"
                /\ UNCHANGED <<resource, now, held, result>>
              BY <1>0, <2>2 DEF Lock, Goto, callVars, TypeOK
          <3> QED BY <1>0, <2>0, <3>1 DEF TripCoherent
      <2>3. CASE (ReadCache(g) \/ Lock(g)) /\ Fresh(cache[resource[g]], now[g])
          <3> DEFINE t == cache[resource[g]].accessToken
          <3>1. /\ pc[g] \in {"read", "lock"} /\ pc'[g] = "return" /\ held'[g] = t
                /\ UNCHANGED <<resource, now, result>>
              BY <1>0, <2>3 DEF ReadCache, Lock, Unlocked, Goto, TypeOK
          <3>2. t \in Token /\ Justified(t, began[g])
              BY <2>3, <3>1, FoundFresh DEF Justified
          <3> HIDE DEF t
          <3> QED BY <1>0, <2>0, <3>1, <3>2, NoneAssumption
                 DEF TripCoherent, Justified, NewFor, BackedUntil
      <2>4. CASE StoreToken(g)
          <3>1. /\ pc[g] = "response" /\ pc'[g] = "return" /\ held'[g] = held[g]
                /\ UNCHANGED <<resource, now, result>>
              BY <1>0, <2>4 DEF StoreToken, Unlocked, Goto, TypeOK
          <3>2. held[g] # None /\ NewFor(held[g], began[g])
              BY <1>0, <3>1 DEF TripCoherent
          <3> QED BY <1>0, <2>0, <3>1, <3>2 DEF TripCoherent, Justified, NewFor
      <2>5. CASE ReturnToken(g)
          <3>1. /\ pc[g] = "return" /\ pc'[g] = "idle" /\ now'[g] = 0
                /\ result'[g] = held[g]
              BY <1>0, <2>5 DEF ReturnToken, Return, Goto, TypeOK
          <3>2. Justified(held[g], began[g]) /\ trip[g] # None
              BY <1>0, <3>1 DEF TripCoherent
          <3> QED BY <1>0, <2>0, <3>1, <3>2 DEF TripCoherent, Justified, NewFor, BackedUntil
      <2>6. CASE FetchFails(g)
          <3>1. pc'[g] = "idle" /\ now'[g] = 0 /\ result'[g] = None
              BY <1>0, <2>6 DEF FetchFails, Return, Goto, TypeOK
          <3> QED BY <1>0, <2>0, <3>1 DEF TripCoherent
      <2> QED BY <1>2, <2>1, <2>2, <2>3, <2>4, <2>5, <2>6 DEF GetTokenStep
  <1>3. ASSUME NEW t \in Token, IssueToken(g, t)
        PROVE  TripCoherent(g)'
      <2>1. /\ pc[g] = "request" /\ pc'[g] = "response" /\ held'[g] = t /\ clock' = clock
            /\ UNCHANGED <<resource, now, result, trip, began, lostAt>>
            /\ t \in drawn' /\ t \notin drawn
            /\ server'[t].expiresAt = clock + TokenTTL
          BY <1>0, <1>3 DEF IssueToken, ServerIssues, Goto, TypeOK
      <2>2. lostAt[t] = None /\ t # None
          BY <1>0, <2>1, NoneAssumption DEF TokensAccounted
      <2>3. now[g] + TokenTTL <= clock + TokenTTL
          BY <1>0, ConstantsAssumption DEF TripCoherent
      <2> QED BY <1>0, <2>1, <2>2, <2>3 DEF TripCoherent, NewFor
  <1>4. ASSUME NEW a \in {"ok", "unauthorized", "error"}, EndRoundTrip(g, a)
        PROVE  TripCoherent(g)'
      <2>1. /\ pc'[g] = "idle" /\ now'[g] = now[g] /\ clock' = clock /\ began'[g] = 0
            /\ result'[g] = None
          BY <1>0, <1>4 DEF EndRoundTrip, SessionTypeOK, TypeOK
      <2> QED BY <1>0, <2>1 DEF TripCoherent
  <1> QED BY <1>1, <1>2, <1>3, <1>4

\* Every step keeps the calls of all goroutines coherent.
LEMMA TripsStep == SessionIInv /\ [SessionNext]_allVars => TripsCoherent'
  <1> SUFFICES ASSUME SessionIInv, [SessionNext]_allVars, NEW h \in Goroutine
               PROVE  TripCoherent(h)'
      BY DEF TripsCoherent
  <1>0. SessionTypeOK /\ TypeOK
      BY DEF SessionIInv, SessionTypeOK
  <1> DEFINE Left == /\ pc'[h] = pc[h] /\ resource'[h] = resource[h] /\ now'[h] = now[h]
                     /\ held'[h] = held[h] /\ result'[h] = result[h]
                     /\ trip'[h] = trip[h] /\ began'[h] = began[h]
             Moves(g) == \/ \E r \in Resource : BeginRoundTrip(g, r)
                         \/ GetTokenStep(g)
                         \/ \E t \in Token : IssueToken(g, t)
                         \/ \E a \in {"ok", "unauthorized", "error"} : EndRoundTrip(g, a)
  <1>1. ASSUME NEW g \in Goroutine, h # g, Moves(g)
        PROVE  Left
      BY <1>0, <1>1 DEF BeginRoundTrip, BeginGetToken, GetTokenStep, ReadCache, Lock,
         StoreToken, FetchFails, IssueToken, ServerIssues, EndRoundTrip, Unlocked,
         ReturnToken, Return, Goto, callVars, sessionVars, SessionTypeOK, TypeOK
  <1>2. ASSUME \/ Tick /\ UNCHANGED sessionVars
               \/ Restart
               \/ \E t \in Token : RevokeElsewhere(t)
               \/ Reregister
               \/ UNCHANGED allVars
        PROVE  Left
      BY <1>2 DEF Tick, Restart, RevokeElsewhere, Reregister, callVars, sessionVars, allVars
  <1>3. Left => TripCoherent(h)'
      BY TripLeft, ClockGrows
  <1>4. Moves(h) => TripCoherent(h)'
      BY OwnTrip
  <1>5. \/ \E g \in Goroutine : Moves(g)
        \/ Tick /\ UNCHANGED sessionVars
        \/ Restart
        \/ \E t \in Token : RevokeElsewhere(t)
        \/ Reregister
        \/ UNCHANGED allVars
      BY SessionSteps
  <1> HIDE DEF Left, Moves
  <1> QED BY <1>1, <1>2, <1>3, <1>4, <1>5

-----------------------------------------------------------------------------
\* What the server lost, what the cache still holds and what the requests under
\* way carry bound one another in time, in every reachable state.
THEOREM SessionInductive == SessionSpec => []SessionIInv
  <1>1. SessionIInv /\ [SessionNext]_allVars => SessionIInv'
      BY SessionTypeStep, TokensStep, CacheStep, TripsStep DEF SessionIInv
  <1> QED BY InitSession, <1>1, PTL DEF SessionSpec

\* A RoundTrip that is answered by the API ends with the answer of Send.
LEMMA AnsweredBySend ==
    ASSUME SessionIInv, [SessionNext]_allVars, NEW g \in Goroutine,
           trip[g] # None, trip'[g] = None, answer'[g] \in {"ok", "unauthorized"}
    PROVE  /\ result[g] \in Token
           /\ answer'[g] = IF Honoured(result[g]) THEN "ok" ELSE "unauthorized"
  <1>0. SessionTypeOK /\ TypeOK
      BY DEF SessionIInv, SessionTypeOK
  <1>1. ASSUME NEW h \in Goroutine, NEW a \in {"ok", "unauthorized", "error"},
               EndRoundTrip(h, a)
        PROVE  h = g /\ answer'[g] = a
      BY <1>0, <1>1 DEF EndRoundTrip, SessionTypeOK
  <1>2. ASSUME NEW h \in Goroutine, NEW r \in Resource
        PROVE  ~BeginRoundTrip(h, r)
      BY <1>0, NoneAssumption DEF BeginRoundTrip, SessionTypeOK
  <1>3. \E h \in Goroutine : Send(h) \/ TripFails(h)
      BY <1>2 DEF SessionNext, GetTokenStep, IssueToken, Restart, RevokeElsewhere, Reregister,
         sessionVars, allVars
  <1>4. PICK h \in Goroutine : Send(h) \/ TripFails(h)
      BY <1>3
  <1>5. ~TripFails(h)
      BY <1>1 DEF TripFails
  <1>6. h = g /\ answer'[g] = IF Honoured(result[h]) THEN "ok" ELSE "unauthorized"
      BY <1>1, <1>4, <1>5 DEF Send
  <1>7. result[g] \in Token
      BY <1>0, <1>4, <1>5, <1>6 DEF Send, TypeOK
  <1> QED BY <1>6, <1>7

\* A 401 means a slow request, or a token lost after the request began or less
\* than ExpiresIn - ExpiryBuffer before: for every lifetime and every buffer.
THEOREM RefusalsCorrect == SessionSpec => RefusalsExplained
  <1>1. ASSUME SessionIInv, [SessionNext]_allVars, NEW g \in Goroutine, NEW t \in Token,
               Refused(g, t)
        PROVE  \/ clock - began[g] > ExpiryBuffer
               \/ clock - began[g] > TokenTTL
               \/ /\ lostAt[t] # None
                  /\ \/ began[g] <= lostAt[t]
                     \/ began[g] + ExpiryBuffer < lostAt[t] + ExpiresIn
      <2>0. /\ SessionTypeOK /\ TypeOK /\ TokensAccounted /\ TripCoherent(g)
            /\ clock \in Nat /\ began[g] \in Nat /\ ExpiresIn \in Nat
            /\ ExpiryBuffer \in Nat /\ TokenTTL \in Nat
          BY <1>1, ExpiresInBound, ConstantsAssumption
             DEF SessionIInv, SessionTypeOK, TypeOK, TripsCoherent
      <2>1. result[g] = t /\ t # None /\ ~Honoured(t)
          BY <1>1, AnsweredBySend, NoneAssumption DEF Refused
      <2>2. NewFor(t, began[g]) \/ BackedUntil(t, began[g] + ExpiryBuffer + 1)
          BY <2>0, <2>1 DEF TripCoherent, Justified
      <2>3. CASE lostAt[t] = None
          <3>1. t \in drawn
              BY <2>2 DEF NewFor, BackedUntil
          <3>2. server[t] # None /\ ~server[t].revoked /\ server[t].expiresAt \in Nat
              BY <2>0, <2>3, <3>1 DEF TokensAccounted, TypeOK, Issued
          <3>3. clock > server[t].expiresAt
              BY <2>0, <2>1, <3>2 DEF Honoured
          <3> QED BY <2>0, <2>2, <2>3, <3>2, <3>3 DEF NewFor, BackedUntil
      <2>4. CASE lostAt[t] # None
          <3>1. lostAt[t] \in Nat
              BY <2>0, <2>4 DEF SessionTypeOK
          <3> QED BY <2>0, <2>2, <2>4, <3>1 DEF NewFor, BackedUntil
      <2> QED BY <2>3, <2>4
  <1>2. SessionIInv /\ [SessionNext]_allVars =>
          [\A g \in Goroutine, t \in Token : Refused(g, t) =>
             \/ clock - began[g] > ExpiryBuffer
             \/ clock - began[g] > TokenTTL
             \/ /\ lostAt[t] # None
                /\ \/ began[g] <= lostAt[t]
                   \/ began[g] + ExpiryBuffer < lostAt[t] + ExpiresIn]_allVars
      BY <1>1
  <1> QED BY SessionInductive, <1>2, PTL DEF SessionSpec, RefusalsExplained

\* Between a restart and the next registration no API request succeeds, and no
\* token the server has lost is ever honoured again.
THEOREM RestartCorrect == SessionSpec => NothingSurvivesRestart
  <1>1. ASSUME SessionIInv, [SessionNext]_allVars, NEW g \in Goroutine,
               trip[g] # None, trip'[g] = None, answer'[g] = "ok"
        PROVE  registered /\ lostAt[result[g]] = None
      <2>1. result[g] \in Token /\ Honoured(result[g])
          BY <1>1, AnsweredBySend
      <2> QED BY <1>1, <2>1 DEF SessionIInv, TokensAccounted, Honoured
  <1>2. SessionIInv /\ [SessionNext]_allVars =>
          [\A g \in Goroutine : trip[g] # None /\ trip'[g] = None /\ answer'[g] = "ok" =>
             registered /\ lostAt[result[g]] = None]_allVars
      BY <1>1
  <1> QED BY SessionInductive, <1>2, PTL DEF SessionSpec, NothingSurvivesRestart

=============================================================================
