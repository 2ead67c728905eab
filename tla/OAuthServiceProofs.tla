-------------------------- MODULE OAuthServiceProofs --------------------------
(***************************************************************************)
(* Proofs about OAuthService, for every set of goroutines, clients,        *)
(* secrets, tokens and requests, every TokenTTL and every MaxTime.         *)
(*                                                                         *)
(* IInv is inductive.  Its parts are proved one lemma at a time, each with *)
(* one step per action; the properties follow from it.                     *)
(***************************************************************************)
EXTENDS OAuthService, TLAPS

\* One hash stands for one token: SHA-256 is taken to have no collisions.
LEMMA HashInjective ==
    ASSUME NEW r1, NEW r2, ComputeTokenHash(r1) = ComputeTokenHash(r2)
    PROVE  r1 = r2
  BY DEF ComputeTokenHash

\* The hash of a token is a key of the token map.
LEMMA HashType ==
    ASSUME NEW rw \in RawToken
    PROVE  ComputeTokenHash(rw) \in TokenHash
  BY DEF TokenHash

\* A call that returns leaves the locals of every goroutine well typed.
LEMMA ReturnType ==
    ASSUME TypeOK, NEW g \in Goroutine, NEW outcome \in Replies, Return(g, outcome)
    PROVE  /\ pc' \in [Goroutine -> Steps]
           /\ req' \in [Goroutine -> TokenRequest \cup {None}]
           /\ client' \in [Goroutine -> Client \cup {None}]
           /\ raw' \in [Goroutine -> RawToken \cup {None}]
           /\ token' \in [Goroutine -> Token \cup {None}]
           /\ reply' \in [Goroutine -> Replies]
           /\ revokedBefore' \in [Goroutine -> SUBSET RawToken]
  BY DEF TypeOK, Return, Goto, Steps

\* The checks answer with a reply.
LEMMA StatusType ==
    /\ \A r : RequestStatus(r) # "ok" => RequestStatus(r) \in Replies
    /\ \A r, c : AuthorizationStatus(r, c) # "ok" => AuthorizationStatus(r, c) \in Replies
    /\ \A t, n : TokenStatus(t, n) \in Replies
    /\ \A step : StoreErrorReply(step) \in Replies
  BY DEF RequestStatus, AuthorizationStatus, TokenStatus, StoreErrorReply, Replies

-----------------------------------------------------------------------------
\* Init establishes every part of IInv.
LEMMA InitIInv == Init => IInv
  <1> SUFFICES ASSUME Init PROVE IInv
      OBVIOUS
  <1>1. TypeOK
      BY DEF Init, TypeOK, Steps, Replies
  <1>2. CopiesCoherent
      BY DEF Init, CopiesCoherent, CopyCoherent
  <1>3. AnswersStored
      BY ConstantsAssumption, HashType DEF Init, AnswersStored
  <1>4. GrantsWithinRegistration /\ CredentialsStayValid
      BY DEF Init, GrantsWithinRegistration, CredentialsStayValid
  <1> QED BY <1>1, <1>2, <1>3, <1>4 DEF IInv

\* IssueToken builds a Token: the resource is "" or an absolute URI.
LEMMA MintedToken ==
    ASSUME TypeOK, CopiesCoherent, NEW g \in Goroutine, NEW rw \in RawToken, Mint(g, rw)
    PROVE  [client |-> req[g].clientID, resource |-> req[g].resource,
            scope |-> req[g].scope, expiresAt |-> clock + TokenTTL,
            revokedAt |-> None] \in Token
  <1>1. /\ req[g] \in TokenRequest
        /\ req[g].resource \in AbsoluteURI \cup {None}
      BY DEF TypeOK, Mint, CopiesCoherent, CopyCoherent, RequestStatus, TokenRequest
  <1> QED BY <1>1, ConstantsAssumption DEF TypeOK, Token, TokenRequest

\* Every step keeps the types.
LEMMA TypeStep == IInv /\ [Next]_vars => TypeOK'
  <1> SUFFICES ASSUME IInv, [Next]_vars PROVE TypeOK'
      OBVIOUS
  <1> TypeOK /\ CopiesCoherent
      BY DEF IInv
  <1> USE DEF TypeOK
  <1>1. CASE Tick
      BY <1>1 DEF Tick, storeVars, localVars, historyVars
  <1>2. ASSUME NEW g \in Goroutine, NEW r \in Registrations, NEW id \in ClientID,
               NEW s \in Secret, RegisterClient(g, r, id, s)
        PROVE  TypeOK'
      <2>1. "created" \in Replies
          BY DEF Replies
      <2>2. [secretHash |-> Bcrypt(s), allowedResources |-> r.allowedResources,
             allowedScopes |-> r.allowedScopes] \in Client
          BY <1>2, ConstantsAssumption
             DEF RegisterClient, RegistrationAccepted, RegisterClientRequest, Client
      <2> QED BY <1>2, <2>1, <2>2, ReturnType DEF RegisterClient
  <1>3. ASSUME NEW g \in Goroutine, RefuseRegistration(g) PROVE TypeOK'
      <2>1. "invalid_request" \in Replies
          BY DEF Replies
      <2> QED BY <1>3, <2>1, ReturnType DEF RefuseRegistration, storeVars, historyVars
  <1>4. ASSUME NEW g \in Goroutine, NEW r \in TokenRequests, AcceptTokenRequest(g, r)
        PROVE  TypeOK'
      BY <1>4, ConstantsAssumption
         DEF AcceptTokenRequest, Invoke, Goto, storeVars, historyVars, Steps, Replies
  <1>5. ASSUME NEW g \in Goroutine, NEW r \in TokenRequests, RefuseTokenRequest(g, r)
        PROVE  TypeOK'
      BY <1>5, StatusType, ReturnType DEF RefuseTokenRequest, storeVars, historyVars
  <1>6. ASSUME NEW g \in Goroutine, GetClient(g) PROVE TypeOK'
      <2>1. "invalid_client" \in Replies
          BY DEF Replies
      <2>2. req[g] \in TokenRequest
          BY <1>6 DEF GetClient, CopiesCoherent, CopyCoherent
      <2>3. clients[req[g].clientID] \in Client \cup {None}
          BY <2>2 DEF TokenRequest
      <2> QED BY <1>6, <2>1, <2>3, ReturnType
              DEF GetClient, Goto, storeVars, historyVars, Steps
  <1>7. ASSUME NEW g \in Goroutine, NEW rw \in RawToken, Mint(g, rw) PROVE TypeOK'
      BY <1>7, MintedToken DEF Mint, Goto, storeVars, historyVars, Steps, IInv
  <1>8. ASSUME NEW g \in Goroutine, RefuseToMint(g) PROVE TypeOK'
      <2>1. "invalid_request" \in Replies
          BY DEF Replies
      <2> QED BY <1>8, <2>1, StatusType, ReturnType
              DEF RefuseToMint, storeVars, historyVars
  <1>9. ASSUME NEW g \in Goroutine, SaveToken(g) PROVE TypeOK'
      <2>1. "issued" \in Replies
          BY DEF Replies
      <2>2. raw[g] \in RawToken
          BY <1>9 DEF SaveToken, CopiesCoherent, CopyCoherent
      <2> QED BY <1>9, <2>1, <2>2, ReturnType, HashType DEF SaveToken
  <1>10. ASSUME NEW g \in Goroutine, NEW rw \in RawToken,
                BeginValidate(g, rw) \/ BeginRevoke(g, rw)
         PROVE  TypeOK'
      BY <1>10 DEF BeginValidate, BeginRevoke, Invoke, Goto, storeVars, historyVars,
                   Steps, Replies
  <1>11. ASSUME NEW g \in Goroutine, GetTokenByHash(g) PROVE TypeOK'
      <2>1. "token_not_found" \in Replies
          BY DEF Replies
      <2>2. raw[g] \in RawToken
          BY <1>11, ConstantsAssumption DEF GetTokenByHash, CopiesCoherent, CopyCoherent
      <2> QED BY <1>11, <2>1, <2>2, ReturnType, HashType
              DEF GetTokenByHash, Goto, storeVars, historyVars, Steps
  <1>12. ASSUME NEW g \in Goroutine, CheckToken(g) PROVE TypeOK'
      BY <1>12, StatusType, ReturnType DEF CheckToken, storeVars, historyVars
  <1>13. ASSUME NEW g \in Goroutine, RevokeToken(g) PROVE TypeOK'
      <2>1. "revoked" \in Replies
          BY DEF Replies
      <2>2. raw[g] \in RawToken
          BY <1>13, ConstantsAssumption DEF RevokeToken, CopiesCoherent, CopyCoherent
      <2>3. tokens' \in [TokenHash -> Token \cup {None}]
          BY <1>13, <2>2, HashType DEF RevokeToken, Token
      <2> QED BY <1>13, <2>1, <2>2, <2>3, ReturnType DEF RevokeToken
  <1>14. ASSUME NEW g \in Goroutine, StoreFails(g) PROVE TypeOK'
      BY <1>14, StatusType, ReturnType DEF StoreFails, storeVars, historyVars
  <1>15. CASE UNCHANGED vars
      BY <1>15 DEF vars
  <1> QED
      BY <1>1, <1>2, <1>3, <1>4, <1>5, <1>6, <1>7, <1>8, <1>9, <1>10, <1>11, <1>12,
         <1>13, <1>14, <1>15 DEF Next
-----------------------------------------------------------------------------
\* Only three actions write what the server remembers.
LEMMA OtherSteps ==
    ASSUME [Next]_vars
    PROVE  \/ \E g \in Goroutine, r \in Registrations, id \in ClientID, s \in Secret :
                RegisterClient(g, r, id, s)
           \/ \E g \in Goroutine : SaveToken(g)
           \/ \E g \in Goroutine : RevokeToken(g)
           \/ UNCHANGED <<clients, credentials, tokens, handedOut, revoked>>
  <1>1. CASE Tick \/ UNCHANGED vars
      BY <1>1 DEF vars, Tick, storeVars, historyVars
  <1>2. ASSUME NEW g \in Goroutine,
               \/ RefuseRegistration(g)
               \/ \E r \in TokenRequests : AcceptTokenRequest(g, r) \/ RefuseTokenRequest(g, r)
               \/ GetClient(g)
               \/ \E rw \in RawToken : Mint(g, rw) \/ BeginValidate(g, rw) \/ BeginRevoke(g, rw)
               \/ RefuseToMint(g)
               \/ GetTokenByHash(g)
               \/ CheckToken(g)
               \/ StoreFails(g)
        PROVE  UNCHANGED <<clients, credentials, tokens, handedOut, revoked>>
      BY <1>2 DEF RefuseRegistration, AcceptTokenRequest, RefuseTokenRequest, GetClient,
                  Mint, RefuseToMint, BeginValidate, GetTokenByHash, CheckToken,
                  BeginRevoke, StoreFails, storeVars, historyVars
  <1> QED BY <1>1, <1>2 DEF Next

\* What the store and the histories gained they keep.
LEMMA StoreGrows ==
    ASSUME IInv, [Next]_vars
    PROVE  /\ \A id \in ClientID : clients[id] # None => clients'[id] = clients[id]
           /\ \A h \in TokenHash : tokens[h] # None =>
                /\ tokens'[h] # None
                /\ SameGrant(tokens'[h], tokens[h])
                /\ IsRevoked(tokens[h]) => IsRevoked(tokens'[h])
           /\ handedOut \subseteq handedOut'
           /\ revoked \subseteq revoked'
  <1> DEFINE Grows ==
           /\ \A id \in ClientID : clients[id] # None => clients'[id] = clients[id]
           /\ \A h \in TokenHash : tokens[h] # None =>
                /\ tokens'[h] # None
                /\ SameGrant(tokens'[h], tokens[h])
                /\ IsRevoked(tokens[h]) => IsRevoked(tokens'[h])
           /\ handedOut \subseteq handedOut'
           /\ revoked \subseteq revoked'
  <1>0. TypeOK /\ CopiesCoherent
      BY DEF IInv
  <1>1. ASSUME NEW g \in Goroutine, NEW r \in Registrations, NEW id \in ClientID,
               NEW s \in Secret, RegisterClient(g, r, id, s)
        PROVE  Grows
      BY <1>0, <1>1 DEF RegisterClient, TypeOK, SameGrant
  <1>2. ASSUME NEW g \in Goroutine, SaveToken(g) PROVE Grows
      BY <1>0, <1>2 DEF SaveToken, TypeOK, CopiesCoherent, CopyCoherent, SameGrant
  <1>3. ASSUME NEW g \in Goroutine, RevokeToken(g) PROVE Grows
      <2>1. raw[g] \in RawToken
          BY <1>0, <1>3, ConstantsAssumption
             DEF RevokeToken, TypeOK, CopiesCoherent, CopyCoherent
      <2>2. ASSUME NEW h \in TokenHash, tokens[h] # None
            PROVE  /\ tokens'[h] # None
                   /\ SameGrant(tokens'[h], tokens[h])
                   /\ IsRevoked(tokens[h]) => IsRevoked(tokens'[h])
          <3>1. /\ tokens[h] \in Token
                /\ [tokens[h] EXCEPT !.revokedAt = clock] \in Token
              BY <1>0, <2>2 DEF TypeOK, Token
          <3> QED BY <1>0, <1>3, <2>1, <2>2, <3>1, NoneAssumption
                  DEF RevokeToken, TypeOK, SameGrant, IsRevoked, Token
      <2> QED BY <1>3, <2>2 DEF RevokeToken
  <1>4. CASE UNCHANGED <<clients, tokens, handedOut, revoked>>
      BY <1>4 DEF SameGrant
  <1> QED BY <1>1, <1>2, <1>3, <1>4, OtherSteps

\* A goroutine the step leaves alone stays coherent.
LEMMA OthersCoherent ==
    ASSUME IInv, [Next]_vars, NEW h \in Goroutine,
           pc'[h] = pc[h], req'[h] = req[h], client'[h] = client[h], raw'[h] = raw[h],
           token'[h] = token[h], revokedBefore'[h] = revokedBefore[h],
           pc[h] = "save" =>
             /\ tokens'[ComputeTokenHash(raw[h])] = None
             /\ \A k \in Goroutine : pc'[k] = "save" /\ raw'[k] = raw[h] => k = h
    PROVE  CopyCoherent(h)'
  <1>1. CopyCoherent(h) /\ TypeOK
      BY DEF IInv, CopiesCoherent
  <1>2. CASE pc[h] \in {"getClient", "mint"}
      <2>1. req[h].clientID \in ClientID
          BY <1>1, <1>2 DEF CopyCoherent, TypeOK, TokenRequest
      <2> QED BY <1>1, <1>2, <2>1, StoreGrows DEF CopyCoherent
  <1>3. CASE pc[h] = "save"
      <2>1. token[h].client \in ClientID
          BY <1>1, <1>3 DEF CopyCoherent, TypeOK, Token
      <2> QED BY <1>1, <1>3, <2>1, StoreGrows DEF CopyCoherent
  <1>4. CASE pc[h] \in {"lookup", "check", "revoke"}
      <2>1. ComputeTokenHash(raw[h]) \in TokenHash
          BY <1>1, <1>4, HashType, ConstantsAssumption DEF CopyCoherent, TypeOK
      <2> QED BY <1>1, <1>4, <2>1, StoreGrows DEF CopyCoherent, SameGrant
  <1>5. CASE pc[h] = "idle"
      BY <1>5 DEF CopyCoherent
  <1> QED BY <1>1, <1>2, <1>3, <1>4, <1>5 DEF TypeOK, Steps
\* A step of g leaves the locals of the others alone.
Untouched(h) ==
    /\ pc'[h] = pc[h] /\ req'[h] = req[h] /\ client'[h] = client[h]
    /\ raw'[h] = raw[h] /\ token'[h] = token[h] /\ revokedBefore'[h] = revokedBefore[h]

\* After a return, or any step that leaves the tokens alone and brings no
\* goroutine to "save", only the goroutine that took it has to be looked at.
LEMMA StepCoherent ==
    ASSUME IInv, [Next]_vars, NEW g \in Goroutine,
           \A h \in Goroutine \ {g} : Untouched(h),
           pc'[g] # "save",
           \A h \in Goroutine \ {g} : pc[h] = "save" =>
               tokens'[ComputeTokenHash(raw[h])] = None,
           CopyCoherent(g)'
    PROVE  CopiesCoherent'
  <1>1. ASSUME NEW h \in Goroutine \ {g} PROVE CopyCoherent(h)'
      <2>1. Untouched(h)
          OBVIOUS
      <2>2. ASSUME pc[h] = "save", NEW k \in Goroutine, pc'[k] = "save", raw'[k] = raw[h]
            PROVE  k = h
          <3>1. k # g
              BY <2>2
          <3>2. pc[k] = "save" /\ raw[k] = raw[h]
              BY <2>2, <3>1 DEF Untouched
          <3> QED BY <2>2, <3>2 DEF IInv, CopiesCoherent, CopyCoherent
      <2> QED BY <2>1, <2>2, OthersCoherent DEF Untouched
  <1> QED BY <1>1 DEF CopiesCoherent

\* Return(g, _) touches only g, and leaves it idle.
LEMMA ReturnCoherent ==
    ASSUME IInv, [Next]_vars, NEW g \in Goroutine, NEW outcome, Return(g, outcome),
           \A h \in Goroutine \ {g} : pc[h] = "save" =>
               tokens'[ComputeTokenHash(raw[h])] = None
    PROVE  CopiesCoherent'
  <1>1. \A h \in Goroutine \ {g} : Untouched(h)
      BY DEF IInv, TypeOK, Return, Goto, Untouched
  <1>2. pc'[g] = "idle"
      BY DEF IInv, TypeOK, Return, Goto
  <1>3. CopyCoherent(g)'
      BY <1>2 DEF CopyCoherent
  <1> QED BY <1>1, <1>2, <1>3, StepCoherent

\* A goroutine about to save holds a token that is not stored yet.
LEMMA SaversNew ==
    ASSUME IInv, NEW h \in Goroutine, pc[h] = "save"
    PROVE  tokens[ComputeTokenHash(raw[h])] = None /\ raw[h] \in RawToken
  BY DEF IInv, TypeOK, CopiesCoherent, CopyCoherent

\* Every step keeps the copies coherent.
LEMMA CopiesStep == IInv /\ [Next]_vars => CopiesCoherent'
  <1> SUFFICES ASSUME IInv, [Next]_vars PROVE CopiesCoherent'
      OBVIOUS
  <1>0. TypeOK /\ CopiesCoherent /\ AnswersStored
      BY DEF IInv
  <1>1. CASE UNCHANGED <<pc, req, client, raw, token, revokedBefore, tokens>>
      <2> SUFFICES ASSUME NEW h \in Goroutine PROVE CopyCoherent(h)'
          BY DEF CopiesCoherent
      <2> QED BY <1>0, <1>1, SaversNew, OthersCoherent DEF CopiesCoherent, CopyCoherent
  <1>2. ASSUME NEW g \in Goroutine, NEW outcome, Return(g, outcome), UNCHANGED tokens
        PROVE  CopiesCoherent'
      BY <1>2, ReturnCoherent, SaversNew
  <1>3. ASSUME NEW g \in Goroutine, NEW r \in TokenRequests, AcceptTokenRequest(g, r)
        PROVE  CopiesCoherent'
      <2>1. \A h \in Goroutine \ {g} : Untouched(h)
          BY <1>0, <1>3 DEF TypeOK, AcceptTokenRequest, Invoke, Goto, Untouched
      <2>2. pc'[g] = "getClient" /\ req'[g] = r /\ UNCHANGED tokens
          BY <1>0, <1>3 DEF TypeOK, AcceptTokenRequest, Invoke, Goto, storeVars
      <2>3. CopyCoherent(g)'
          BY <1>3, <2>2, ConstantsAssumption, NoneAssumption
             DEF AcceptTokenRequest, CopyCoherent, RequestStatus
      <2> QED BY <2>1, <2>2, <2>3, StepCoherent, SaversNew
  <1>4. ASSUME NEW g \in Goroutine, GetClient(g), clients[req[g].clientID] # None
        PROVE  CopiesCoherent'
      <2>1. \A h \in Goroutine \ {g} : Untouched(h)
          BY <1>0, <1>4 DEF TypeOK, GetClient, Goto, Untouched
      <2>2. /\ pc'[g] = "mint" /\ req'[g] = req[g] /\ UNCHANGED <<clients, tokens>>
            /\ client'[g] = clients[req[g].clientID]
          BY <1>0, <1>4 DEF TypeOK, GetClient, Goto, storeVars
      <2>3. CopyCoherent(g)'
          BY <1>0, <1>4, <2>2 DEF CopiesCoherent, CopyCoherent, GetClient, RequestStatus
      <2> QED BY <2>1, <2>2, <2>3, StepCoherent, SaversNew
  <1>5. ASSUME NEW g \in Goroutine, NEW rw \in RawToken, Mint(g, rw)
        PROVE  CopiesCoherent'
      <2>1. \A h \in Goroutine \ {g} : Untouched(h)
          BY <1>0, <1>5 DEF TypeOK, Mint, Goto, Untouched
      <2>2. /\ pc[g] = "mint" /\ pc'[g] = "save" /\ raw'[g] = rw
            /\ UNCHANGED <<clients, tokens>>
            /\ token'[g].client = req[g].clientID
            /\ token'[g].resource = req[g].resource /\ token'[g].scope = req[g].scope
          BY <1>0, <1>5 DEF TypeOK, Mint, Goto, storeVars
      <2>3. token'[g] # None
          <3>1. token'[g] = [client |-> req[g].clientID, resource |-> req[g].resource,
                             scope |-> req[g].scope, expiresAt |-> clock + TokenTTL,
                             revokedAt |-> None]
              BY <1>0, <1>5 DEF Mint, TypeOK
          <3> QED BY <1>0, <1>5, <3>1, MintedToken, NoneAssumption
      <2>4. \A k \in Goroutine : pc'[k] = "save" /\ raw'[k] = rw => k = g
          BY <1>5, <2>1 DEF Mint, FreshToken, Untouched
      <2>5. /\ clients[req[g].clientID] # None
            /\ ResourceAllowed(req[g], clients[req[g].clientID])
            /\ ScopeAllowed(req[g], clients[req[g].clientID])
          BY <1>0, <1>5 DEF Mint, CopiesCoherent, CopyCoherent, AuthorizationStatus
      <2>6. Granted(token'[g], clients[req[g].clientID])
          BY <2>2, <2>5 DEF Granted, ResourceAllowed, ScopeAllowed
      <2>7. /\ clients'[token'[g].client] # None
            /\ Granted(token'[g], clients[req[g].clientID])
            /\ clients'[token'[g].client] = clients[req[g].clientID]
          BY <2>2, <2>5, <2>6
      <2>8. Granted(token'[g], clients'[token'[g].client])
          BY <2>7
      <2>9. raw'[g] # None /\ raw'[g] # Bogus /\ tokens'[ComputeTokenHash(raw'[g])] = None
          BY <1>5, <2>2, NoneAssumption DEF Mint, FreshToken
      <2>10. CopyCoherent(g)'
          <3>1. pc'[g] \notin {"getClient", "mint", "lookup", "check", "revoke"}
              BY <2>2
          <3> QED BY <2>2, <2>3, <2>4, <2>7, <2>8, <2>9, <3>1 DEF CopyCoherent, Granted, ResourceAllowed, ScopeAllowed
      <2>11. ASSUME NEW h \in Goroutine \ {g} PROVE CopyCoherent(h)'
          <3>1. ASSUME pc[h] = "save", NEW k \in Goroutine, pc'[k] = "save", raw'[k] = raw[h]
                PROVE  k = h
              <4>1. k # g
                  BY <1>5, <2>2, <3>1 DEF Mint, FreshToken
              <4>2. pc[k] = "save" /\ raw[k] = raw[h]
                  BY <2>1, <3>1, <4>1 DEF Untouched
              <4> QED BY <1>0, <3>1, <4>2 DEF CopiesCoherent, CopyCoherent
          <3> QED BY <2>1, <2>2, <3>1, OthersCoherent, SaversNew DEF Untouched
      <2> QED BY <2>10, <2>11 DEF CopiesCoherent
  <1>6. ASSUME NEW g \in Goroutine, SaveToken(g) PROVE CopiesCoherent'
      <2>1. ASSUME NEW h \in Goroutine \ {g}, pc[h] = "save"
            PROVE  tokens'[ComputeTokenHash(raw[h])] = None
          <3>1. raw[h] # raw[g]
              BY <1>0, <1>6, <2>1 DEF SaveToken, CopiesCoherent, CopyCoherent
          <3> QED BY <1>0, <1>6, <2>1, <3>1, HashInjective, HashType, SaversNew
                  DEF SaveToken, TypeOK
      <2> QED BY <1>6, <2>1, ReturnCoherent DEF SaveToken
  <1>7. ASSUME NEW g \in Goroutine, NEW rw \in RawToken,
               BeginValidate(g, rw) \/ BeginRevoke(g, rw)
        PROVE  CopiesCoherent'
      <2>1. \A h \in Goroutine \ {g} : Untouched(h)
          BY <1>0, <1>7 DEF TypeOK, BeginValidate, BeginRevoke, Invoke, Goto, Untouched
      <2>2. /\ pc'[g] \in {"lookup", "revoke"} /\ raw'[g] = rw /\ UNCHANGED <<tokens, handedOut>>
            /\ rw \in handedOut \cup {Bogus}
          BY <1>0, <1>7 DEF TypeOK, BeginValidate, BeginRevoke, Invoke, Goto, storeVars, historyVars
      <2>3. CopyCoherent(g)'
          BY <2>2 DEF CopyCoherent
      <2> QED BY <2>1, <2>2, <2>3, StepCoherent, SaversNew
  <1>8. ASSUME NEW g \in Goroutine, GetTokenByHash(g), tokens[ComputeTokenHash(raw[g])] # None
        PROVE  CopiesCoherent'
      <2>1. \A h \in Goroutine \ {g} : Untouched(h)
          BY <1>0, <1>8 DEF TypeOK, GetTokenByHash, Goto, Untouched
      <2>2. /\ pc[g] = "lookup" /\ pc'[g] = "check"
            /\ raw'[g] = raw[g] /\ revokedBefore'[g] = revokedBefore[g]
            /\ UNCHANGED <<tokens, handedOut>>
            /\ token'[g] = tokens[ComputeTokenHash(raw[g])]
          BY <1>0, <1>8 DEF TypeOK, GetTokenByHash, Goto, storeVars, historyVars
      <2>3. raw[g] \in handedOut \cup {Bogus}
          BY <1>0, <2>2 DEF CopiesCoherent, CopyCoherent
      <2>4. raw[g] \in revokedBefore[g] => IsRevoked(tokens[ComputeTokenHash(raw[g])])
          BY <1>0, <1>8 DEF AnswersStored
      <2>5. CopyCoherent(g)'
          BY <1>8, <2>2, <2>3, <2>4 DEF CopyCoherent, SameGrant
      <2> QED BY <2>1, <2>2, <2>5, StepCoherent, SaversNew
  <1>9. ASSUME NEW g \in Goroutine, RevokeToken(g) PROVE CopiesCoherent'
      <2>1. ASSUME NEW h \in Goroutine \ {g}, pc[h] = "save"
            PROVE  tokens'[ComputeTokenHash(raw[h])] = None
          BY <1>0, <1>9, <2>1, SaversNew, HashType, HashInjective DEF RevokeToken, TypeOK
      <2> QED BY <1>9, <2>1, ReturnCoherent DEF RevokeToken
  <1>10. ASSUME NEW g \in Goroutine
         PROVE  /\ RefuseRegistration(g) => CopiesCoherent'
                /\ CheckToken(g) => CopiesCoherent'
                /\ StoreFails(g) => CopiesCoherent'
                /\ RefuseToMint(g) => CopiesCoherent'
                /\ \A r \in TokenRequests : RefuseTokenRequest(g, r) => CopiesCoherent'
                /\ \A r \in Registrations, id \in ClientID, s \in Secret :
                       RegisterClient(g, r, id, s) => CopiesCoherent'
                /\ GetClient(g) => CopiesCoherent'
                /\ GetTokenByHash(g) => CopiesCoherent'
      BY <1>2, <1>4, <1>8 DEF RefuseRegistration, CheckToken, StoreFails, RefuseToMint,
         RefuseTokenRequest, RegisterClient, GetClient, GetTokenByHash, storeVars
  <1>11. CASE Tick \/ UNCHANGED vars
      BY <1>1, <1>11 DEF Tick, vars, storeVars, localVars
  <1> QED
      BY <1>3, <1>5, <1>6, <1>7, <1>9, <1>10, <1>11 DEF Next
-----------------------------------------------------------------------------
\* Every step keeps the answers of the server in the store.
LEMMA AnswersStep == IInv /\ [Next]_vars => AnswersStored'
  <1> SUFFICES ASSUME IInv, [Next]_vars PROVE AnswersStored'
      OBVIOUS
  <1>0. TypeOK /\ CopiesCoherent /\ AnswersStored
      BY DEF IInv
  <1>1. ASSUME NEW rw \in RawToken
        PROVE  ComputeTokenHash(rw) \in TokenHash
      BY HashType
  <1>2. \A g \in Goroutine : revokedBefore'[g] \subseteq revoked'
      <2>1. ASSUME NEW g \in Goroutine, NEW h \in Goroutine,
                   (\E o : Return(g, o)) \/ (\E step : Invoke(g, step)) \/ UNCHANGED revokedBefore
            PROVE  revokedBefore'[h] \subseteq revoked'
          BY <1>0, <2>1, StoreGrows DEF AnswersStored, Return, Invoke, TypeOK
      <2>2. ASSUME NEW g \in Goroutine,
                   \/ \E r \in Registrations, id \in ClientID, s \in Secret :
                         RegisterClient(g, r, id, s)
                   \/ \E r \in TokenRequests : AcceptTokenRequest(g, r) \/ RefuseTokenRequest(g, r)
                   \/ \E rw \in RawToken : Mint(g, rw) \/ BeginValidate(g, rw) \/ BeginRevoke(g, rw)
                   \/ RefuseRegistration(g)
                   \/ GetClient(g)
                   \/ RefuseToMint(g)
                   \/ SaveToken(g)
                   \/ GetTokenByHash(g)
                   \/ CheckToken(g)
                   \/ RevokeToken(g)
                   \/ StoreFails(g)
            PROVE  (\E o : Return(g, o)) \/ (\E step : Invoke(g, step)) \/ UNCHANGED revokedBefore
          BY <2>2 DEF RegisterClient, RefuseRegistration, AcceptTokenRequest, RefuseTokenRequest,
                      GetClient, Mint, RefuseToMint, SaveToken, BeginValidate, GetTokenByHash,
                      CheckToken, BeginRevoke, RevokeToken, StoreFails
      <2>3. CASE Tick \/ UNCHANGED vars
          BY <1>0, <2>3, StoreGrows DEF Tick, vars, AnswersStored
      <2> QED BY <2>1, <2>2, <2>3 DEF Next
  <1>3. ASSUME NEW g \in Goroutine, SaveToken(g) PROVE AnswersStored'
      <2>1. raw[g] # Bogus /\ raw[g] \in RawToken /\ token[g] # None
          BY <1>0, <1>3 DEF SaveToken, CopiesCoherent, CopyCoherent, TypeOK
      <2>2. tokens'[ComputeTokenHash(Bogus)] = None
          BY <1>0, <1>1, <1>3, <2>1, HashInjective, ConstantsAssumption
             DEF SaveToken, AnswersStored, TypeOK
      <2>3. \A rw \in handedOut' : tokens'[ComputeTokenHash(rw)] # None
          BY <1>0, <1>1, <1>3, <2>1 DEF SaveToken, AnswersStored, TypeOK
      <2>4. \A rw \in revoked' \ {Bogus} :
              /\ tokens'[ComputeTokenHash(rw)] # None
              /\ IsRevoked(tokens'[ComputeTokenHash(rw)])
          BY <1>0, <1>1, <1>3, StoreGrows DEF SaveToken, AnswersStored, TypeOK
      <2> QED BY <1>2, <2>2, <2>3, <2>4 DEF AnswersStored, IsRevoked
  <1>4. ASSUME NEW g \in Goroutine, RevokeToken(g) PROVE AnswersStored'
      <2>1. raw[g] \in handedOut \cup {Bogus} /\ raw[g] \in RawToken
          BY <1>0, <1>4, ConstantsAssumption DEF RevokeToken, CopiesCoherent, CopyCoherent, TypeOK
      <2>2. tokens'[ComputeTokenHash(Bogus)] = None
          BY <1>0, <1>1, <1>4, <2>1, HashInjective, ConstantsAssumption
             DEF RevokeToken, AnswersStored, TypeOK
      <2>3. \A rw \in handedOut' : tokens'[ComputeTokenHash(rw)] # None
          BY <1>0, <1>1, <1>4, StoreGrows DEF RevokeToken, AnswersStored, TypeOK
      <2>4. raw[g] # Bogus => /\ tokens'[ComputeTokenHash(raw[g])] # None
                              /\ IsRevoked(tokens'[ComputeTokenHash(raw[g])])
          <3> SUFFICES ASSUME raw[g] # Bogus
                       PROVE  /\ tokens'[ComputeTokenHash(raw[g])] # None
                              /\ IsRevoked(tokens'[ComputeTokenHash(raw[g])])
              OBVIOUS
          <3> DEFINE t == tokens[ComputeTokenHash(raw[g])]
          <3>1. t \in Token
              BY <1>0, <1>1, <2>1 DEF AnswersStored, TypeOK
          <3>2. tokens'[ComputeTokenHash(raw[g])] = [t EXCEPT !.revokedAt = clock]
              BY <1>0, <1>1, <1>4, <2>1, <3>1, NoneAssumption DEF RevokeToken, TypeOK
          <3>3. [t EXCEPT !.revokedAt = clock].revokedAt = clock
              BY <3>1 DEF Token
          <3>4. tokens'[ComputeTokenHash(raw[g])] # None
              BY <1>1, <2>1, <3>1, NoneAssumption, StoreGrows
          <3> QED BY <1>0, <3>2, <3>3, <3>4, NoneAssumption DEF IsRevoked, TypeOK
      <2>5. \A rw \in revoked' \ {Bogus} :
              /\ tokens'[ComputeTokenHash(rw)] # None
              /\ IsRevoked(tokens'[ComputeTokenHash(rw)])
          BY <1>0, <1>1, <1>4, <2>4, StoreGrows DEF RevokeToken, AnswersStored, TypeOK
      <2> QED BY <1>2, <2>2, <2>3, <2>5 DEF AnswersStored, IsRevoked
  <1>5. CASE UNCHANGED <<tokens, handedOut, revoked>>
      BY <1>0, <1>2, <1>5 DEF AnswersStored, IsRevoked
  <1> QED BY <1>3, <1>4, <1>5, OtherSteps DEF RegisterClient
-----------------------------------------------------------------------------
\* Every step keeps the grants within what the clients are registered for.
LEMMA GrantsStep == IInv /\ [Next]_vars => GrantsWithinRegistration'
  <1> SUFFICES ASSUME IInv, [Next]_vars, NEW h \in TokenHash, tokens'[h] # None
               PROVE  /\ clients'[tokens'[h].client] # None
                      /\ Granted(tokens'[h], clients'[tokens'[h].client])
      BY DEF GrantsWithinRegistration, Granted, ResourceAllowed, ScopeAllowed
  <1>0. TypeOK /\ CopiesCoherent /\ GrantsWithinRegistration
      BY DEF IInv
  <1> DEFINE Fine(t) == t.client \in ClientID /\ clients[t.client] # None
                        /\ Granted(t, clients[t.client])
  <1>1. ASSUME NEW t, Fine(t), SameGrant(tokens'[h], t)
        PROVE  /\ clients'[tokens'[h].client] # None
               /\ Granted(tokens'[h], clients'[tokens'[h].client])
      <2>1. tokens'[h].client = t.client /\ clients'[t.client] = clients[t.client]
          BY <1>1, StoreGrows DEF SameGrant
      <2> QED BY <1>1, <2>1 DEF SameGrant, Granted, ResourceAllowed, ScopeAllowed
  <1>2. tokens[h] # None => Fine(tokens[h])
      BY <1>0 DEF GrantsWithinRegistration, TypeOK, Token
  <1>3. CASE tokens[h] # None
      BY <1>1, <1>2, <1>3, StoreGrows
  <1>4. ASSUME NEW g \in Goroutine, SaveToken(g), tokens[h] = None
        PROVE  \E t : Fine(t) /\ SameGrant(tokens'[h], t)
      <2>1. tokens'[h] = token[g]
          BY <1>0, <1>4, SaversNew, HashType DEF SaveToken, TypeOK
      <2>2. Fine(token[g])
          BY <1>0, <1>4 DEF SaveToken, CopiesCoherent, CopyCoherent, TypeOK, Token
      <2> QED BY <2>1, <2>2 DEF SameGrant
  <1>5. ASSUME NEW g \in Goroutine, RevokeToken(g), tokens[h] = None
        PROVE  FALSE
      BY <1>0, <1>5 DEF RevokeToken, TypeOK
  <1>6. CASE UNCHANGED tokens
      BY <1>3, <1>6
  <1> QED BY <1>1, <1>3, <1>4, <1>5, <1>6, OtherSteps DEF RegisterClient

\* Every step keeps the credentials handed out working.
LEMMA CredentialsStep == IInv /\ [Next]_vars => CredentialsStayValid'
  <1> SUFFICES ASSUME IInv, [Next]_vars PROVE CredentialsStayValid'
      OBVIOUS
  <1>0. TypeOK /\ CredentialsStayValid
      BY DEF IInv
  <1>1. \A cred \in credentials : /\ clients'[cred[1]] # None
                                 /\ clients'[cred[1]].secretHash = Bcrypt(cred[2])
      BY <1>0, StoreGrows DEF CredentialsStayValid, TypeOK
  <1>2. ASSUME NEW g \in Goroutine, NEW r \in Registrations, NEW id \in ClientID,
               NEW s \in Secret, RegisterClient(g, r, id, s)
        PROVE  CredentialsStayValid'
      <2>1. clients'[id].secretHash = Bcrypt(s)
          BY <1>0, <1>2 DEF RegisterClient, TypeOK
      <2>2. clients'[id] # None
          <3> DEFINE c == [secretHash |-> Bcrypt(s), allowedResources |-> r.allowedResources,
                           allowedScopes |-> r.allowedScopes]
          <3>1. c \in Client
              BY <1>2, ConstantsAssumption
                 DEF RegisterClient, RegistrationAccepted, RegisterClientRequest, Client
          <3>2. clients'[id] = c
              BY <1>0, <1>2 DEF RegisterClient, TypeOK
          <3> QED BY <3>1, <3>2, NoneAssumption
      <2>3. credentials' = credentials \cup {<<id, s>>}
          BY <1>2 DEF RegisterClient
      <2>4. ASSUME NEW cred \in credentials'
            PROVE  clients'[cred[1]] # None /\ clients'[cred[1]].secretHash = Bcrypt(cred[2])
          <3>1. CASE cred \in credentials
              BY <1>1, <3>1
          <3>2. CASE cred = <<id, s>>
              BY <2>1, <2>2, <3>2
          <3> QED BY <2>3, <3>1, <3>2
      <2> QED BY <2>4 DEF CredentialsStayValid, Bcrypt
  <1>3. CASE UNCHANGED credentials
      BY <1>1, <1>3 DEF CredentialsStayValid, Bcrypt
  <1> QED BY <1>2, <1>3, OtherSteps DEF SaveToken, RevokeToken

-----------------------------------------------------------------------------
\* IInv holds in every reachable state.
LEMMA Inductive == Spec => []IInv
  <1>1. IInv /\ [Next]_vars => IInv'
      BY TypeStep, CopiesStep, AnswersStep, GrantsStep, CredentialsStep DEF IInv
  <1> QED BY InitIInv, <1>1, PTL DEF Spec

\* The variables hold what the Go fields and locals can hold; in particular no
\* stored client or token names a resource that is not an absolute URI.
THEOREM TypeCorrect == Spec => []TypeOK
  <1>1. IInv => TypeOK
      BY DEF IInv
  <1> QED BY Inductive, <1>1, PTL

\* IssueToken never stores a token broader than its client's registration.
THEOREM GrantsCorrect == Spec => []GrantsWithinRegistration
  <1>1. IInv => GrantsWithinRegistration
      BY DEF IInv
  <1> QED BY Inductive, <1>1, PTL

\* Credentials RegisterClient returned authenticate for ever.
THEOREM CredentialsCorrect == Spec => []CredentialsStayValid
  <1>1. IInv => CredentialsStayValid
      BY DEF IInv
  <1> QED BY Inductive, <1>1, PTL

\* What a goroutine holds between two critical sections of the store agrees with
\* the store whenever it is used.
THEOREM CopiesCorrect == Spec => []CopiesCoherent
  <1>1. IInv => CopiesCoherent
      BY DEF IInv
  <1> QED BY Inductive, <1>1, PTL

\* Every token handed out and every revocation answered is in the store.
THEOREM AnswersCorrect == Spec => []AnswersStored
  <1>1. IInv => AnswersStored
      BY DEF IInv
  <1> QED BY Inductive, <1>1, PTL

\* SaveToken and RevokeToken never change a stored grant or undo a revocation.
THEOREM FrozenCorrect == Spec => TokensFrozen
  <1>1. IInv /\ [Next]_vars =>
          [\A h \in TokenHash : tokens[h] # None =>
             /\ tokens'[h] # None
             /\ SameGrant(tokens'[h], tokens[h])
             /\ IsRevoked(tokens[h]) => IsRevoked(tokens'[h])]_vars
      BY StoreGrows
  <1> QED BY Inductive, <1>1, PTL DEF Spec, TokensFrozen

\* Only CheckToken ends a call that is checking its copy, and only
\* GetTokenByHash or the store failing one that is looking the token up.
LEMMA CallEnds ==
    ASSUME IInv, [Next]_vars, NEW g \in Goroutine, pc'[g] = "idle"
    PROVE  /\ pc[g] = "check" => CheckToken(g)
           /\ pc[g] = "lookup" => GetTokenByHash(g) \/ StoreFails(g)
  <1>1. TypeOK
      BY DEF IInv
  <1>2. ASSUME NEW h \in Goroutine \ {g},
               \/ \E r \in Registrations, id \in ClientID, s \in Secret :
                     RegisterClient(h, r, id, s)
               \/ \E r \in TokenRequests : AcceptTokenRequest(h, r) \/ RefuseTokenRequest(h, r)
               \/ \E rw \in RawToken : Mint(h, rw) \/ BeginValidate(h, rw) \/ BeginRevoke(h, rw)
               \/ RefuseRegistration(h)
               \/ GetClient(h)
               \/ RefuseToMint(h)
               \/ SaveToken(h)
               \/ GetTokenByHash(h)
               \/ CheckToken(h)
               \/ RevokeToken(h)
               \/ StoreFails(h)
        PROVE  pc'[g] = pc[g]
      <2>1. ASSUME NEW step, Goto(h, step) PROVE pc'[g] = pc[g]
          BY <1>1, <2>1 DEF Goto, TypeOK
      <2>2. \E step : Goto(h, step)
          BY <1>2 DEF RegisterClient, RefuseRegistration, AcceptTokenRequest,
             RefuseTokenRequest, GetClient, Mint, RefuseToMint, SaveToken, BeginValidate,
             GetTokenByHash, CheckToken, BeginRevoke, RevokeToken, StoreFails, Return, Invoke
      <2> QED BY <2>1, <2>2
  <1>3. CASE Tick \/ UNCHANGED vars
      BY <1>3 DEF Tick, vars
  <1>4. ASSUME pc[g] \in {"check", "lookup"}
        PROVE  /\ \A r, id, s : ~RegisterClient(g, r, id, s)
               /\ \A r : ~AcceptTokenRequest(g, r) /\ ~RefuseTokenRequest(g, r)
               /\ \A rw : ~Mint(g, rw) /\ ~BeginValidate(g, rw) /\ ~BeginRevoke(g, rw)
               /\ ~RefuseRegistration(g) /\ ~GetClient(g) /\ ~RefuseToMint(g)
               /\ ~SaveToken(g) /\ ~RevokeToken(g)
               /\ pc[g] = "check" => ~GetTokenByHash(g) /\ ~StoreFails(g)
               /\ pc[g] = "lookup" => ~CheckToken(g)
      BY <1>4 DEF RegisterClient, RefuseRegistration, AcceptTokenRequest,
             RefuseTokenRequest, GetClient, Mint, RefuseToMint, SaveToken, BeginValidate,
             GetTokenByHash, CheckToken, BeginRevoke, RevokeToken, StoreFails, Invoke
  <1> QED BY <1>2, <1>3, <1>4 DEF Next

\* Once a revocation has been answered, no validation that begins later accepts
\* the token: the copy it decides on was taken after the revocation.
THEOREM RevokedCorrect == Spec => RevokedNeverValidated
  <1>1. ASSUME IInv, [Next]_vars, NEW g \in Goroutine, pc[g] = "check", Returns(g, "valid")
        PROVE  raw[g] \notin revokedBefore[g]
      <2>1. CheckToken(g)
          BY <1>1, CallEnds DEF Returns
      <2>2. reply'[g] = TokenStatus(token[g], clock)
          BY <1>1, <2>1 DEF CheckToken, Return, IInv, TypeOK
      <2>3. ~IsRevoked(token[g])
          BY <1>1, <2>2 DEF TokenStatus, Returns
      <2> QED BY <1>1, <2>3 DEF IInv, CopiesCoherent, CopyCoherent
  <1>2. IInv /\ [Next]_vars =>
          [\A g \in Goroutine : pc[g] = "check" /\ Returns(g, "valid") =>
             raw[g] \notin revokedBefore[g]]_vars
      BY <1>1
  <1> QED BY Inductive, <1>2, PTL DEF Spec, RevokedNeverValidated

\* A token is accepted only while the store's own entry is unexpired and grants
\* the same, though the decision is made on a copy.
THEOREM AcceptedCorrect == Spec => AcceptedTokensAlive
  <1>1. ASSUME IInv, [Next]_vars, NEW g \in Goroutine, pc[g] = "check", Returns(g, "valid")
        PROVE  LET stored == tokens[ComputeTokenHash(raw[g])] IN
               /\ stored # None
               /\ SameGrant(token[g], stored)
               /\ clock <= stored.expiresAt
      <2>1. CheckToken(g)
          BY <1>1, CallEnds DEF Returns
      <2>2. reply'[g] = TokenStatus(token[g], clock)
          BY <1>1, <2>1 DEF CheckToken, Return, IInv, TypeOK
      <2>3. ~IsExpired(token[g], clock)
          BY <1>1, <2>2 DEF TokenStatus, Returns
      <2>4. /\ token[g] \in Token
            /\ tokens[ComputeTokenHash(raw[g])] # None
            /\ SameGrant(token[g], tokens[ComputeTokenHash(raw[g])])
          BY <1>1 DEF IInv, TypeOK, CopiesCoherent, CopyCoherent
      <2>5. clock <= token[g].expiresAt
          BY <1>1, <2>3, <2>4 DEF IsExpired, Token, IInv, TypeOK
      <2> QED BY <2>4, <2>5 DEF SameGrant
  <1>2. IInv /\ [Next]_vars =>
          [\A g \in Goroutine : pc[g] = "check" /\ Returns(g, "valid") =>
             LET stored == tokens[ComputeTokenHash(raw[g])] IN
             /\ stored # None
             /\ SameGrant(token[g], stored)
             /\ clock <= stored.expiresAt]_vars
      BY <1>1
  <1> QED BY Inductive, <1>2, PTL DEF Spec, AcceptedTokensAlive

\* Only a token the server never issued is answered "token not found".
THEOREM FoundCorrect == Spec => IssuedTokensFound
  <1>1. ASSUME IInv, [Next]_vars, NEW g \in Goroutine, pc[g] = "lookup",
               Returns(g, "token_not_found")
        PROVE  raw[g] = Bogus
      <2>1. CASE GetTokenByHash(g)
          <3>1. tokens[ComputeTokenHash(raw[g])] = None
              BY <1>1, <2>1 DEF GetTokenByHash, Goto, Returns, IInv, TypeOK
          <3> QED BY <1>1, <3>1 DEF IInv, CopiesCoherent, CopyCoherent, AnswersStored
      <2>2. CASE StoreFails(g)
          <3>1. reply'[g] = StoreErrorReply("lookup")
              BY <1>1, <2>2 DEF StoreFails, Return, IInv, TypeOK
          <3> QED BY <1>1, <3>1 DEF StoreErrorReply, Returns
      <2> QED BY <1>1, <2>1, <2>2, CallEnds DEF Returns
  <1>2. IInv /\ [Next]_vars =>
          [\A g \in Goroutine : pc[g] = "lookup" /\ Returns(g, "token_not_found") =>
             raw[g] = Bogus]_vars
      BY <1>1
  <1> QED BY Inductive, <1>2, PTL DEF Spec, IssuedTokensFound

-----------------------------------------------------------------------------
\* A step that leaves tokens and revoked alone, and every copy that is about to
\* be saved or checked too, acknowledges as before.
LEMMA AcknowledgedKept ==
    ASSUME RevocationsAcknowledged, UNCHANGED tokens, revoked \subseteq revoked',
           \A h \in Goroutine : pc'[h] \in {"save", "check"} =>
               pc'[h] = pc[h] /\ raw'[h] = raw[h] /\ token'[h] = token[h]
    PROVE  RevocationsAcknowledged'
  BY DEF RevocationsAcknowledged, IsRevoked

\* A goroutine that returns is neither saving nor checking, and the others hold
\* what they held.
LEMMA ReturnHolds ==
    ASSUME TypeOK, NEW g \in Goroutine, NEW outcome, Return(g, outcome),
           NEW h \in Goroutine, pc'[h] \in {"save", "check"}
    PROVE  pc'[h] = pc[h] /\ raw'[h] = raw[h] /\ token'[h] = token[h]
  BY DEF TypeOK, Return, Goto

\* The same of one that begins a call.
LEMMA InvokeHolds ==
    ASSUME TypeOK, NEW g \in Goroutine, NEW step, Invoke(g, step), step \notin {"save", "check"},
           raw' = raw \/ (\E rw : raw' = [raw EXCEPT ![g] = rw]), UNCHANGED token,
           NEW h \in Goroutine, pc'[h] \in {"save", "check"}
    PROVE  pc'[h] = pc[h] /\ raw'[h] = raw[h] /\ token'[h] = token[h]
  BY DEF TypeOK, Invoke, Goto

\* RevokeToken marks the entry of the token whose revocation it answers, and no
\* other; nothing else marks an entry or a copy.
LEMMA AcknowledgedStep ==
    IInv /\ RevocationsAcknowledged /\ [Next]_vars => RevocationsAcknowledged'
  <1> SUFFICES ASSUME IInv, RevocationsAcknowledged, [Next]_vars PROVE RevocationsAcknowledged'
      OBVIOUS
  <1>0. TypeOK /\ CopiesCoherent
      BY DEF IInv
  <1>1. CASE Tick \/ UNCHANGED vars
      BY <1>1, AcknowledgedKept DEF Tick, vars, storeVars, localVars, historyVars
  <1>2. ASSUME NEW g \in Goroutine, NEW outcome, Return(g, outcome),
               UNCHANGED <<tokens, revoked>>
        PROVE  RevocationsAcknowledged'
      BY <1>0, <1>2, ReturnHolds, AcknowledgedKept
  <1>3. ASSUME NEW g \in Goroutine, NEW r \in TokenRequests, AcceptTokenRequest(g, r)
        PROVE  RevocationsAcknowledged'
      BY <1>0, <1>3, InvokeHolds, AcknowledgedKept
         DEF AcceptTokenRequest, storeVars, historyVars
  <1>4. ASSUME NEW g \in Goroutine, NEW rw \in RawToken,
               BeginValidate(g, rw) \/ BeginRevoke(g, rw)
        PROVE  RevocationsAcknowledged'
      BY <1>0, <1>4, InvokeHolds, AcknowledgedKept
         DEF BeginValidate, BeginRevoke, storeVars, historyVars
  <1>5. ASSUME NEW g \in Goroutine, GetClient(g), clients[req[g].clientID] # None
        PROVE  RevocationsAcknowledged'
      BY <1>0, <1>5, AcknowledgedKept DEF GetClient, Goto, TypeOK, storeVars, historyVars
  <1>6. ASSUME NEW g \in Goroutine, NEW rw \in RawToken, Mint(g, rw)
        PROVE  RevocationsAcknowledged'
      <2>1. pc'[g] = "save" /\ ~IsRevoked(token'[g]) /\ UNCHANGED <<tokens, revoked>>
          BY <1>0, <1>6 DEF Mint, Goto, TypeOK, IsRevoked, storeVars, historyVars
      <2>2. ASSUME NEW h \in Goroutine, h # g
            PROVE  pc'[h] = pc[h] /\ raw'[h] = raw[h] /\ token'[h] = token[h]
          BY <1>0, <1>6, <2>2 DEF Mint, Goto, TypeOK
      <2> QED BY <2>1, <2>2 DEF RevocationsAcknowledged, IsRevoked
  <1>7. ASSUME NEW g \in Goroutine, GetTokenByHash(g), tokens[ComputeTokenHash(raw[g])] # None
        PROVE  RevocationsAcknowledged'
      <2>1. /\ pc'[g] = "check" /\ raw'[g] = raw[g]
            /\ token'[g] = tokens[ComputeTokenHash(raw[g])]
            /\ UNCHANGED <<tokens, revoked>>
          BY <1>0, <1>7 DEF GetTokenByHash, Goto, TypeOK, storeVars, historyVars
      <2>2. ASSUME NEW h \in Goroutine, h # g
            PROVE  pc'[h] = pc[h] /\ raw'[h] = raw[h] /\ token'[h] = token[h]
          BY <1>0, <1>7, <2>2 DEF GetTokenByHash, Goto, TypeOK
      <2>3. raw[g] \in RawToken
          BY <1>0, <1>7, ConstantsAssumption DEF GetTokenByHash, CopiesCoherent, CopyCoherent, TypeOK
      <2> QED BY <1>7, <2>1, <2>2, <2>3 DEF RevocationsAcknowledged, IsRevoked
  <1>8. ASSUME NEW g \in Goroutine, SaveToken(g) PROVE RevocationsAcknowledged'
      <2>1. pc[g] = "save" /\ raw[g] \in RawToken /\ UNCHANGED revoked
          BY <1>8, SaversNew DEF SaveToken
      <2>2. ASSUME NEW rw \in RawToken
            PROVE  tokens'[ComputeTokenHash(rw)] \in {token[g], tokens[ComputeTokenHash(rw)]}
          BY <1>0, <1>8, HashType DEF SaveToken, TypeOK
      <2>3. ~IsRevoked(token[g])
          BY <2>1 DEF RevocationsAcknowledged
      <2>4. ASSUME NEW rw \in RawToken, tokens'[ComputeTokenHash(rw)] # None,
                   IsRevoked(tokens'[ComputeTokenHash(rw)])
            PROVE  rw \in revoked'
          BY <2>1, <2>2, <2>3, <2>4 DEF RevocationsAcknowledged
      <2>5. ASSUME NEW h \in Goroutine, pc'[h] \in {"save", "check"}
            PROVE  pc'[h] = pc[h] /\ raw'[h] = raw[h] /\ token'[h] = token[h]
          BY <1>0, <1>8, <2>5, ReturnHolds DEF SaveToken
      <2> QED BY <2>1, <2>4, <2>5 DEF RevocationsAcknowledged, IsRevoked
  <1>9. ASSUME NEW g \in Goroutine, RevokeToken(g) PROVE RevocationsAcknowledged'
      <2>1. raw[g] \in RawToken /\ revoked' = revoked \cup {raw[g]}
          BY <1>0, <1>9, ConstantsAssumption DEF RevokeToken, CopiesCoherent, CopyCoherent, TypeOK
      <2>2. ASSUME NEW rw \in RawToken, rw # raw[g]
            PROVE  tokens'[ComputeTokenHash(rw)] = tokens[ComputeTokenHash(rw)]
          BY <1>0, <1>9, <2>2, HashType, HashInjective DEF RevokeToken, TypeOK
      <2>3. ASSUME NEW rw \in RawToken, tokens'[ComputeTokenHash(rw)] # None,
                   IsRevoked(tokens'[ComputeTokenHash(rw)])
            PROVE  rw \in revoked'
          BY <2>1, <2>2, <2>3 DEF RevocationsAcknowledged
      <2>4. ASSUME NEW h \in Goroutine, pc'[h] \in {"save", "check"}
            PROVE  pc'[h] = pc[h] /\ raw'[h] = raw[h] /\ token'[h] = token[h]
          BY <1>0, <1>9, <2>4, ReturnHolds DEF RevokeToken
      <2> QED BY <2>1, <2>3, <2>4 DEF RevocationsAcknowledged, IsRevoked
  <1>10. ASSUME NEW g \in Goroutine
         PROVE  /\ RefuseRegistration(g) => RevocationsAcknowledged'
                /\ CheckToken(g) => RevocationsAcknowledged'
                /\ StoreFails(g) => RevocationsAcknowledged'
                /\ RefuseToMint(g) => RevocationsAcknowledged'
                /\ \A r \in TokenRequests : RefuseTokenRequest(g, r) => RevocationsAcknowledged'
                /\ \A r \in Registrations, id \in ClientID, s \in Secret :
                       RegisterClient(g, r, id, s) => RevocationsAcknowledged'
                /\ GetClient(g) => RevocationsAcknowledged'
                /\ GetTokenByHash(g) => RevocationsAcknowledged'
      BY <1>2, <1>5, <1>7 DEF RefuseRegistration, CheckToken, StoreFails, RefuseToMint,
         RefuseTokenRequest, RegisterClient, GetClient, GetTokenByHash, storeVars, historyVars
  <1> QED BY <1>1, <1>3, <1>4, <1>6, <1>8, <1>9, <1>10 DEF Next

\* No token is revoked, in the store or in a copy in use, that nobody asked
\* RevokeToken to revoke.
THEOREM AcknowledgedCorrect == Spec => []RevocationsAcknowledged
  <1>1. Init => RevocationsAcknowledged
      BY HashType DEF Init, RevocationsAcknowledged
  <1> QED BY Inductive, <1>1, AcknowledgedStep, PTL DEF Spec

=============================================================================
