-------------------------- MODULE OAuthRegistryProofs --------------------------
(***************************************************************************)
(* The proof that OAuthService implements TokenRegistry, for every set of  *)
(* goroutines, clients, secrets, tokens and requests.                      *)
(*                                                                         *)
(* The mapping is a state function of the store and of the program         *)
(* counters.  The lemmas say what a return, a call that begins and a write *)
(* to the store are under it; then each action is a step of the registry   *)
(* or none, which needs IInv and RevocationsAcknowledged.                  *)
(***************************************************************************)
EXTENDS OAuthServiceProofs

\* The mapping, as the registry sees it.
grantBar   == registryGrant
askedBar   == [g \in Goroutine |-> IF Validating(g) THEN raw[g] ELSE None]
barredBar  == [g \in Goroutine |-> Validating(g) /\ raw[g] \in revokedBefore[g]]
verdictBar == registryVerdict

\* What of a reply the registry calls a verdict.
VerdictOf(r) ==
    IF r \in {"valid", "token_not_found", "token_revoked", "token_expired", "server_error"}
    THEN r ELSE None

\* Registry!Conclude, in these terms.
ConcludeBar(g, v) ==
    /\ askedBar'   = [askedBar EXCEPT ![g] = None]
    /\ barredBar'  = [barredBar EXCEPT ![g] = FALSE]
    /\ verdictBar' = [verdictBar EXCEPT ![g] = v]

\* A goroutine that returns concludes with the verdict its reply is.
LEMMA ReturnConcludes ==
    ASSUME TypeOK, NEW g \in Goroutine, NEW outcome, Return(g, outcome)
    PROVE  ConcludeBar(g, VerdictOf(outcome))
  <1>1. /\ pc' = [pc EXCEPT ![g] = "idle"]
        /\ raw' = [raw EXCEPT ![g] = None]
        /\ revokedBefore' = [revokedBefore EXCEPT ![g] = {}]
        /\ reply' = [reply EXCEPT ![g] = outcome]
      BY DEF Return, Goto
  <1>2. askedBar' = [askedBar EXCEPT ![g] = None]
      BY <1>1 DEF askedBar, Validating, TypeOK
  <1>3. barredBar' = [barredBar EXCEPT ![g] = FALSE]
      BY <1>1 DEF barredBar, Validating, TypeOK
  <1>4. verdictBar' = [verdictBar EXCEPT ![g] = VerdictOf(outcome)]
      BY <1>1 DEF verdictBar, registryVerdict, VerdictOf, TypeOK
  <1> QED BY <1>2, <1>3, <1>4 DEF ConcludeBar

\* A call that begins, and is not a validation, concludes with no verdict.
LEMMA InvokeConcludes ==
    ASSUME TypeOK, NEW g \in Goroutine, NEW step, Invoke(g, step),
           step \notin {"lookup", "check"},
           raw' = raw \/ (\E rw : raw' = [raw EXCEPT ![g] = rw])
    PROVE  ConcludeBar(g, None)
  <1>1. /\ pc' = [pc EXCEPT ![g] = step]
        /\ revokedBefore' = [revokedBefore EXCEPT ![g] = revoked]
        /\ reply' = [reply EXCEPT ![g] = None]
      BY DEF Invoke, Goto
  <1>2. askedBar' = [askedBar EXCEPT ![g] = None]
      BY <1>1 DEF askedBar, Validating, TypeOK
  <1>3. barredBar' = [barredBar EXCEPT ![g] = FALSE]
      BY <1>1 DEF barredBar, Validating, TypeOK
  <1>4. verdictBar' = [verdictBar EXCEPT ![g] = None]
      BY <1>1 DEF verdictBar, registryVerdict, TypeOK
  <1> QED BY <1>2, <1>3, <1>4 DEF ConcludeBar

\* A goroutine that is not validating has asked for nothing.
LEMMA NotAsking ==
    ASSUME NEW g \in Goroutine, ~Validating(g)
    PROVE  askedBar[g] = None
  BY DEF askedBar

\* The entry of a token in the store is what the token grants.
LEMMA GrantBarOf ==
    ASSUME TypeOK, NEW rw \in RawToken
    PROVE  /\ tokens[ComputeTokenHash(rw)] = None => grantBar[rw] = None
           /\ tokens[ComputeTokenHash(rw)] # None =>
                /\ grantBar[rw] = GrantOf(tokens[ComputeTokenHash(rw)])
                /\ grantBar[rw] \in Registry!Grant
                /\ grantBar[rw] # None
                /\ grantBar[rw].expiresAt = tokens[ComputeTokenHash(rw)].expiresAt
  <1>1. /\ tokens[ComputeTokenHash(rw)] = None => grantBar[rw] = None
        /\ tokens[ComputeTokenHash(rw)] # None =>
             grantBar[rw] = GrantOf(tokens[ComputeTokenHash(rw)])
      BY DEF grantBar, registryGrant
  <1>2. ASSUME tokens[ComputeTokenHash(rw)] # None
        PROVE  GrantOf(tokens[ComputeTokenHash(rw)]) \in Registry!Grant
      <2>1. tokens[ComputeTokenHash(rw)] \in Token
          BY <1>2, HashType DEF TypeOK
      <2> QED BY <2>1 DEF Token, GrantOf, Registry!Grant
  <1>3. \A t : GrantOf(t).expiresAt = t.expiresAt
      BY DEF GrantOf
  <1> QED BY <1>1, <1>2, <1>3, GrantAssumption

-----------------------------------------------------------------------------
(* Steps of the registry, from what a step of the service does to the      *)
(* mapped variables.                                                       *)

\* One that is not about tokens.
LEMMA ProceedBar ==
    ASSUME NEW g \in Goroutine, NEW v \in {None, "server_error"}, askedBar[g] = None,
           ConcludeBar(g, v), UNCHANGED <<grantBar, revoked, clock>>
    PROVE  Registry!RegistryNext
  <1>1. Registry!Proceed(g, v)
      BY DEF Registry!Proceed, Registry!Conclude, ConcludeBar, askedBar, barredBar,
             verdictBar, grantBar
  <1> QED BY <1>1 DEF Registry!RegistryNext

\* A validation that is refused.
LEMMA RefuseBar ==
    ASSUME NEW g \in Goroutine, NEW why \in Registry!Refusals, askedBar[g] # None,
           Registry!MayRefuse(g, why), ConcludeBar(g, why),
           UNCHANGED <<grantBar, revoked, clock>>
    PROVE  Registry!RegistryNext
  <1>1. Registry!Refuse(g, why)
      BY DEF Registry!Refuse, Registry!Conclude, ConcludeBar, askedBar, barredBar,
             verdictBar, grantBar
  <1> QED BY <1>1 DEF Registry!RegistryNext

\* A step that moves no goroutine into or out of a validation, and writes
\* nothing the registry sees, is no step of the registry.
LEMMA StutterBar ==
    ASSUME UNCHANGED <<tokens, revoked, clock, reply, revokedBefore>>,
           \A h \in Goroutine : /\ Validating(h)' <=> Validating(h)
                                /\ Validating(h) => raw'[h] = raw[h]
    PROVE  UNCHANGED Registry!registryVars
  <1>1. UNCHANGED <<registryGrant, registryVerdict>>
      BY DEF registryGrant, registryVerdict
  <1>2. UNCHANGED askedBar
      BY DEF askedBar, Validating
  <1>3. UNCHANGED barredBar
      BY DEF barredBar, Validating
  <1> QED BY <1>1, <1>2, <1>3 DEF Registry!registryVars, askedBar, barredBar

\* The grants are those of the store.
LEMMA GrantKept == UNCHANGED tokens => UNCHANGED grantBar
  BY DEF grantBar, registryGrant

\* The replies of a call that is no validation are no verdicts.
LEMMA NoVerdict ==
    /\ \A r : RequestStatus(r) # "ok" => VerdictOf(RequestStatus(r)) = None
    /\ \A r, c : AuthorizationStatus(r, c) # "ok" => VerdictOf(AuthorizationStatus(r, c)) = None
    /\ \A o \in {"created", "issued", "revoked", "invalid_request", "invalid_client"} :
          VerdictOf(o) = None
  BY DEF VerdictOf, RequestStatus, AuthorizationStatus

-----------------------------------------------------------------------------
(* The actions.                                                            *)

\* Registration, and what a token request is refused for: not about tokens.
LEMMA ReturnsProceed ==
    ASSUME TypeOK, NEW g \in Goroutine,
           \/ \E r \in Registrations, id \in ClientID, s \in Secret : RegisterClient(g, r, id, s)
           \/ RefuseRegistration(g)
           \/ \E r \in TokenRequests : RefuseTokenRequest(g, r)
           \/ GetClient(g) /\ clients[req[g].clientID] = None
           \/ RefuseToMint(g)
    PROVE  Registry!RegistryNext
  <1>1. PICK o : Return(g, o) /\ VerdictOf(o) = None
      BY NoVerdict DEF RegisterClient, RefuseRegistration, RefuseTokenRequest, GetClient,
         RefuseToMint
  <1>2. pc[g] \in {"idle", "getClient", "mint"}
      BY DEF RegisterClient, RefuseRegistration, RefuseTokenRequest, GetClient, RefuseToMint
  <1>3. UNCHANGED <<tokens, revoked, clock>>
      BY DEF RegisterClient, RefuseRegistration, RefuseTokenRequest, GetClient, RefuseToMint,
         storeVars, historyVars
  <1>4. askedBar[g] = None
      BY <1>2, NotAsking DEF Validating
  <1>5. ConcludeBar(g, None)
      BY <1>1, ReturnConcludes
  <1> QED BY <1>3, <1>4, <1>5, ProceedBar, GrantKept

\* A token request or a revocation that begins: not about tokens yet.
LEMMA CallsProceed ==
    ASSUME TypeOK, NEW g \in Goroutine,
           \/ \E r \in TokenRequests : AcceptTokenRequest(g, r)
           \/ \E rw \in RawToken : BeginRevoke(g, rw)
    PROVE  Registry!RegistryNext
  <1>1. pc[g] = "idle" /\ UNCHANGED <<tokens, revoked, clock>>
      BY DEF AcceptTokenRequest, BeginRevoke, Invoke, storeVars, historyVars
  <1>2. askedBar[g] = None
      BY <1>1, NotAsking DEF Validating
  <1>3. ConcludeBar(g, None)
      BY InvokeConcludes DEF AcceptTokenRequest, BeginRevoke
  <1> QED BY <1>1, <1>2, <1>3, ProceedBar, GrantKept

\* A copy is taken, or a token drawn: nothing the registry sees.
LEMMA CopiesStutter ==
    ASSUME TypeOK, NEW g \in Goroutine,
           \/ GetClient(g) /\ clients[req[g].clientID] # None
           \/ \E rw \in RawToken : Mint(g, rw)
           \/ GetTokenByHash(g) /\ tokens[ComputeTokenHash(raw[g])] # None
    PROVE  UNCHANGED Registry!registryVars
  <1>1. UNCHANGED <<tokens, revoked, clock, reply, revokedBefore>>
      BY DEF GetClient, Mint, GetTokenByHash, storeVars, historyVars
  <1>2. ASSUME NEW h \in Goroutine
        PROVE  /\ Validating(h)' <=> Validating(h)
               /\ Validating(h) => raw'[h] = raw[h]
      BY DEF GetClient, Mint, GetTokenByHash, Goto, Validating, TypeOK
  <1> QED BY <1>1, <1>2, StutterBar

\* A validation that begins is a question to the registry.
LEMMA ValidateAsks ==
    ASSUME TypeOK, NEW g \in Goroutine, NEW rw \in RawToken, BeginValidate(g, rw)
    PROVE  Registry!RegistryNext
  <1>1. /\ pc[g] = "idle" /\ pc' = [pc EXCEPT ![g] = "lookup"]
        /\ raw' = [raw EXCEPT ![g] = rw]
        /\ revokedBefore' = [revokedBefore EXCEPT ![g] = revoked]
        /\ reply' = [reply EXCEPT ![g] = None]
        /\ UNCHANGED <<tokens, revoked, clock>>
      BY DEF BeginValidate, Invoke, Goto, storeVars, historyVars
  <1>2. askedBar[g] = None
      BY <1>1, NotAsking DEF Validating
  <1>3. askedBar' = [askedBar EXCEPT ![g] = rw]
      BY <1>1 DEF askedBar, Validating, TypeOK
  <1>4. barredBar' = [barredBar EXCEPT ![g] = rw \in revoked]
      <2>1. ASSUME NEW h \in Goroutine, h # g
            PROVE  pc'[h] = pc[h] /\ raw'[h] = raw[h] /\ revokedBefore'[h] = revokedBefore[h]
          BY <1>1, <2>1 DEF TypeOK
      <2>2. pc'[g] = "lookup" /\ raw'[g] = rw /\ revokedBefore'[g] = revoked
          BY <1>1 DEF TypeOK
      <2>3. Validating(g)' /\ \A h \in Goroutine \ {g} : Validating(h)' = Validating(h)
          BY <2>1, <2>2 DEF Validating
      <2>4. barredBar' = [h \in Goroutine |->
                            IF h = g THEN rw \in revoked
                            ELSE Validating(h) /\ raw[h] \in revokedBefore[h]]
          <3>1. ASSUME NEW h \in Goroutine
                PROVE  (Validating(h)' /\ raw'[h] \in revokedBefore'[h])
                       = IF h = g THEN rw \in revoked
                         ELSE Validating(h) /\ raw[h] \in revokedBefore[h]
              <4>1. CASE h = g
                  BY <2>2, <2>3, <4>1
              <4>2. CASE h # g
                  BY <2>1, <2>3, <4>2
              <4> QED BY <4>1, <4>2
          <3> QED BY <3>1, Zenon DEF barredBar
      <2> QED BY <2>4, Zenon DEF barredBar
  <1>5. verdictBar' = [verdictBar EXCEPT ![g] = None]
      BY <1>1 DEF verdictBar, registryVerdict, TypeOK
  <1>6. UNCHANGED grantBar
      BY <1>1, GrantKept
  <1>7. Registry!Ask(g, rw)
      BY <1>1, <1>2, <1>3, <1>4, <1>5, <1>6
         DEF Registry!Ask, askedBar, barredBar, verdictBar, grantBar
  <1> QED BY <1>7 DEF Registry!RegistryNext

\* SaveToken issues the token: nobody can have been given it before.
LEMMA SaveIssues ==
    ASSUME IInv, NEW g \in Goroutine, SaveToken(g)
    PROVE  Registry!RegistryNext
  <1>0. TypeOK /\ CopiesCoherent
      BY DEF IInv
  <1>1. /\ pc[g] = "save" /\ raw[g] \in RawToken /\ token[g] \in Token
        /\ tokens[ComputeTokenHash(raw[g])] = None
      BY <1>0 DEF SaveToken, TypeOK, CopiesCoherent, CopyCoherent
  <1>2. tokens' = [tokens EXCEPT ![ComputeTokenHash(raw[g])] = token[g]]
      BY DEF SaveToken
  <1>3. ASSUME NEW rw \in RawToken
        PROVE  tokens'[ComputeTokenHash(rw)] =
                 IF rw = raw[g] THEN token[g] ELSE tokens[ComputeTokenHash(rw)]
      BY <1>0, <1>1, <1>2, HashType, HashInjective DEF TypeOK
  <1>4. grantBar' = [grantBar EXCEPT ![raw[g]] = GrantOf(token[g])]
      <2>1. token[g] # None
          BY <1>1, NoneAssumption
      <2> QED BY <1>1, <1>3, <2>1 DEF grantBar, registryGrant, GrantOf
  <1>5. GrantOf(token[g]) \in Registry!Grant
      BY <1>1 DEF Token, GrantOf, Registry!Grant
  <1>6. grantBar[raw[g]] = None /\ grantBar'[raw[g]] = GrantOf(token[g])
      BY <1>0, <1>1, <1>4, GrantBarOf DEF grantBar, registryGrant
  <1>7. askedBar[g] = None
      BY <1>1, NotAsking DEF Validating
  <1>8. ConcludeBar(g, None)
      BY <1>0, ReturnConcludes, NoVerdict DEF SaveToken
  <1>9. grantBar' = [grantBar EXCEPT ![raw[g]] = grantBar'[raw[g]]]
      BY <1>4, <1>6
  <1>10. Registry!Issue(g, raw[g], grantBar'[raw[g]])
      BY <1>5, <1>6, <1>7, <1>8, <1>9
         DEF Registry!Issue, Registry!Conclude, ConcludeBar, askedBar, barredBar,
             verdictBar, grantBar, SaveToken
  <1>11. \E c \in Goroutine, t \in RawToken : Registry!Issue(c, t, registryGrant'[t])
      BY <1>1, <1>10 DEF grantBar
  <1> QED BY <1>11 DEF Registry!RegistryNext

\* RevokeToken revokes: the entry is marked and the caller answered at once, and
\* what the token grants stays as it was.
LEMMA RevokeRevokes ==
    ASSUME IInv, NEW g \in Goroutine, RevokeToken(g)
    PROVE  Registry!RegistryNext
  <1>0. TypeOK /\ CopiesCoherent
      BY DEF IInv
  <1>1. pc[g] = "revoke" /\ raw[g] \in RawToken
      BY <1>0, ConstantsAssumption DEF RevokeToken, TypeOK, CopiesCoherent, CopyCoherent
  <1>2. ASSUME NEW h \in TokenHash
        PROVE  \/ tokens'[h] = tokens[h]
               \/ /\ tokens[h] # None
                  /\ tokens'[h] = [tokens[h] EXCEPT !.revokedAt = clock]
      BY <1>0, <1>1, HashType DEF RevokeToken, TypeOK
  <1>3. ASSUME NEW t \in Token, t # None
        PROVE  /\ [t EXCEPT !.revokedAt = clock] # None
               /\ GrantOf([t EXCEPT !.revokedAt = clock]) = GrantOf(t)
      <2>1. [t EXCEPT !.revokedAt = clock] \in Token
          BY <1>0 DEF Token, TypeOK
      <2> QED BY <2>1, NoneAssumption DEF Token, GrantOf
  <1>4. ASSUME NEW rw \in RawToken
        PROVE  grantBar'[rw] = grantBar[rw]
      <2> DEFINE t == tokens[ComputeTokenHash(rw)]
      <2>1. ComputeTokenHash(rw) \in TokenHash /\ (t # None => t \in Token)
          BY <1>0, HashType DEF TypeOK
      <2>2. \/ tokens'[ComputeTokenHash(rw)] = t
            \/ t \in Token /\ tokens'[ComputeTokenHash(rw)] = [t EXCEPT !.revokedAt = clock]
          BY <1>2, <2>1
      <2>3. CASE tokens'[ComputeTokenHash(rw)] = t
          BY <2>3 DEF grantBar, registryGrant
      <2>4. CASE t \in Token /\ tokens'[ComputeTokenHash(rw)] = [t EXCEPT !.revokedAt = clock]
          <3>1. /\ tokens'[ComputeTokenHash(rw)] # None /\ t # None
                /\ GrantOf(tokens'[ComputeTokenHash(rw)]) = GrantOf(t)
              BY <1>3, <2>4, NoneAssumption
          <3>2. grantBar'[rw] = GrantOf(tokens'[ComputeTokenHash(rw)])
              BY <3>1 DEF grantBar, registryGrant, GrantOf
          <3>3. grantBar[rw] = GrantOf(t)
              BY <3>1 DEF grantBar, registryGrant
          <3> QED BY <3>1, <3>2, <3>3
      <2> QED BY <2>2, <2>3, <2>4
  <1>5. UNCHANGED grantBar
      BY <1>4 DEF grantBar, registryGrant
  <1>6. askedBar[g] = None
      BY <1>1, NotAsking DEF Validating
  <1>7. ConcludeBar(g, None)
      BY <1>0, ReturnConcludes, NoVerdict DEF RevokeToken
  <1>8. Registry!Revoke(g, raw[g])
      BY <1>5, <1>6, <1>7
         DEF Registry!Revoke, Registry!Conclude, ConcludeBar, askedBar, barredBar,
             verdictBar, grantBar, RevokeToken
  <1> QED BY <1>1, <1>8 DEF Registry!RegistryNext

\* A token that is not in the store was not issued.
LEMMA NotFoundRefuses ==
    ASSUME IInv, NEW g \in Goroutine, GetTokenByHash(g), tokens[ComputeTokenHash(raw[g])] = None
    PROVE  Registry!RegistryNext
  <1>0. TypeOK /\ CopiesCoherent
      BY DEF IInv
  <1>1. pc[g] = "lookup" /\ raw[g] \in RawToken
      BY <1>0, ConstantsAssumption DEF GetTokenByHash, TypeOK, CopiesCoherent, CopyCoherent
  <1>2. askedBar[g] = raw[g] /\ askedBar[g] # None
      BY <1>1, NoneAssumption DEF askedBar, Validating
  <1>3. ConcludeBar(g, "token_not_found")
      <2>1. Return(g, "token_not_found")
          BY DEF GetTokenByHash
      <2> QED BY <1>0, <2>1, ReturnConcludes DEF VerdictOf
  <1>4. UNCHANGED <<tokens, revoked, clock>>
      BY DEF GetTokenByHash, storeVars, historyVars
  <1>5. Registry!MayRefuse(g, "token_not_found")
      BY <1>0, <1>1, <1>2, GrantBarOf DEF Registry!MayRefuse, askedBar, grantBar
  <1>6. "token_not_found" \in Registry!Refusals
      BY DEF Registry!Refusals
  <1> QED BY <1>2, <1>3, <1>4, <1>5, <1>6, RefuseBar, GrantKept

\* ValidateToken decides on its copy as the registry may at that moment: the copy
\* grants what the store has; a revocation it shows was acknowledged, and one
\* that was acknowledged before the call it shows.
LEMMA CheckAnswers ==
    ASSUME IInv, RevocationsAcknowledged, NEW g \in Goroutine, CheckToken(g)
    PROVE  Registry!RegistryNext
  <1>0. TypeOK /\ CopiesCoherent
      BY DEF IInv
  <1> DEFINE stored == tokens[ComputeTokenHash(raw[g])]
  <1>1. /\ pc[g] = "check" /\ raw[g] \in RawToken
        /\ token[g] \in Token /\ stored # None
        /\ SameGrant(token[g], stored)
        /\ raw[g] \in revokedBefore[g] => IsRevoked(token[g])
      BY <1>0, ConstantsAssumption DEF CheckToken, TypeOK, CopiesCoherent, CopyCoherent
  <1>2. askedBar[g] = raw[g] /\ askedBar[g] # None
      BY <1>1, NoneAssumption DEF askedBar, Validating
  <1>3. ConcludeBar(g, TokenStatus(token[g], clock))
      BY <1>0, ReturnConcludes DEF CheckToken, VerdictOf, TokenStatus
  <1>4. UNCHANGED <<tokens, revoked, clock>>
      BY DEF CheckToken, storeVars, historyVars
  <1>5. grantBar[raw[g]] # None /\ grantBar[raw[g]].expiresAt = token[g].expiresAt
      BY <1>0, <1>1, GrantBarOf DEF SameGrant
  <1>6. barredBar[g] => IsRevoked(token[g])
      BY <1>1 DEF barredBar
  <1>7. CASE IsRevoked(token[g])
      <2>1. raw[g] \in revoked
          BY <1>1, <1>7 DEF RevocationsAcknowledged
      <2>2. Registry!MayRefuse(g, "token_revoked")
          BY <1>2, <2>1 DEF Registry!MayRefuse, askedBar
      <2>3. ConcludeBar(g, "token_revoked") /\ "token_revoked" \in Registry!Refusals
          BY <1>3, <1>7 DEF TokenStatus, Registry!Refusals
      <2> QED BY <1>2, <1>4, <2>2, <2>3, RefuseBar, GrantKept
  <1>8. CASE ~IsRevoked(token[g]) /\ IsExpired(token[g], clock)
      <2>1. ~barredBar[g] /\ clock > grantBar[raw[g]].expiresAt
          BY <1>5, <1>6, <1>8 DEF IsExpired
      <2>2. Registry!MayRefuse(g, "token_expired")
          BY <1>2, <1>5, <2>1 DEF Registry!MayRefuse, askedBar, barredBar, grantBar
      <2>3. ConcludeBar(g, "token_expired") /\ "token_expired" \in Registry!Refusals
          BY <1>3, <1>8 DEF TokenStatus, Registry!Refusals
      <2> QED BY <1>2, <1>4, <2>2, <2>3, RefuseBar, GrantKept
  <1>9. CASE ~IsRevoked(token[g]) /\ ~IsExpired(token[g], clock)
      <2>1. ~barredBar[g] /\ clock <= grantBar[raw[g]].expiresAt
          <3>1. clock \in Nat /\ token[g].expiresAt \in Nat
              BY <1>0, <1>1 DEF TypeOK, Token
          <3> QED BY <1>5, <1>6, <1>9, <3>1 DEF IsExpired
      <2>2. Registry!MayAccept(g)
          BY <1>2, <1>5, <2>1 DEF Registry!MayAccept, askedBar, barredBar, grantBar
      <2>3. ConcludeBar(g, "valid") /\ UNCHANGED grantBar
          BY <1>3, <1>4, <1>9, GrantKept DEF TokenStatus
      <2>4. Registry!Accept(g)
          BY <1>2, <1>4, <2>2, <2>3
             DEF Registry!Accept, Registry!Conclude, ConcludeBar, askedBar, barredBar,
                 verdictBar, grantBar
      <2> QED BY <2>4 DEF Registry!RegistryNext
  <1> QED BY <1>7, <1>8, <1>9

\* A store that fails refuses a validation, or ends a call that is none.
LEMMA FailureAnswers ==
    ASSUME IInv, NEW g \in Goroutine, StoreFails(g)
    PROVE  Registry!RegistryNext
  <1>0. TypeOK /\ CopiesCoherent
      BY DEF IInv
  <1>1. UNCHANGED <<tokens, revoked, clock>> /\ Return(g, StoreErrorReply(pc[g]))
      BY DEF StoreFails, storeVars, historyVars
  <1>2. ConcludeBar(g, VerdictOf(StoreErrorReply(pc[g])))
      BY <1>0, <1>1, ReturnConcludes
  <1>3. CASE pc[g] = "lookup"
      <2>1. askedBar[g] # None
          BY <1>0, <1>3, ConstantsAssumption, NoneAssumption
             DEF askedBar, Validating, TypeOK, CopiesCoherent, CopyCoherent
      <2>2. ConcludeBar(g, "server_error")
          BY <1>2, <1>3 DEF VerdictOf, StoreErrorReply
      <2>3. Registry!MayRefuse(g, "server_error") /\ "server_error" \in Registry!Refusals
          BY DEF Registry!MayRefuse, Registry!Refusals
      <2> QED BY <1>1, <2>1, <2>2, <2>3, RefuseBar, GrantKept
  <1>4. CASE pc[g] \in {"getClient", "save", "revoke"}
      <2>1. askedBar[g] = None
          BY <1>4, NotAsking DEF Validating
      <2>2. VerdictOf(StoreErrorReply(pc[g])) \in {None, "server_error"}
          BY <1>4 DEF VerdictOf, StoreErrorReply
      <2> QED BY <1>1, <1>2, <2>1, <2>2, ProceedBar, GrantKept
  <1> QED BY <1>3, <1>4 DEF StoreFails

-----------------------------------------------------------------------------
\* The service starts as an empty registry.
LEMMA InitRegistry == Init => Registry!RegistryInit
  <1> SUFFICES ASSUME Init PROVE Registry!RegistryInit
      OBVIOUS
  <1>1. registryGrant = [t \in RawToken |-> None]
      BY HashType DEF Init, registryGrant
  <1>2. registryVerdict = [g \in Goroutine |-> None]
      BY DEF Init, registryVerdict
  <1>3. ASSUME NEW g \in Goroutine PROVE ~Validating(g)
      BY DEF Init, Validating
  <1>4. /\ askedBar = [g \in Goroutine |-> None]
        /\ barredBar = [g \in Goroutine |-> FALSE]
      BY <1>3 DEF askedBar, barredBar
  <1> QED BY <1>1, <1>2, <1>4 DEF Registry!RegistryInit, Init, askedBar, barredBar

\* Every step of the service is a step of the registry or none.
LEMMA StepRegistry ==
    IInv /\ RevocationsAcknowledged /\ [Next]_vars =>
        [Registry!RegistryNext]_(Registry!registryVars)
  <1> SUFFICES ASSUME IInv, RevocationsAcknowledged, [Next]_vars
               PROVE  Registry!RegistryNext \/ UNCHANGED Registry!registryVars
      OBVIOUS
  <1>0. TypeOK
      BY DEF IInv
  <1>1. CASE Tick
      <2>1. /\ clock' = clock + 1
            /\ UNCHANGED <<tokens, pc, raw, reply, revoked, revokedBefore>>
          BY <1>1 DEF Tick, storeVars, localVars, historyVars
      <2>2. UNCHANGED <<registryGrant, registryVerdict, askedBar, barredBar>>
          BY <2>1 DEF registryGrant, registryVerdict, askedBar, barredBar, Validating
      <2>3. Registry!Advance
          BY <2>1, <2>2 DEF Registry!Advance, askedBar, barredBar
      <2> QED BY <2>3 DEF Registry!RegistryNext
  <1>2. CASE UNCHANGED vars
      BY <1>2, StutterBar DEF vars, Validating
  <1>3. ASSUME NEW g \in Goroutine, GetClient(g) \/ GetTokenByHash(g)
        PROVE  Registry!RegistryNext \/ UNCHANGED Registry!registryVars
      BY <1>0, <1>3, ReturnsProceed, CopiesStutter, NotFoundRefuses
  <1> QED BY <1>0, <1>1, <1>2, <1>3, ReturnsProceed, CallsProceed, CopiesStutter, ValidateAsks,
             SaveIssues, RevokeRevokes, CheckAnswers, FailureAnswers DEF Next

\* OAuthService implements TokenRegistry: seen from outside, and whatever copies
\* and locks there are inside, a token is issued once, revoked for good by one
\* step, and validated as the registry allows at the moment of the answer.
THEOREM RegistryImplemented == Spec => ImplementsRegistry
  <1> QED BY InitRegistry, StepRegistry, Inductive, AcknowledgedCorrect, PTL
          DEF Spec, ImplementsRegistry, Registry!RegistrySpec

=============================================================================
