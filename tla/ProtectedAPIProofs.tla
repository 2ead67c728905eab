-------------------------- MODULE ProtectedAPIProofs --------------------------
(***************************************************************************)
(* Proofs about ProtectedAPI, for every set of requests, tokens, resources *)
(* and scopes, every required scope, TokenTTL and MaxTime.  The invariant  *)
(* is proved request by request: a step of another goroutine only lets the *)
(* registry grow (OthersKeep), a step of the request's own is one lemma    *)
(* each.                                                                   *)
(***************************************************************************)
EXTENDS ProtectedAPI, TLAPS

\* All that IInv says of one request.
Good(q) == ContextCoherent(q) /\ Sound(q) /\ Truthful(q)

\* IInv is the types and what it says of each request.
LEMMA IInvParts ==
    /\ IInv <=> TypeOK /\ asked[Other] = None /\ \A q \in Request : Good(q)
    /\ TypeOK' /\ asked'[Other] = None /\ (\A q \in Request : Good(q)') => IInv'
  BY DEF IInv, AdmissionSound, AuditTruthful, Good

\* Requests are callers of the registry, and Other is one that is no request.
LEMMA Callers ==
    /\ \A q \in Request : q \in Caller /\ q # Other
    /\ Other \in Caller
  BY ProtectedAssumption

\* None is no token, no grant and no status, and times are numbers.
LEMMA Apart ==
    /\ None \notin RawToken /\ None \notin Grant
    /\ None \notin {200, 401, 403}
    /\ TokenTTL \in Nat /\ Unissued \in RawToken
  BY ProtectedAssumption

\* Tokens keep their grants, revocations stay, time does not go back.
RegistryGrows ==
    /\ \A t \in RawToken : grant[t] # None => grant'[t] = grant[t]
    /\ revoked \subseteq revoked'
    /\ now' \in Nat /\ now <= now'

\* A step that leaves request q alone, and lets the registry grow, keeps what
\* IInv says of q.
LEMMA OthersKeep ==
    ASSUME TypeOK, NEW q \in Request, Good(q), RegistryGrows,
           stage'[q] = stage[q], target'[q] = target[q], presented'[q] = presented[q],
           context'[q] = context[q], audit'[q] = audit[q], status'[q] = status[q],
           arrival'[q] = arrival[q], asked'[q] = asked[q], barred'[q] = barred[q]
    PROVE  Good(q)'
  <1>1. presented[q] \in RawToken \cup {None}
      BY DEF TypeOK
  <1>2. presented[q] # None /\ grant[presented[q]] # None =>
          grant'[presented[q]] = grant[presented[q]]
      BY <1>1 DEF RegistryGrows
  <1>3. ContextCoherent(q)'
      BY <1>1, <1>2 DEF Good, ContextCoherent, RegistryGrows, TypeOK, ResourceMatches, HasScope
  <1>4. Sound(q)'
      BY <1>2 DEF Good, Sound, Admitted, HasScope
  <1>5. Truthful(q)'
      <2>1. audit[q] = <<"expired_token">> =>
              presented[q] # None /\ grant[presented[q]] # None /\ now' > grant[presented[q]].expiresAt
          <3> SUFFICES ASSUME audit[q] = <<"expired_token">>
                       PROVE  /\ presented[q] # None /\ grant[presented[q]] # None
                              /\ now' > grant[presented[q]].expiresAt
              OBVIOUS
          <3>1. /\ presented[q] # None /\ grant[presented[q]] # None
                /\ now > grant[presented[q]].expiresAt
              BY DEF Good, Truthful
          <3>2. grant[presented[q]].expiresAt \in Nat
              BY <1>1, <3>1 DEF TypeOK, Grant
          <3> QED BY <3>1, <3>2 DEF RegistryGrows, TypeOK
      <2>2. status[q] = 403 => presented[q] # None /\ grant[presented[q]] # None
          BY DEF Good, ContextCoherent
      <2> QED BY <1>1, <1>2, <2>1, <2>2 DEF Good, Truthful, HasScope, RegistryGrows
  <1> QED BY <1>3, <1>4, <1>5 DEF Good

-----------------------------------------------------------------------------
(* The types.                                                              *)

\* Concluding a call keeps the types of the registry's callers.
LEMMA ConcludeType ==
    ASSUME TypeOK, NEW c \in Caller, NEW v \in Verdicts, Conclude(c, v)
    PROVE  /\ asked' \in [Caller -> RawToken \cup {None}]
           /\ barred' \in [Caller -> BOOLEAN]
           /\ verdict' \in [Caller -> Verdicts]
           /\ asked'[c] = None
           /\ \A d \in Caller \ {c} : asked'[d] = asked[d] /\ barred'[d] = barred[d]
  BY DEF TypeOK, Conclude

\* The initial types.
LEMMA InitIInv == Init => IInv
  <1> SUFFICES ASSUME Init PROVE IInv
      OBVIOUS
  <1>1. TypeOK
      BY DEF Init, RegistryInit, TypeOK, Verdicts, Stages
  <1>2. asked[Other] = None
      BY Callers DEF Init, RegistryInit
  <1>3. ASSUME NEW q \in Request PROVE Good(q)
      <2>1. ContextCoherent(q)
          BY Callers, Apart DEF Init, RegistryInit, ContextCoherent
      <2>2. Sound(q) /\ Truthful(q)
          BY Apart DEF Init, Sound, Truthful, Admitted
      <2> QED BY <2>1, <2>2 DEF Good
  <1> QED BY <1>1, <1>2, <1>3, IInvParts

\* The OAuth endpoints and the clock touch no request and let the registry grow.
LEMMA RegistrySteps ==
    ASSUME IInv,
           \/ Tick
           \/ \E t \in RawToken, g \in Grants : IssueToken(t, g)
           \/ \E t \in RawToken : RevokeToken(t)
    PROVE  IInv'
  <1> TypeOK /\ asked[Other] = None /\ \A q \in Request : Good(q)
      BY IInvParts
  <1>0. None \in Verdicts
      BY DEF Verdicts
  <1>1. CASE Tick
      <2>1. UNCHANGED <<grant, revoked, asked, barred, verdict, requestVars>> /\ now' = now + 1
          BY <1>1 DEF Tick, Advance
      <2>2. TypeOK'
          BY <2>1 DEF TypeOK, requestVars
      <2>3. RegistryGrows
          BY <2>1 DEF TypeOK, RegistryGrows
      <2>4. \A q \in Request : Good(q)'
          BY <2>1, <2>3, OthersKeep DEF requestVars
      <2> QED BY <2>1, <2>2, <2>4, IInvParts
  <1>2. ASSUME NEW t \in RawToken, NEW g \in Grants, IssueToken(t, g) PROVE IInv'
      <2> DEFINE granted == [client |-> g.client, resource |-> g.resource,
                             scope |-> g.scope, expiresAt |-> now + TokenTTL]
      <2>1. /\ grant[t] = None /\ granted \in Grant
            /\ grant' = [grant EXCEPT ![t] = granted]
            /\ Conclude(Other, None) /\ UNCHANGED <<revoked, now, requestVars>>
          BY <1>2 DEF IssueToken, Issue
      <2>2. /\ asked' \in [Caller -> RawToken \cup {None}]
            /\ barred' \in [Caller -> BOOLEAN] /\ verdict' \in [Caller -> Verdicts]
            /\ asked'[Other] = None
            /\ \A q \in Request : asked'[q] = asked[q] /\ barred'[q] = barred[q]
          BY <1>0, <2>1, Callers, ConcludeType
      <2> HIDE DEF granted
      <2>3. TypeOK'
          BY <2>1, <2>2 DEF TypeOK, requestVars
      <2>4. RegistryGrows
          BY <2>1 DEF TypeOK, RegistryGrows
      <2>5. \A q \in Request : Good(q)'
          BY <2>1, <2>2, <2>4, OthersKeep DEF requestVars
      <2> QED BY <2>2, <2>3, <2>5, IInvParts
  <1>3. ASSUME NEW t \in RawToken, RevokeToken(t) PROVE IInv'
      <2>1. /\ revoked' = revoked \cup {t}
            /\ Conclude(Other, None) /\ UNCHANGED <<grant, now, requestVars>>
          BY <1>3 DEF RevokeToken, Revoke
      <2>2. /\ asked' \in [Caller -> RawToken \cup {None}]
            /\ barred' \in [Caller -> BOOLEAN] /\ verdict' \in [Caller -> Verdicts]
            /\ asked'[Other] = None
            /\ \A q \in Request : asked'[q] = asked[q] /\ barred'[q] = barred[q]
          BY <1>0, <2>1, Callers, ConcludeType
      <2>3. TypeOK'
          BY <2>1, <2>2 DEF TypeOK, requestVars
      <2>4. RegistryGrows
          BY <2>1 DEF TypeOK, RegistryGrows
      <2>5. \A q \in Request : Good(q)'
          BY <2>1, <2>2, <2>4, OthersKeep DEF requestVars
      <2> QED BY <2>2, <2>3, <2>5, IInvParts
  <1> QED BY <1>1, <1>2, <1>3

-----------------------------------------------------------------------------
(* The middleware chain.                                                   *)

\* A step of request q leaves the other requests alone.
Only(q) ==
    /\ \A p \in Request \ {q} :
          /\ stage'[p] = stage[p] /\ target'[p] = target[p] /\ presented'[p] = presented[p]
          /\ context'[p] = context[p] /\ audit'[p] = audit[p] /\ status'[p] = status[p]
          /\ arrival'[p] = arrival[p] /\ asked'[p] = asked[p] /\ barred'[p] = barred[p]
    /\ asked'[Other] = asked[Other]
    /\ UNCHANGED <<grant, revoked, now>>

\* So only the types and what IInv says of q itself are left to show.
LEMMA OwnStep ==
    ASSUME IInv, NEW q \in Request, Only(q), TypeOK', Good(q)'
    PROVE  IInv'
  <1>1. TypeOK /\ asked[Other] = None /\ \A p \in Request : Good(p)
      BY IInvParts
  <1>2. RegistryGrows
      BY <1>1 DEF Only, RegistryGrows, TypeOK
  <1>3. \A p \in Request \ {q} : Good(p)'
      BY <1>1, <1>2, OthersKeep DEF Only
  <1> QED BY <1>1, <1>3, IInvParts DEF Only

\* One more audit line on an empty record.
LEMMA FirstLine ==
    ASSUME TypeOK, NEW q \in Request, NEW s \in AuditStatus, audit[q] = <<>>,
           RecordAuthCheck(q, s)
    PROVE  /\ audit' \in [Request -> Seq(AuditStatus)]
           /\ audit'[q] = <<s>> /\ Len(audit'[q]) = 1 /\ audit'[q][1] = s
           /\ \A p \in Request \ {q} : audit'[p] = audit[p]
  <1>1. Append(<<>>, s) = <<s>> /\ <<s>> \in Seq(AuditStatus)
      OBVIOUS
  <1>2. audit' = [audit EXCEPT ![q] = <<s>>]
      BY <1>1 DEF RecordAuthCheck
  <1> QED BY <1>1, <1>2 DEF TypeOK

\* A request without a usable Authorization header.
LEMMA NoTokenKeeps ==
    ASSUME IInv, NEW q \in Request, NEW r \in AbsoluteURI,
           NEW why \in {"missing_token", "invalid_token"}, NoToken(q, r, why)
    PROVE  IInv'
  <1>1. TypeOK /\ Good(q)
      BY IInvParts
  <1>2. /\ stage[q] = "new" /\ audit[q] = <<>> /\ presented[q] = None
        /\ asked[q] = None /\ why \in AuditStatus
      BY <1>1 DEF NoToken, Arrive, Good, ContextCoherent, Truthful, AuditStatus
  <1>3. /\ stage' = [stage EXCEPT ![q] = "done"]
        /\ status' = [status EXCEPT ![q] = 401]
        /\ target' = [target EXCEPT ![q] = r]
        /\ arrival' = [arrival EXCEPT ![q] = [at |-> now, revoked |-> revoked]]
        /\ RecordAuthCheck(q, why)
        /\ UNCHANGED <<registryVars, presented, context>>
      BY DEF NoToken, Arrive, Abort, Goto
  <1>4. /\ audit' \in [Request -> Seq(AuditStatus)]
        /\ audit'[q] = <<why>> /\ Len(audit'[q]) = 1 /\ audit'[q][1] = why
        /\ \A p \in Request \ {q} : audit'[p] = audit[p]
      BY <1>1, <1>2, <1>3, FirstLine
  <1>5. TypeOK'
      <2>1. stage' \in [Request -> Stages] /\ target' \in [Request -> AbsoluteURI \cup {None}]
          BY <1>1, <1>3 DEF TypeOK, Stages
      <2>2. status' \in [Request -> {None, 200, 401, 403}]
          BY <1>1, <1>3 DEF TypeOK
      <2>3. arrival' \in [Request -> [at : Nat, revoked : SUBSET RawToken]]
          BY <1>1, <1>3 DEF TypeOK
      <2> QED BY <1>1, <1>3, <1>4, <2>1, <2>2, <2>3 DEF TypeOK, registryVars
  <1>6. Only(q)
      BY <1>1, <1>3, <1>4 DEF Only, TypeOK, registryVars
  <1>7. /\ stage'[q] = "done" /\ status'[q] = 401 /\ presented'[q] = None
        /\ arrival'[q].at = now' /\ arrival'[q].revoked = revoked' /\ asked'[q] = None
      BY <1>1, <1>2, <1>3 DEF TypeOK, registryVars
  <1>8. ContextCoherent(q)'
      BY <1>5, <1>7 DEF ContextCoherent, TypeOK
  <1>9. Sound(q)' /\ Truthful(q)'
      BY <1>4, <1>7 DEF Sound, Truthful, Admitted
  <1> QED BY <1>5, <1>6, <1>8, <1>9, OwnStep DEF Good

\* A request with a token, which ValidateToken is called for.
LEMMA PresentTokenKeeps ==
    ASSUME IInv, NEW q \in Request, NEW r \in AbsoluteURI, NEW t \in RawToken,
           PresentToken(q, r, t)
    PROVE  IInv'
  <1>1. TypeOK /\ Good(q) /\ q \in Caller /\ q # Other /\ Other \in Caller
      BY IInvParts, Callers
  <1>2. stage[q] = "new" /\ audit[q] = <<>> /\ status[q] = None
      BY <1>1 DEF PresentToken, Arrive, Good, ContextCoherent, Truthful
  <1>3. /\ stage' = [stage EXCEPT ![q] = "validate"]
        /\ target' = [target EXCEPT ![q] = r]
        /\ arrival' = [arrival EXCEPT ![q] = [at |-> now, revoked |-> revoked]]
        /\ presented' = [presented EXCEPT ![q] = t]
        /\ asked' = [asked EXCEPT ![q] = t]
        /\ barred' = [barred EXCEPT ![q] = t \in revoked]
        /\ verdict' = [verdict EXCEPT ![q] = None]
        /\ UNCHANGED <<grant, revoked, now, context, audit, status>>
      BY DEF PresentToken, Arrive, Goto, Ask
  <1>4. TypeOK'
      BY <1>1, <1>3 DEF TypeOK, Stages, Verdicts
  <1>5. Only(q)
      BY <1>1, <1>3, Callers DEF Only, TypeOK
  <1>6. /\ stage'[q] = "validate" /\ status'[q] = None /\ presented'[q] = t
        /\ arrival'[q].at = now' /\ arrival'[q].revoked = revoked' /\ asked'[q] = t
        /\ audit'[q] = <<>>
      BY <1>1, <1>2, <1>3 DEF TypeOK
  <1>7. barred'[q] = (presented'[q] \in arrival'[q].revoked)
      BY <1>1, <1>3, <1>6 DEF TypeOK
  <1>8. ContextCoherent(q)'
      BY <1>4, <1>6, <1>7, Apart DEF ContextCoherent, TypeOK
  <1>9. Sound(q)' /\ Truthful(q)'
      BY <1>6, Apart DEF Sound, Truthful, Admitted
  <1> QED BY <1>4, <1>5, <1>8, <1>9, OwnStep DEF Good

\* ValidateToken accepts: the token goes into the context, "ok" into the record.
LEMMA TokenAcceptedKeeps ==
    ASSUME IInv, NEW q \in Request, TokenAccepted(q)
    PROVE  IInv'
  <1>1. TypeOK /\ Good(q) /\ q \in Caller /\ q # Other /\ Other \in Caller
      BY IInvParts, Callers
  <1> DEFINE t == presented[q]
  <1>2. /\ stage[q] = "validate" /\ audit[q] = <<>> /\ status[q] = None
        /\ t # None /\ asked[q] = t /\ barred[q] = (t \in arrival[q].revoked)
        /\ arrival[q].at <= now /\ arrival[q].revoked \subseteq revoked
      BY <1>1 DEF TokenAccepted, Good, ContextCoherent, Truthful
  <1>3. ~barred[q] /\ grant[t] # None /\ now <= grant[t].expiresAt
      BY <1>2 DEF TokenAccepted, Accept, MayAccept
  <1>4. /\ t \in RawToken /\ grant[t] \in Grant
        /\ t \notin arrival[q].revoked /\ arrival[q].at <= grant[t].expiresAt
      <2>1. t \in RawToken /\ grant[t] \in Grant
          BY <1>1, <1>2, <1>3 DEF TypeOK
      <2>2. grant[t].expiresAt \in Nat /\ arrival[q].at \in Nat /\ now \in Nat
          BY <1>1, <2>1 DEF TypeOK, Grant
      <2>3. t \notin arrival[q].revoked
          BY <1>2, <1>3
      <2> QED BY <1>2, <1>3, <2>1, <2>2, <2>3
  <1>5. /\ stage' = [stage EXCEPT ![q] = "resource"]
        /\ context' = [context EXCEPT ![q] = grant[t]]
        /\ Conclude(q, "valid") /\ RecordAuthCheck(q, "ok")
        /\ UNCHANGED <<grant, revoked, now, target, presented, status, arrival>>
      BY <1>2 DEF TokenAccepted, Accept, Goto, TokenContext
  <1>6. /\ asked' \in [Caller -> RawToken \cup {None}]
        /\ barred' \in [Caller -> BOOLEAN] /\ verdict' \in [Caller -> Verdicts]
        /\ asked'[q] = None
        /\ \A d \in Caller \ {q} : asked'[d] = asked[d] /\ barred'[d] = barred[d]
      <2>1. "valid" \in Verdicts
          BY DEF Verdicts
      <2> QED BY <1>1, <1>5, <2>1, ConcludeType
  <1>7. /\ audit' \in [Request -> Seq(AuditStatus)]
        /\ audit'[q] = <<"ok">> /\ Len(audit'[q]) = 1 /\ audit'[q][1] = "ok"
        /\ \A p \in Request \ {q} : audit'[p] = audit[p]
      <2>1. "ok" \in AuditStatus
          BY DEF AuditStatus
      <2> QED BY <1>1, <1>2, <1>5, <2>1, FirstLine
  <1>8. TypeOK'
      BY <1>1, <1>4, <1>5, <1>6, <1>7 DEF TypeOK, Stages
  <1>9. Only(q)
      BY <1>1, <1>5, <1>6, <1>7, Callers DEF Only, TypeOK
  <1>10. /\ stage'[q] = "resource" /\ status'[q] = None /\ presented'[q] = t
         /\ context'[q] = grant[t] /\ arrival'[q] = arrival[q]
      BY <1>1, <1>2, <1>5 DEF TypeOK
  <1> HIDE DEF t
  <1>11. ContextCoherent(q)'
      BY <1>2, <1>3, <1>4, <1>5, <1>6, <1>10, Apart DEF ContextCoherent
  <1>12. Sound(q)'
      BY <1>10, Apart DEF Sound, Admitted
  <1>13. Truthful(q)'
      BY <1>7, <1>10, Apart DEF Truthful
  <1> QED BY <1>8, <1>9, <1>11, <1>12, <1>13, OwnStep DEF Good

\* ValidateToken refuses, for a reason that is true; the record has its tag.
LEMMA TokenRefusedKeeps ==
    ASSUME IInv, NEW q \in Request, NEW why \in Refusals, TokenRefused(q, why)
    PROVE  IInv'
  <1>1. TypeOK /\ Good(q) /\ q \in Caller /\ q # Other /\ Other \in Caller
      BY IInvParts, Callers
  <1> DEFINE t   == presented[q]
             tag == StatusTag(why)
  <1>2. /\ stage[q] = "validate" /\ audit[q] = <<>>
        /\ t # None /\ asked[q] = t
        /\ arrival[q].at <= now /\ arrival[q].revoked \subseteq revoked
      BY <1>1 DEF TokenRefused, Good, ContextCoherent, Truthful
  <1>3. /\ tag \in AuditStatus /\ tag # "ok"
        /\ tag = "revoked_token" => t \in revoked
        /\ tag = "expired_token" => grant[t] # None /\ now > grant[t].expiresAt
      BY <1>2 DEF TokenRefused, Refuse, MayRefuse, StatusTag, AuditStatus
  <1>4. /\ stage' = [stage EXCEPT ![q] = "done"] /\ status' = [status EXCEPT ![q] = 401]
        /\ Conclude(q, why) /\ RecordAuthCheck(q, tag)
        /\ UNCHANGED <<grant, revoked, now, target, presented, context, arrival>>
      BY DEF TokenRefused, Refuse, Abort, Goto
  <1>5. /\ asked' \in [Caller -> RawToken \cup {None}]
        /\ barred' \in [Caller -> BOOLEAN] /\ verdict' \in [Caller -> Verdicts]
        /\ asked'[q] = None
        /\ \A d \in Caller \ {q} : asked'[d] = asked[d] /\ barred'[d] = barred[d]
      <2>1. why \in Verdicts
          BY DEF Verdicts
      <2> QED BY <1>1, <1>4, <2>1, ConcludeType
  <1> HIDE DEF tag
  <1>6. /\ audit' \in [Request -> Seq(AuditStatus)]
        /\ audit'[q] = <<tag>> /\ Len(audit'[q]) = 1 /\ audit'[q][1] = tag
        /\ \A p \in Request \ {q} : audit'[p] = audit[p]
      BY <1>1, <1>2, <1>3, <1>4, FirstLine
  <1>7. TypeOK'
      <2>1. stage' \in [Request -> Stages]
          BY <1>1, <1>4 DEF TypeOK, Stages
      <2>2. status' \in [Request -> {None, 200, 401, 403}]
          BY <1>1, <1>4 DEF TypeOK
      <2> QED BY <1>1, <1>4, <1>5, <1>6, <2>1, <2>2 DEF TypeOK
  <1>8. Only(q)
      BY <1>1, <1>4, <1>5, <1>6, Callers DEF Only, TypeOK
  <1>9. /\ stage'[q] = "done" /\ status'[q] = 401 /\ presented'[q] = t
        /\ arrival'[q] = arrival[q]
      BY <1>1, <1>4 DEF TypeOK
  <1> HIDE DEF t
  <1>10. ContextCoherent(q)'
      BY <1>2, <1>4, <1>5, <1>9 DEF ContextCoherent
  <1>11. Sound(q)'
      BY <1>9 DEF Sound, Admitted
  <1>12. Truthful(q)'
      <2>1. audit'[q] = <<"revoked_token">> => tag = "revoked_token"
          BY <1>6
      <2>2. audit'[q] = <<"expired_token">> => tag = "expired_token"
          BY <1>6
      <2> QED BY <1>2, <1>3, <1>4, <1>6, <1>9, <2>1, <2>2 DEF Truthful
  <1> QED BY <1>7, <1>8, <1>10, <1>11, <1>12, OwnStep DEF Good

\* RequireResource, RequireScope and the handler move the request on or answer
\* it; they change nothing else.
LEMMA LaterStages ==
    ASSUME IInv, NEW q \in Request, RequireResource(q) \/ RequireScope(q) \/ Handle(q)
    PROVE  IInv'
  <1>1. TypeOK /\ Good(q) /\ q \in Caller /\ q # Other /\ Other \in Caller
      BY IInvParts, Callers
  <1> DEFINE t == presented[q]
  <1>2. stage[q] \in {"resource", "scope", "handler"}
      BY DEF RequireResource, RequireScope, Handle
  <1>3. /\ status[q] = None /\ t # None /\ grant[t] # None /\ context[q] = grant[t]
        /\ t \notin arrival[q].revoked /\ arrival[q].at <= grant[t].expiresAt
        /\ arrival[q].at <= now /\ arrival[q].revoked \subseteq revoked
        /\ asked[q] = None
        /\ Len(audit[q]) = 1 /\ audit[q][1] = "ok"
      <2>1. status[q] = None
          BY <1>1, <1>2 DEF Good, ContextCoherent
      <2>2. status[q] # 401
          BY <2>1, Apart
      <2> QED BY <1>1, <1>2, <2>1, <2>2 DEF Good, ContextCoherent, Truthful
  <1>4. UNCHANGED <<registryVars, target, presented, context, audit, arrival>>
      BY DEF RequireResource, RequireScope, Handle
  <1>5. \/ /\ stage[q] = "resource" /\ ResourceMatches(grant[t], target[q])
           /\ Goto(q, "scope") /\ UNCHANGED status
        \/ /\ stage[q] = "resource" /\ ~ResourceMatches(grant[t], target[q])
           /\ Abort(q, 403)
        \/ /\ stage[q] = "scope" /\ HasScope(grant[t])
           /\ Goto(q, "handler") /\ UNCHANGED status
        \/ stage[q] = "scope" /\ ~HasScope(grant[t]) /\ Abort(q, 403)
        \/ stage[q] = "handler" /\ Abort(q, 200)
      BY <1>3 DEF RequireResource, RequireScope, Handle
  <1>6. /\ stage[q] \in {"scope", "handler"} => ResourceMatches(grant[t], target[q])
        /\ stage[q] = "handler" => HasScope(grant[t])
      BY <1>1, <1>3 DEF Good, ContextCoherent
  <1>7. TypeOK'
      <2>1. /\ stage \in [Request -> Stages]
            /\ status \in [Request -> {None, 200, 401, 403}]
          BY <1>1 DEF TypeOK
      <2>2. stage' \in [Request -> Stages]
          <3>1. \E s \in Stages : stage' = [stage EXCEPT ![q] = s]
              BY <1>5 DEF Goto, Abort, Stages
          <3> QED BY <2>1, <3>1
      <2>3. status' \in [Request -> {None, 200, 401, 403}]
          <3>1. \/ status' = status
                \/ \E c \in {200, 403} : status' = [status EXCEPT ![q] = c]
              BY <1>5 DEF Abort
          <3> QED BY <2>1, <3>1
      <2> QED BY <1>1, <1>4, <2>2, <2>3 DEF TypeOK, registryVars
  <1>8. Only(q)
      BY <1>1, <1>4, <1>5 DEF Only, TypeOK, registryVars, Goto, Abort
  <1>9. /\ presented'[q] = t /\ grant'[t] = grant[t] /\ context'[q] = context[q]
        /\ target'[q] = target[q] /\ arrival'[q] = arrival[q] /\ asked'[q] = asked[q]
        /\ audit'[q] = audit[q] /\ UNCHANGED <<grant, revoked, now>>
      BY <1>4 DEF registryVars
  <1>10. \/ /\ stage'[q] = "scope" /\ status'[q] = None
            /\ ResourceMatches(grant[t], target[q])
         \/ /\ stage'[q] = "handler" /\ status'[q] = None
            /\ ResourceMatches(grant[t], target[q]) /\ HasScope(grant[t])
         \/ /\ stage'[q] = "done" /\ status'[q] = 403
            /\ ~ResourceMatches(grant[t], target[q]) \/ ~HasScope(grant[t])
         \/ /\ stage'[q] = "done" /\ status'[q] = 200
            /\ ResourceMatches(grant[t], target[q]) /\ HasScope(grant[t])
      BY <1>1, <1>3, <1>5, <1>6 DEF Goto, Abort, TypeOK
  <1> HIDE DEF t
  <1>11. ContextCoherent(q)'
      BY <1>3, <1>9, <1>10, Apart DEF ContextCoherent, ResourceMatches, HasScope
  <1>12. Sound(q)'
      BY <1>3, <1>9, <1>10, Apart DEF Sound, Admitted, ResourceMatches, HasScope
  <1>13. Truthful(q)'
      <2>1. audit[q] # <<"revoked_token">> /\ audit[q] # <<"expired_token">>
          BY <1>3
      <2>2. status'[q] # 401
          BY <1>10, Apart
      <2>3. status'[q] = 403 =>
              grant[t].resource \notin {None, target[q]} \/ ~HasScope(grant[t])
          BY <1>10, Apart DEF ResourceMatches
      <2>4. stage'[q] \notin {"new", "validate"}
          BY <1>10
      <2> QED BY <1>3, <1>9, <2>1, <2>2, <2>3, <2>4 DEF Truthful, HasScope
  <1> QED BY <1>7, <1>8, <1>11, <1>12, <1>13, OwnStep DEF Good

-----------------------------------------------------------------------------
\* IInv holds in every reachable state.
LEMMA Inductive == Spec => []IInv
  <1>1. ASSUME IInv, UNCHANGED vars PROVE IInv'
      BY <1>1 DEF vars, IInv, TypeOK, AdmissionSound, AuditTruthful, ContextCoherent, Sound,
         Truthful, Admitted, ResourceMatches, HasScope
  <1>2. IInv /\ [Next]_vars => IInv'
      BY <1>1, RegistrySteps, NoTokenKeeps, PresentTokenKeeps, TokenAcceptedKeeps,
         TokenRefusedKeeps, LaterStages DEF Next
  <1> QED BY InitIInv, <1>2, PTL DEF Spec

\* The registry and the requests hold what their Go counterparts can hold.
THEOREM TypeCorrect == Spec => []TypeOK
  <1>1. IInv => TypeOK
      BY DEF IInv
  <1> QED BY Inductive, <1>1, PTL

\* The handler behind the chain runs only for a token that was issued, that was
\* alive and unrevoked when the request came, and that is for this resource.
THEOREM AdmissionCorrect == Spec => []AdmissionSound
  <1>1. IInv => AdmissionSound
      BY DEF IInv
  <1> QED BY Inductive, <1>1, PTL

\* The audit record tells the truth about what TokenAuthMiddleware decided.
THEOREM AuditCorrect == Spec => []AuditTruthful
  <1>1. IInv => AuditTruthful
      BY DEF IInv
  <1> QED BY Inductive, <1>1, PTL

=============================================================================
