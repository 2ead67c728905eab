----------------------------- MODULE ProtectedAPI -----------------------------
(***************************************************************************)
(* The middleware in front of the certificate API: TokenAuthMiddleware,    *)
(* RequireResource and RequireScope of pkg/oauth2/middleware.go, the way   *)
(* sample-server/main.go chains them, and the audit record that            *)
(* Telemetry.RecordAuthCheck keeps.                                        *)
(*                                                                         *)
(* Every request runs on a goroutine of its own.  ValidateToken is a call  *)
(* of TokenRegistry, which OAuthService implements; tokens are issued and  *)
(* revoked, and time passes, while requests are between two middlewares.   *)
(***************************************************************************)
EXTENDS TokenRegistry, Sequences

CONSTANTS
    Request,        \* the requests
    Other,          \* a goroutine that serves the OAuth endpoints
    Scope,          \* scope names
    RequiredScope,  \* the argument of RequireScope, None if it is not chained
    Unissued,       \* a token string the server never issues
    Grants,         \* what the server is asked to issue, without the expiry
    TokenTTL,       \* Service.tokenTTL
    MaxTime         \* bound on the clock

VARIABLES
    stage,          \* how far each request has come
    target,         \* what resourceExtractor makes of its URL
    presented,      \* the token in its Authorization header
    context,        \* the token under TokenContextKey in its gin.Context
    audit,          \* the statuses RecordAuthCheck was called with
    status,         \* the HTTP status of the answer, None before
    arrival         \* history: when it came, and what was revoked by then

requestVars == <<stage, target, presented, context, audit, status, arrival>>
vars == <<grant, revoked, now, asked, barred, verdict,
          stage, target, presented, context, audit, status, arrival>>

Stages == {"new", "validate", "resource", "scope", "handler", "done"}

AuditStatus == {"ok", "missing_token", "invalid_token", "expired_token", "revoked_token"}

ASSUME ProtectedAssumption ==
    /\ Caller = Request \cup {Other} /\ Other \notin Request
    /\ ScopeString = {None} \cup SUBSET Scope
    /\ RequiredScope \in Scope \cup {None}
    /\ Unissued \in RawToken
    /\ Grants \subseteq [client : ClientID, resource : AbsoluteURI \cup {None},
                         scope : ScopeString]
    /\ TokenTTL \in Nat /\ MaxTime \in Nat
    /\ None \notin RawToken /\ None \notin AbsoluteURI /\ None \notin Grant
    /\ None \notin Nat

Init ==
    /\ RegistryInit
    /\ stage     = [q \in Request |-> "new"]
    /\ target    = [q \in Request |-> None]
    /\ presented = [q \in Request |-> None]
    /\ context   = [q \in Request |-> None]
    /\ audit     = [q \in Request |-> <<>>]
    /\ status    = [q \in Request |-> None]
    /\ arrival   = [q \in Request |-> [at |-> 0, revoked |-> {}]]

-----------------------------------------------------------------------------
(* The OAuth endpoints and the clock.                                      *)

IssueToken(t, g) ==
    /\ t # Unissued
    /\ Issue(Other, t, [client |-> g.client, resource |-> g.resource,
                        scope |-> g.scope, expiresAt |-> now + TokenTTL])
    /\ UNCHANGED requestVars

RevokeToken(t) ==
    /\ grant[t] # None
    /\ Revoke(Other, t)
    /\ UNCHANGED requestVars

Tick ==
    /\ now < MaxTime
    /\ Advance
    /\ UNCHANGED requestVars

-----------------------------------------------------------------------------
(* The middleware chain.                                                   *)

\* Telemetry.RecordAuthCheck: the counter and the audit line, both by status.
RecordAuthCheck(q, s) == audit' = [audit EXCEPT ![q] = Append(@, s)]

Goto(q, s) == stage' = [stage EXCEPT ![q] = s]

Abort(q, code) ==
    /\ Goto(q, "done")
    /\ status' = [status EXCEPT ![q] = code]

Arrive(q, r) ==
    /\ stage[q] = "new"
    /\ target'  = [target EXCEPT ![q] = r]
    /\ arrival' = [arrival EXCEPT ![q] = [at |-> now, revoked |-> revoked]]

\* No Authorization header, or one that is not "Bearer <token>".
NoToken(q, r, why) ==
    /\ Arrive(q, r)
    /\ RecordAuthCheck(q, why)
    /\ Abort(q, 401)
    /\ UNCHANGED <<registryVars, presented, context>>

PresentToken(q, r, t) ==
    /\ t = Unissued \/ grant[t] # None
    /\ Arrive(q, r)
    /\ Ask(q, t)
    /\ presented' = [presented EXCEPT ![q] = t]
    /\ Goto(q, "validate")
    /\ UNCHANGED <<context, audit, status>>

\* Mutant: the raw token is put in the context, as in the Authorization header.
TokenContextRaw(q) == asked[q]

\* What ValidateToken returned, for GetTokenFromContext.
TokenContext(q) == grant[asked[q]]

TokenAccepted(q) ==
    /\ stage[q] = "validate"
    /\ Accept(q)
    /\ context' = [context EXCEPT ![q] = TokenContext(q)]
    /\ RecordAuthCheck(q, "ok")
    /\ Goto(q, "resource")
    /\ UNCHANGED <<target, presented, status, arrival>>

\* Mutant: the two reasons are mixed up.
StatusTagMixed(why) ==
    CASE why = "token_expired" -> "revoked_token"
      [] why = "token_revoked" -> "expired_token"
      [] OTHER                 -> "invalid_token"

\* Any other error of ValidateToken is an invalid token, a failing store too.
StatusTag(why) ==
    CASE why = "token_expired" -> "expired_token"
      [] why = "token_revoked" -> "revoked_token"
      [] OTHER                 -> "invalid_token"

TokenRefused(q, why) ==
    /\ stage[q] = "validate"
    /\ Refuse(q, why)
    /\ RecordAuthCheck(q, StatusTag(why))
    /\ Abort(q, 401)
    /\ UNCHANGED <<target, presented, context, arrival>>

ResourceMatches(t, r) == t.resource # None => t.resource = r

RequireResource(q) ==
    /\ stage[q] = "resource"
    /\ \/ ResourceMatches(context[q], target[q]) /\ Goto(q, "scope") /\ UNCHANGED status
       \/ ~ResourceMatches(context[q], target[q]) /\ Abort(q, 403)
    /\ UNCHANGED <<registryVars, target, presented, context, audit, arrival>>

\* An empty scope string passes; one of blanks has no scope in it.
HasScope(t) == RequiredScope # None /\ t.scope # None => RequiredScope \in t.scope

RequireScope(q) ==
    /\ stage[q] = "scope"
    /\ \/ HasScope(context[q]) /\ Goto(q, "handler") /\ UNCHANGED status
       \/ ~HasScope(context[q]) /\ Abort(q, 403)
    /\ UNCHANGED <<registryVars, target, presented, context, audit, arrival>>

\* The handler the chain protects runs and answers.
Handle(q) ==
    /\ stage[q] = "handler"
    /\ Abort(q, 200)
    /\ UNCHANGED <<registryVars, target, presented, context, audit, arrival>>

Next ==
    \/ Tick
    \/ \E t \in RawToken, g \in Grants : IssueToken(t, g)
    \/ \E t \in RawToken : RevokeToken(t)
    \/ \E q \in Request :
         \/ \E r \in AbsoluteURI, why \in {"missing_token", "invalid_token"} : NoToken(q, r, why)
         \/ \E r \in AbsoluteURI, t \in RawToken : PresentToken(q, r, t)
         \/ TokenAccepted(q)
         \/ \E why \in Refusals : TokenRefused(q, why)
         \/ RequireResource(q)
         \/ RequireScope(q)
         \/ Handle(q)

Spec == Init /\ [][Next]_vars

-----------------------------------------------------------------------------
(* Properties.                                                             *)

\* The registry and the requests hold what their Go counterparts can hold: the
\* context has nil or a token, never a token string.
TypeOK ==
    /\ grant \in [RawToken -> Grant \cup {None}]
    /\ revoked \subseteq RawToken
    /\ now \in Nat
    /\ asked \in [Caller -> RawToken \cup {None}]
    /\ barred \in [Caller -> BOOLEAN]
    /\ verdict \in [Caller -> Verdicts]
    /\ stage \in [Request -> Stages]
    /\ target \in [Request -> AbsoluteURI \cup {None}]
    /\ presented \in [Request -> RawToken \cup {None}]
    /\ context \in [Request -> Grant \cup {None}]
    /\ audit \in [Request -> Seq(AuditStatus)]
    /\ status \in [Request -> {None, 200, 401, 403}]
    /\ arrival \in [Request -> [at : Nat, revoked : SUBSET RawToken]]

Admitted(q) == stage[q] = "handler" \/ status[q] = 200

Sound(q) ==
    Admitted(q) =>
        LET t == presented[q] IN
        /\ t # None /\ grant[t] # None
        /\ t \notin arrival[q].revoked
        /\ arrival[q].at <= grant[t].expiresAt
        /\ grant[t].resource \in {None, target[q]}
        /\ HasScope(grant[t])

\* The handler runs only for a request whose token is one the server issued,
\* was alive and unrevoked when the request came, whatever was revoked since,
\* and is bound to the resource of the request or to none.
AdmissionSound == \A q \in Request : Sound(q)

Truthful(q) ==
    LET t == presented[q] IN
    /\ stage[q] \in {"new", "validate"} => audit[q] = <<>>
    /\ stage[q] \notin {"new", "validate"} =>
          Len(audit[q]) = 1 /\ (audit[q][1] = "ok" <=> status[q] # 401)
    /\ audit[q] = <<"revoked_token">> => t \in revoked
    /\ audit[q] = <<"expired_token">> =>
          t # None /\ grant[t] # None /\ now > grant[t].expiresAt
    /\ status[q] = 403 =>
          grant[t].resource \notin {None, target[q]} \/ ~HasScope(grant[t])

\* The audit record tells the truth about what TokenAuthMiddleware decided:
\* each request that has passed it, or was stopped by it, has one line, "ok" if
\* it passed; one refused as revoked or expired really was; and one that passed
\* and is answered 403 had a token for something else.
AuditTruthful == \A q \in Request : Truthful(q)

-----------------------------------------------------------------------------
(* What makes them inductive.                                              *)

\* A request past TokenAuthMiddleware has its token in the context, so that the
\* "Token context missing" answers of the other two are never given in this
\* chain; the context is what the registry has; and a token that was revoked
\* before the request came never gets there.
ContextCoherent(q) ==
    /\ stage[q] # "done" => status[q] = None
    /\ stage[q] = "new" => presented[q] = None
    /\ status[q] \in {200, 403} => presented[q] # None /\ grant[presented[q]] # None
    /\ arrival[q].at <= now
    /\ arrival[q].revoked \subseteq revoked
    /\ stage[q] = "validate" =>
          /\ presented[q] # None /\ asked[q] = presented[q]
          /\ barred[q] = (presented[q] \in arrival[q].revoked)
    /\ stage[q] # "validate" => asked[q] = None
    /\ stage[q] \in {"resource", "scope", "handler"} =>
          /\ presented[q] # None /\ grant[presented[q]] # None
          /\ context[q] = grant[presented[q]]
          /\ presented[q] \notin arrival[q].revoked
          /\ arrival[q].at <= context[q].expiresAt
    /\ stage[q] \in {"scope", "handler"} => ResourceMatches(context[q], target[q])
    /\ stage[q] = "handler" => HasScope(context[q])

\* The inductive invariant.
IInv ==
    /\ TypeOK
    /\ asked[Other] = None
    /\ \A q \in Request : ContextCoherent(q)
    /\ AdmissionSound
    /\ AuditTruthful

-----------------------------------------------------------------------------
(* What the comments and the design say and the code does not keep.        *)

\* docs/oauth2_design.md, 4.3: every authorization decision is logged with an
\* audit line, a refusal as "authorization denied".
RefusalsAudited ==
    \A q \in Request : status[q] \in {401, 403} =>
        \E i \in DOMAIN audit[q] : audit[q][i] # "ok"

\* "RequireScope verifies that the token contains the required scope."
ScopeVerified ==
    \A q \in Request : Admitted(q) /\ RequiredScope # None =>
        context[q].scope # None /\ RequiredScope \in context[q].scope

\* docs/oauth2_design.md, 1: challenges can be placed and deleted only with the
\* Resource token of the certificate concerned.
OnlyItsResourceToken ==
    \A q \in Request : Admitted(q) => context[q].resource = target[q]

=============================================================================
