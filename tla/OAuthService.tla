----------------------------- MODULE OAuthService -----------------------------
(***************************************************************************)
(* The authorization server of pkg/oauth2: Service (service.go) over       *)
(* MemoryStore (store_memory.go), called by the gin handlers (handlers.go) *)
(* from concurrent request goroutines.                                     *)
(*                                                                         *)
(* One action is one stretch of code between two accesses to shared state: *)
(* each critical section of MemoryStore.mu, each reading of the clock.     *)
(* What a goroutine holds between two of them (the request, the defensive  *)
(* copy of a client or a token) is in its locals, so that a copy can be    *)
(* stale when it is used.                                                  *)
(***************************************************************************)
EXTENDS Integers

CONSTANTS
    Goroutine,      \* request goroutines of the HTTP server
    ClientID,       \* the client ids crypto/rand can draw
    Secret,         \* the client secrets crypto/rand can draw
    RawToken,       \* the opaque tokens, as a caller writes them
    Bogus,          \* a token string the server never issues
    URI,            \* resource strings a request can carry
    AbsoluteURI,    \* those ValidateAbsoluteURI accepts
    Scope,          \* scope names
    None,           \* "", nil, or an absent map entry
    TokenTTL,       \* Service.tokenTTL
    Registrations,  \* bodies POST /oauth/clients receives
    TokenRequests,  \* requests POST /oauth/token receives
    MaxTime         \* bound on the clock

VARIABLES
    clients,        \* MemoryStore.clients
    tokens,         \* MemoryStore.tokens, by token hash
    clock,          \* what Service.nowFunc reads
    pc,             \* where each goroutine is
    req,            \* the TokenRequest of an IssueToken call
    client,         \* the copy GetClient returned
    raw,            \* the raw token of the call
    token,          \* the token built by IssueToken or copied by GetTokenByHash
    reply,          \* the outcome of the goroutine's last call
    credentials,    \* history: the <<id, secret>> registrations returned
    handedOut,      \* history: the tokens IssueToken returned
    revoked,        \* history: the tokens RevokeToken returned nil for
    revokedBefore   \* history: revoked, when the goroutine's call began

storeVars   == <<clients, tokens>>
localVars   == <<req, client, raw, token>>
historyVars == <<credentials, handedOut, revoked>>
vars == <<clients, tokens, clock, pc, req, client, raw, token, reply,
          credentials, handedOut, revoked, revokedBefore>>

-----------------------------------------------------------------------------
(* Data. A scope string is None when empty; a set of names otherwise, {}   *)
(* being a string of blanks.                                               *)

ScopeString == {None} \cup SUBSET Scope

RegisterClientRequest ==
    [named : BOOLEAN, allowedResources : SUBSET URI, allowedScopes : SUBSET Scope]

TokenRequest ==
    [grantType : {"client_credentials", "other"},
     clientID  : ClientID, clientSecret : Secret,
     resource  : URI \cup {None}, scope : ScopeString]

\* bcrypt and SHA-256: only equality of what was hashed can be told from a hash.
Bcrypt(secret)       == [bcrypt |-> secret]
ComputeTokenHash(rw) == [sha256 |-> rw]

TokenHash == {ComputeTokenHash(rw) : rw \in RawToken}

Client ==
    [secretHash : {Bcrypt(s) : s \in Secret},
     allowedResources : SUBSET AbsoluteURI, allowedScopes : SUBSET Scope]

Token ==
    [client : ClientID, resource : AbsoluteURI \cup {None}, scope : ScopeString,
     expiresAt : Nat, revokedAt : Nat \cup {None}]

Steps == {"idle", "getClient", "mint", "save", "lookup", "check", "revoke"}

Replies == {None, "created", "issued", "valid", "revoked",
            "invalid_request", "invalid_grant", "invalid_client",
            "invalid_target", "invalid_scope",
            "token_not_found", "token_revoked", "token_expired", "server_error"}

ASSUME ConstantsAssumption ==
    /\ Bogus \in RawToken
    /\ AbsoluteURI \subseteq URI
    /\ TokenTTL \in Nat \ {0}
    /\ MaxTime \in Nat
    /\ Registrations \subseteq RegisterClientRequest
    /\ TokenRequests \subseteq TokenRequest

ASSUME NoneAssumption ==
    /\ None \notin URI
    /\ None \notin Nat
    /\ None \notin RawToken
    /\ None \notin Client
    /\ None \notin Token
    /\ None \notin TokenRequest

-----------------------------------------------------------------------------
(* The checks of service.go, as what they answer.                          *)

\* strings.Fields of a scope string.
Fields(scope) == IF scope = None THEN {} ELSE scope

\* IssueToken before it touches the store.
RequestStatus(r) ==
    IF r.grantType # "client_credentials" THEN "invalid_grant"
    ELSE IF r.resource \notin AbsoluteURI \cup {None} THEN "invalid_target"
    ELSE "ok"

\* Mutant: a request without a resource passes a client that has a list.
ResourceAllowedWhenAbsent(r, c) ==
    c.allowedResources # {} /\ r.resource # None => r.resource \in c.allowedResources

ResourceAllowed(r, c) == c.allowedResources # {} => r.resource \in c.allowedResources
ScopeAllowed(r, c)    == c.allowedScopes # {} => Fields(r.scope) \subseteq c.allowedScopes

\* IssueToken on the copy of the client: bcrypt, then resource, then scope.
AuthorizationStatus(r, c) ==
    IF c.secretHash # Bcrypt(r.clientSecret) THEN "invalid_client"
    ELSE IF ~ResourceAllowed(r, c) THEN "invalid_target"
    ELSE IF ~ScopeAllowed(r, c) THEN "invalid_scope"
    ELSE "ok"

IsRevoked(t) == t.revokedAt # None
\* Mutant: one tick late.
IsExpiredLate(t, n) == n > t.expiresAt + 1

IsExpired(t, n) == n > t.expiresAt

\* ValidateToken on the copy of the token, at time n.
TokenStatus(t, n) ==
    IF IsRevoked(t) THEN "token_revoked"
    ELSE IF IsExpired(t, n) THEN "token_expired"
    ELSE "valid"

\* Mutant: a generator that repeats itself.
FreshTokenRepeats(rw) == rw # Bogus

\* crypto/rand draws 256 bits: no two calls draw the same token, nor Bogus.
FreshToken(rw) ==
    /\ rw # Bogus
    /\ tokens[ComputeTokenHash(rw)] = None
    /\ \A g \in Goroutine : pc[g] = "save" => raw[g] # rw

-----------------------------------------------------------------------------
Init ==
    /\ clients = [id \in ClientID |-> None]
    /\ tokens  = [h \in TokenHash |-> None]
    /\ clock   = 0
    /\ pc      = [g \in Goroutine |-> "idle"]
    /\ req     = [g \in Goroutine |-> None]
    /\ client  = [g \in Goroutine |-> None]
    /\ raw     = [g \in Goroutine |-> None]
    /\ token   = [g \in Goroutine |-> None]
    /\ reply   = [g \in Goroutine |-> None]
    /\ credentials = {}
    /\ handedOut   = {}
    /\ revoked     = {}
    /\ revokedBefore = [g \in Goroutine |-> {}]

Goto(g, step) == pc' = [pc EXCEPT ![g] = step]

\* The call ends and its locals are garbage.
Return(g, outcome) ==
    /\ Goto(g, "idle")
    /\ reply'  = [reply EXCEPT ![g] = outcome]
    /\ req'    = [req EXCEPT ![g] = None]
    /\ client' = [client EXCEPT ![g] = None]
    /\ raw'    = [raw EXCEPT ![g] = None]
    /\ token'  = [token EXCEPT ![g] = None]
    /\ revokedBefore' = [revokedBefore EXCEPT ![g] = {}]

\* A call begins at step.
Invoke(g, step) ==
    /\ pc[g] = "idle"
    /\ Goto(g, step)
    /\ reply' = [reply EXCEPT ![g] = None]
    /\ revokedBefore' = [revokedBefore EXCEPT ![g] = revoked]

Tick ==
    /\ clock < MaxTime
    /\ clock' = clock + 1
    /\ UNCHANGED <<storeVars, pc, localVars, reply, historyVars, revokedBefore>>

-----------------------------------------------------------------------------
(* POST /oauth/clients. Everything before CreateClient is local to the     *)
(* goroutine, so the call is one step: the critical section of             *)
(* CreateClient, or none when the request is refused first.                *)

\* Mutant: the allowed resources are not validated.
RegistrationAcceptedUnchecked(r) == r.named

RegistrationAccepted(r) == r.named /\ r.allowedResources \subseteq AbsoluteURI

\* Mutant: CreateClient overwrites a client that is already there.
RegisterClientOverwrites(g, r, id, secret) ==
    /\ pc[g] = "idle"
    /\ RegistrationAccepted(r)
    /\ clients' = [clients EXCEPT ![id] =
                     [secretHash |-> Bcrypt(secret),
                      allowedResources |-> r.allowedResources,
                      allowedScopes |-> r.allowedScopes]]
    /\ credentials' = credentials \cup {<<id, secret>>}
    /\ Return(g, "created")
    /\ UNCHANGED <<tokens, clock, handedOut, revoked>>

RegisterClient(g, r, id, secret) ==
    /\ pc[g] = "idle"
    /\ RegistrationAccepted(r)
    /\ clients[id] = None
    /\ clients' = [clients EXCEPT ![id] =
                     [secretHash |-> Bcrypt(secret),
                      allowedResources |-> r.allowedResources,
                      allowedScopes |-> r.allowedScopes]]
    /\ credentials' = credentials \cup {<<id, secret>>}
    /\ Return(g, "created")
    /\ UNCHANGED <<tokens, clock, handedOut, revoked>>

\* A blank name, a URI that is not absolute, a taken id; or crypto/rand,
\* bcrypt or the store failing, which may happen to any request.
RefuseRegistration(g) ==
    /\ pc[g] = "idle"
    /\ Return(g, "invalid_request")
    /\ UNCHANGED <<storeVars, clock, historyVars>>

-----------------------------------------------------------------------------
(* POST /oauth/token.                                                      *)

AcceptTokenRequest(g, r) ==
    /\ RequestStatus(r) = "ok"
    /\ Invoke(g, "getClient")
    /\ req' = [req EXCEPT ![g] = r]
    /\ UNCHANGED <<storeVars, clock, client, raw, token, historyVars>>

RefuseTokenRequest(g, r) ==
    /\ pc[g] = "idle"
    /\ RequestStatus(r) # "ok"
    /\ Return(g, RequestStatus(r))
    /\ UNCHANGED <<storeVars, clock, historyVars>>

GetClient(g) ==
    /\ pc[g] = "getClient"
    /\ \/ /\ clients[req[g].clientID] # None
          /\ client' = [client EXCEPT ![g] = clients[req[g].clientID]]
          /\ Goto(g, "mint")
          /\ UNCHANGED <<req, raw, token, reply, revokedBefore>>
       \/ /\ clients[req[g].clientID] = None
          /\ Return(g, "invalid_client")
    /\ UNCHANGED <<storeVars, clock, historyVars>>

\* Authorize on the copy, draw the token, read the clock.
Mint(g, rw) ==
    /\ pc[g] = "mint"
    /\ AuthorizationStatus(req[g], client[g]) = "ok"
    /\ FreshToken(rw)
    /\ raw' = [raw EXCEPT ![g] = rw]
    /\ token' = [token EXCEPT ![g] =
                   [client |-> req[g].clientID, resource |-> req[g].resource,
                    scope |-> req[g].scope, expiresAt |-> clock + TokenTTL,
                    revokedAt |-> None]]
    /\ Goto(g, "save")
    /\ UNCHANGED <<storeVars, clock, req, client, reply, historyVars, revokedBefore>>

RefuseToMint(g) ==
    /\ pc[g] = "mint"
    /\ \/ /\ AuthorizationStatus(req[g], client[g]) # "ok"
          /\ Return(g, AuthorizationStatus(req[g], client[g]))
       \/ /\ AuthorizationStatus(req[g], client[g]) = "ok"   \* crypto/rand fails
          /\ Return(g, "invalid_request")
    /\ UNCHANGED <<storeVars, clock, historyVars>>

\* SaveToken writes the entry whether or not the hash is already there.
SaveToken(g) ==
    /\ pc[g] = "save"
    /\ tokens' = [tokens EXCEPT ![ComputeTokenHash(raw[g])] = token[g]]
    /\ handedOut' = handedOut \cup {raw[g]}
    /\ Return(g, "issued")
    /\ UNCHANGED <<clients, clock, credentials, revoked>>

-----------------------------------------------------------------------------
(* ValidateToken, for POST /oauth/introspect and TokenAuthMiddleware.      *)
(* Callers present tokens they were given, or one the server never issued. *)

BeginValidate(g, rw) ==
    /\ rw \in handedOut \cup {Bogus}
    /\ Invoke(g, "lookup")
    /\ raw' = [raw EXCEPT ![g] = rw]
    /\ UNCHANGED <<storeVars, clock, req, client, token, historyVars>>

GetTokenByHash(g) ==
    /\ pc[g] = "lookup"
    /\ LET h == ComputeTokenHash(raw[g]) IN
       \/ /\ tokens[h] # None
          /\ token' = [token EXCEPT ![g] = tokens[h]]
          /\ Goto(g, "check")
          /\ UNCHANGED <<req, client, raw, reply, revokedBefore>>
       \/ /\ tokens[h] = None
          /\ Return(g, "token_not_found")
    /\ UNCHANGED <<storeVars, clock, historyVars>>

CheckToken(g) ==
    /\ pc[g] = "check"
    /\ Return(g, TokenStatus(token[g], clock))
    /\ UNCHANGED <<storeVars, clock, historyVars>>

-----------------------------------------------------------------------------
(* POST /oauth/revoke. An unknown token is answered like a revoked one.    *)

BeginRevoke(g, rw) ==
    /\ rw \in handedOut \cup {Bogus}
    /\ Invoke(g, "revoke")
    /\ raw' = [raw EXCEPT ![g] = rw]
    /\ UNCHANGED <<storeVars, clock, req, client, token, historyVars>>

\* Mutant: the copy is marked, the entry is not.
RevokeTokenOnCopy(g) ==
    /\ pc[g] = "revoke"
    /\ revoked' = revoked \cup {raw[g]}
    /\ Return(g, "revoked")
    /\ UNCHANGED <<storeVars, clock, credentials, handedOut>>

\* Mutant: the entry is deleted.
RevokeTokenDeletes(g) ==
    /\ pc[g] = "revoke"
    /\ tokens' = [tokens EXCEPT ![ComputeTokenHash(raw[g])] = None]
    /\ revoked' = revoked \cup {raw[g]}
    /\ Return(g, "revoked")
    /\ UNCHANGED <<clients, clock, credentials, handedOut>>

\* Mutant: all tokens of the client are marked.
RevokeTokenOfClient(g) ==
    /\ pc[g] = "revoke"
    /\ LET t == tokens[ComputeTokenHash(raw[g])] IN
       tokens' = [h \in TokenHash |->
                    IF t # None /\ tokens[h] # None /\ tokens[h].client = t.client
                    THEN [tokens[h] EXCEPT !.revokedAt = clock] ELSE tokens[h]]
    /\ revoked' = revoked \cup {raw[g]}
    /\ Return(g, "revoked")
    /\ UNCHANGED <<clients, clock, credentials, handedOut>>

RevokeToken(g) ==
    /\ pc[g] = "revoke"
    /\ LET h == ComputeTokenHash(raw[g]) IN
       \/ /\ tokens[h] # None
          /\ tokens' = [tokens EXCEPT ![h] = [@ EXCEPT !.revokedAt = clock]]
       \/ /\ tokens[h] = None
          /\ UNCHANGED tokens
    /\ revoked' = revoked \cup {raw[g]}
    /\ Return(g, "revoked")
    /\ UNCHANGED <<clients, clock, credentials, handedOut>>

-----------------------------------------------------------------------------
\* The Store interface may answer any call with an error. GetClient's is taken
\* for an unknown client; the handlers turn the others into 400 or 500.
StoreErrorReply(step) ==
    CASE step = "getClient" -> "invalid_client"
      [] step = "save"      -> "invalid_request"
      [] OTHER              -> "server_error"

StoreFails(g) ==
    /\ pc[g] \in {"getClient", "save", "lookup", "revoke"}
    /\ Return(g, StoreErrorReply(pc[g]))
    /\ UNCHANGED <<storeVars, clock, historyVars>>

Next ==
    \/ Tick
    \/ \E g \in Goroutine :
         \/ \E r \in Registrations, id \in ClientID, s \in Secret : RegisterClient(g, r, id, s)
         \/ RefuseRegistration(g)
         \/ \E r \in TokenRequests : AcceptTokenRequest(g, r)
         \/ \E r \in TokenRequests : RefuseTokenRequest(g, r)
         \/ GetClient(g)
         \/ \E rw \in RawToken : Mint(g, rw)
         \/ RefuseToMint(g)
         \/ SaveToken(g)
         \/ \E rw \in RawToken : BeginValidate(g, rw)
         \/ GetTokenByHash(g)
         \/ CheckToken(g)
         \/ \E rw \in RawToken : BeginRevoke(g, rw)
         \/ RevokeToken(g)
         \/ StoreFails(g)

Spec == Init /\ [][Next]_vars

-----------------------------------------------------------------------------
(* Properties.                                                             *)

\* Every variable holds what its Go field or local can hold: a stored client
\* allows absolute URIs only, a stored token was built by IssueToken.
TypeOK ==
    /\ clients \in [ClientID -> Client \cup {None}]
    /\ tokens \in [TokenHash -> Token \cup {None}]
    /\ clock \in Nat
    /\ pc \in [Goroutine -> Steps]
    /\ req \in [Goroutine -> TokenRequest \cup {None}]
    /\ client \in [Goroutine -> Client \cup {None}]
    /\ raw \in [Goroutine -> RawToken \cup {None}]
    /\ token \in [Goroutine -> Token \cup {None}]
    /\ reply \in [Goroutine -> Replies]
    /\ credentials \subseteq ClientID \X Secret
    /\ handedOut \subseteq RawToken
    /\ revoked \subseteq RawToken
    /\ revokedBefore \in [Goroutine -> SUBSET RawToken]

\* What client c may be granted.
Granted(t, c) == ResourceAllowed(t, c) /\ ScopeAllowed(t, c)

\* No sequence of registrations, requests and refusals, the copy of the client
\* being used several steps after it was read, stores a token that is broader
\* than what its client, as the store has it now, is registered for.
GrantsWithinRegistration ==
    \A h \in TokenHash : tokens[h] # None =>
        /\ clients[tokens[h].client] # None
        /\ Granted(tokens[h], clients[tokens[h].client])

\* A client_id and client_secret once returned by POST /oauth/clients go on
\* authenticating, whatever registrations run at the same time or later: the
\* secret is shown once and there is no way to ask for another.
CredentialsStayValid ==
    \A cred \in credentials :
        /\ clients[cred[1]] # None
        /\ clients[cred[1]].secretHash = Bcrypt(cred[2])

\* In this step the call of g ends with outcome.
Returns(g, outcome) == pc[g] # "idle" /\ pc'[g] = "idle" /\ reply'[g] = outcome

\* Once RevokeToken has returned nil, no ValidateToken call that begins later
\* accepts the token, though ValidateToken decides on a copy it took under a
\* lock it has let go. (A call already under way may still accept it.)
RevokedNeverValidated ==
    [][\A g \in Goroutine : pc[g] = "check" /\ Returns(g, "valid") =>
         raw[g] \notin revokedBefore[g]]_vars

\* A token IssueToken returned is never answered "token not found": its entry
\* is in the store before its caller has it, and nothing removes it.
IssuedTokensFound ==
    [][\A g \in Goroutine : pc[g] = "lookup" /\ Returns(g, "token_not_found") =>
         raw[g] = Bogus]_vars

\* What a token says apart from whether it is revoked.
SameGrant(t, u) ==
    /\ t.client = u.client
    /\ t.resource = u.resource
    /\ t.scope = u.scope
    /\ t.expiresAt = u.expiresAt

\* A stored token keeps its client, resource, scope and expiry for good, and a
\* revoked one stays revoked, though SaveToken overwrites whatever it finds.
TokensFrozen ==
    [][\A h \in TokenHash : tokens[h] # None =>
         /\ tokens'[h] # None
         /\ SameGrant(tokens'[h], tokens[h])
         /\ IsRevoked(tokens[h]) => IsRevoked(tokens'[h])]_vars

\* ValidateToken accepts a token only while the entry the store has at that
\* moment, and not just the copy it decides on, is unexpired and grants what
\* the copy says.
AcceptedTokensAlive ==
    [][\A g \in Goroutine : pc[g] = "check" /\ Returns(g, "valid") =>
         LET stored == tokens[ComputeTokenHash(raw[g])] IN
         /\ stored # None
         /\ SameGrant(token[g], stored)
         /\ clock <= stored.expiresAt]_vars

\* No token is revoked that nobody asked to revoke: what the store, or a copy
\* still in use, says is revoked was acknowledged to the caller of RevokeToken.
RevocationsAcknowledged ==
    /\ \A rw \in RawToken :
          LET stored == tokens[ComputeTokenHash(rw)] IN
          stored # None /\ IsRevoked(stored) => rw \in revoked
    /\ \A g \in Goroutine :
          /\ pc[g] = "save" => ~IsRevoked(token[g])
          /\ pc[g] = "check" /\ IsRevoked(token[g]) => raw[g] \in revoked

-----------------------------------------------------------------------------
(* The refinement.  What the store has under the hash of a token is what   *)
(* the token grants; a goroutine between the start of ValidateToken and    *)
(* its answer is asking.                                                   *)

Validating(g) == pc[g] \in {"lookup", "check"}

GrantOf(t) ==
    [client |-> t.client, resource |-> t.resource, scope |-> t.scope,
     expiresAt |-> t.expiresAt]

registryGrant ==
    [rw \in RawToken |->
       IF tokens[ComputeTokenHash(rw)] = None
       THEN None ELSE GrantOf(tokens[ComputeTokenHash(rw)])]

registryVerdict ==
    [g \in Goroutine |->
       IF reply[g] \in {"valid", "token_not_found", "token_revoked",
                        "token_expired", "server_error"}
       THEN reply[g] ELSE None]

Registry == INSTANCE TokenRegistry WITH
    Caller  <- Goroutine,
    grant   <- registryGrant,
    now     <- clock,
    asked   <- [g \in Goroutine |-> IF Validating(g) THEN raw[g] ELSE None],
    barred  <- [g \in Goroutine |-> Validating(g) /\ raw[g] \in revokedBefore[g]],
    verdict <- registryVerdict

ASSUME GrantAssumption == None \notin Registry!Grant

\* The service over its store, with the copies it decides on and the locks it
\* lets go in between, keeps every promise of TokenRegistry.
ImplementsRegistry == Registry!RegistrySpec

-----------------------------------------------------------------------------
(* What makes the properties inductive.                                    *)

\* What a goroutine carries between two critical sections of the store still
\* agrees with the store when it is used: the copy of a client is the client,
\* the token about to be saved is new, unrevoked and granted, and the copy of
\* a token lacks no revocation that preceded the call.
CopyCoherent(g) ==
    /\ pc[g] \in {"getClient", "mint"} =>
          req[g] # None /\ RequestStatus(req[g]) = "ok"
    /\ pc[g] = "mint" =>
          client[g] # None /\ client[g] = clients[req[g].clientID]
    /\ pc[g] = "save" =>
          /\ raw[g] # None /\ token[g] # None
          /\ raw[g] # Bogus
          /\ tokens[ComputeTokenHash(raw[g])] = None
          /\ \A h \in Goroutine : pc[h] = "save" /\ raw[h] = raw[g] => h = g
          /\ clients[token[g].client] # None
          /\ Granted(token[g], clients[token[g].client])
    /\ pc[g] \in {"lookup", "check", "revoke"} => raw[g] \in handedOut \cup {Bogus}
    /\ pc[g] = "check" =>
          LET stored == tokens[ComputeTokenHash(raw[g])] IN
          /\ token[g] # None /\ stored # None
          /\ SameGrant(token[g], stored)
          /\ raw[g] \in revokedBefore[g] => IsRevoked(token[g])

CopiesCoherent == \A g \in Goroutine : CopyCoherent(g)

\* What the server has answered is in the store: a token handed out, a
\* revocation acknowledged; and no entry stands for a token never issued.
AnswersStored ==
    /\ tokens[ComputeTokenHash(Bogus)] = None
    /\ \A rw \in handedOut : tokens[ComputeTokenHash(rw)] # None
    /\ \A rw \in revoked \ {Bogus} :
          /\ tokens[ComputeTokenHash(rw)] # None
          /\ IsRevoked(tokens[ComputeTokenHash(rw)])
    /\ \A g \in Goroutine : revokedBefore[g] \subseteq revoked

\* The inductive invariant: all of it together.
IInv ==
    /\ TypeOK
    /\ CopiesCoherent
    /\ AnswersStored
    /\ GrantsWithinRegistration
    /\ CredentialsStayValid

=============================================================================
