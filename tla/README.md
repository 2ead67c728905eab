# Verification of the OAuth 2.0 client-credentials server, its SDK and the ACME sample server

TLA+ models of the parts of this repository that keep state, run concurrently or
have to agree with one another, the TLC runs that check them on small instances,
and TLAPS proofs of their main invariants for every value of the constants.
Paths below are relative to the repository.

- [1. The system](#1-the-system)
- [2. The modules](#2-the-modules)
- [3. The runs](#3-the-runs)
- [4. What the code does not keep](#4-what-the-code-does-not-keep)
- [5. The proofs](#5-the-proofs)
- [6. What is not modelled, and what is left](#6-what-is-not-modelled-and-what-is-left)

## 1. The system

| component | state it keeps | operations | what is hard | what makes it correct |
|---|---|---|---|---|
| OAuth service, `pkg/oauth2/service.go`, `types.go` | none of its own: everything is in the store | `RegisterClient`, `IssueToken`, `ValidateToken`, `IntrospectToken`, `RevokeToken` | several store calls and clock readings per operation, nothing held in between; decisions on copies | grants within the registration; revocation and expiry are final; what was answered is stored |
| Store, `store.go`, `store_memory.go` | `clients` by id, `tokens` by SHA-256 hash, one `RWMutex` | one critical section per method, copies in and out | `SaveToken` overwrites, `CreateClient` must not; a `Store` may fail any call | an entry is written by one call and never lost |
| HTTP handlers, `handlers.go` | none | `POST /oauth/clients`, `/token`, `/introspect`, `/revoke` | one goroutine per request | errors are answered, nothing is half done |
| Middleware, `middleware.go` | the token in the request's context | `TokenAuthMiddleware`, `RequireResource`, `RequireScope` | the token may be revoked after it was let through | a request reaches a handler only with a valid token for its resource |
| Telemetry, `telemetry.go` | counters, spans, audit log | `RecordTokenRequest`, `RecordAuthCheck` | every path has to call it | every decision is audited, once |
| SDK cache, `client/client.go` | `tokens` by resource, one `RWMutex` | `GetToken`, `Revoke`, `Introspect`, `RegisterClient` | double-checked locking; a lock held across an HTTP call; a clock read before the lock; lost answers | a token that is returned is alive; one fetch per miss; a revoked token does not come back; every call returns |
| SDK transport, `client/transport.go` | none | `RoundTrip` | the resource is derived from the URL on this side and from the route on the other; a 401 leaves the cache as it is | both sides derive the same resource; a lost token is out of use when its entry is stale |
| Certificate API, `sample-server/internal/certificate` | `certificates` by id, `challenges` by token, one `RWMutex` | `StartChallenge`, `CompleteChallenge`, two reads | up to three critical sections per handler; failures in between | a challenge belongs to a known certificate, is consumed once, and only then is a certificate issued |
| Sample server, `sample-server/main.go` | the router, the HTTP server, the signal channel | start, serve, shutdown within 5 s | requests cut short; signals before, during and after shutdown; in-memory state lost on restart | no request is cut before the deadline; a signal ends the process; nothing outlives a restart |
| CLI, `cmd/oauth-cli` | none | a command is at most one token request and one API request | resource URIs are put together from flags on one side and from the server's configuration on the other | an entitled client reaches its certificate, no other does |

How they interact. Requests reach the OAuth handlers and the certificate API in
one process, each on a goroutine of its own. The handlers call the service, the
service the store. The middleware calls `ValidateToken` before it lets a request
through to the certificate API. The SDK runs in another process and reaches the
OAuth handlers over HTTP, where requests and answers can be lost and be late;
the goroutines of that process share one `Client` and its cache. `RoundTrip` puts
the cached token on requests to the certificate API. The CLI is such a process,
one per command, with an empty cache.

The hazards of all this, each at its line and with the properties that cover
it, are listed in `PROJECT.json`.

## 2. The modules

| module | models |
|---|---|
| `OAuthService` | service, store and OAuth handlers |
| `TokenRegistry` | what the service promises about tokens, without store, locks and copies; `OAuthService` implements it |
| `ProtectedAPI` | the middleware chain and its audit record, on top of `TokenRegistry` |
| `TokenCache` | `GetToken` and `Revoke` of one SDK `Client`, against a server that issues and revokes |
| `ClientSession` | `RoundTrip` on top of `TokenCache`, against a server that restarts |
| `OAuthCLI` | the commands, and the resource URIs of the CLI, the SDK and the server |
| `CertificateServer` | the certificate handlers over their store |
| `ServerLifecycle` | start, signals and shutdown of the sample server's process |
| `MC...` | instances for TLC: constants, symmetry (`ServerLifecycle` needs none) |
| `...Proofs` | the theorems about the module of that name |
| `OAuthRegistryProofs` | the proof that `OAuthService` implements `TokenRegistry` |

`ProtectedAPI` EXTENDS `TokenRegistry`, and `OAuthService` implements
`TokenRegistry`: what the chain relies on is what the service is shown to keep.
`ClientSession` EXTENDS `TokenCache` and takes its steps as they are.

### What an action is

An action is one stretch of code between two accesses to state that goroutines
share. A critical section of a mutex is one action: nobody else sees inside it.
A reading of the clock is in the action of the code around it. Code that touches
only locals joins a neighbouring action. What a goroutine carries from one
action to the next is in variables indexed by goroutine (`pc`, `req`, `client`,
`token`, ...), so a copy can be stale when it is used. When a call returns its
locals are reset: they are garbage, and the state space is smaller.

Any goroutine may at any time be one that has not called yet, so a model with
two goroutines has every interleaving of two calls, and any number of calls one
after the other.

Definitions marked "Mutant:" are not part of the specifications. Each is a
definition with a plausible mistake in it (a dropped guard, a missing eviction,
an off-by-one), kept beside the right one: put in its place, it makes TLC find
the property `PROJECT.json` names violated, so that no property holds idly.

### OAuthService

| code | action or definition |
|---|---|
| `RegisterClient` up to and with `CreateClient` | `RegisterClient`, `RefuseRegistration` |
| `IssueToken` before the store | `AcceptTokenRequest`, `RefuseTokenRequest`, `RequestStatus` |
| `GetClient` | `GetClient` |
| bcrypt, resource and scope checks, token draw, clock | `Mint`, `RefuseToMint`, `AuthorizationStatus` |
| `SaveToken` and the answer | `SaveToken` |
| `ValidateToken`: hash and lookup | `BeginValidate`, `GetTokenByHash` |
| `ValidateToken`: clock, `IsRevoked`, `IsExpired` | `CheckToken`, `TokenStatus` |
| `RevokeToken` | `BeginRevoke`, `RevokeToken` |
| a `Store` that returns an error | `StoreFails`, `StoreErrorReply` |

Secrets, tokens, URIs and scopes are members of sets. `Bcrypt` and
`ComputeTokenHash` wrap what they hash, so that a hash tells no more than
equality. `crypto/rand` is taken not to repeat a token (`FreshToken`); client
ids may repeat, as `CreateClient` checks for it. `IntrospectToken` is
`ValidateToken` with the answer worded otherwise. Callers present tokens they
were given and one string that was never issued, as 256 bits are not guessed.

History variables record what callers were told: `credentials`, `handedOut`,
`revoked`, and `revokedBefore`, which is `revoked` as it was when the
goroutine's call began.

### TokenCache

`ReadCache` is the section under `RLock`, `Lock` the acquisition of the write
lock with the second look at the cache, `ServerIssues` and `StoreToken` the two
ends of the HTTP exchange made under the lock, `FetchFails` every way it can
fail, before or after the server has acted. A request the server handles only
after the SDK gave up is not a step of its own: like a lost response it leaves a
token nobody knows of. `GetToken` copies the token, lets go of the lock
(`Unlocked`) and only then returns it (`ReturnToken`), so that other goroutines
may revoke the token in between. `Revoke` sends first
(`ServerRevokes`), then reads the status (`RevokeAnswered`, `RevokeFails`), and
evicts under the lock only after a 200 (`Evict`). `writer` is who holds the
write lock; read-locked sections are single steps and need no variable.
`now[g]` is the clock as the call read it, before it asked for a lock, and
`revokedBefore[g]` is what `Revoke` had returned nil for when the call began.

The server is two facts from `OAuthService`: it issues a new token with life
`TokenTTL`, and it marks a token revoked. `ExpiresIn` is the life rounded down to
seconds, as `int64(tokenTTL.Seconds())` does. The two processes read one clock:
clock skew is not modelled.

### TokenRegistry and the refinement

Issuing and revoking a token are one step each; a validation is asked for
(`Ask`), answered (`Accept`, `Refuse`), and anything may happen in between.
`barred` remembers whether the token was revoked when the caller asked: then it
may not be accepted. A revocation that overlaps the validation may or may not be
noticed, and `MayRefuse` says which reasons are true ones.

`ImplementsRegistry` in `OAuthService` instantiates it: the grant of a token is
what the store has under its hash, without `revokedAt`; the revoked tokens are
those whose revocation was answered; a goroutine is asking while it is at
`lookup` or `check`. `RevokeToken` marks the entry and answers in one step
(`SaveToken` likewise), so no step of the code is two of the registry.

### ProtectedAPI

A request goes through `TokenAuthMiddleware` (`NoToken`, `PresentToken`, then
`TokenAccepted` or `TokenRefused`), `RequireResource`, `RequireScope` and the
handler, a step each, since between two of them other goroutines revoke tokens
and time passes. `audit` is the sequence of statuses `RecordAuthCheck` was called
with. `RequiredScope` is `None` where `RequireScope` is not chained, as in
`sample-server/main.go`; the runs chain it. The paths of `RequireResource` and
`RequireScope` for a context without a token have no action: `ContextCoherent`
says, and the proof shows, that they are not taken in this chain.

### ClientSession

`BeginRoundTrip` starts a `GetToken`, whose steps are those of `TokenCache`
(`GetTokenStep`, `IssueToken`); `Send` presents what it returned. `Restart`
empties the server's store and forgets the client; `RevokeElsewhere` is a
revocation by someone else who has the token; `Reregister` gives the process
new credentials and a new `Client`, once no request is under way. `lostAt` is
when the server first stopped honouring a token before its expiry. The
certificate store, which a restart empties too, is left out: nothing the SDK
does depends on it.

### OAuthCLI

A command is one action: it is a process that makes at most two HTTP calls and
keeps nothing. A URI is its scheme and host, the segments of its path and
whether it has a query or a fragment, so that trimming slashes, cutting off the
query and comparing are what the code does. `token` prints a token, which can
then be presented by anything (`PresentToken`); the tokens the other commands
fetch die with them. Time is `Expire`, which may happen to any token. The method
of `call` is taken to be the one of the route. `challenge-verify` has no action:
it is a GET that changes nothing.

### ServerLifecycle

`Listen`, `ListenFails` and `Accept` are the goroutine of `ListenAndServe`, `Serve`
and `Answer` those of the requests; `Notify`, `BeginShutdown`,
`ShutdownDone` and `ShutdownTimesOut` are `main`. What `net/http` and `os/signal`
do is taken from their documentation: `Shutdown` closes the listener, at which
`ListenAndServe` returns `ErrServerClosed`, and waits for the connections; one that
was accepted before may still bring its request (`Serve`) or is closed with
nothing read from it (`CloseIdle`); a signal that finds the
channel full is dropped. That `Shutdown` returns nil only when no connection is
left (`Drained`) is therefore assumed, not shown. When `main` returns or `os.Exit` is called, requests
under way are `"cut"`.

### CertificateServer

One action per store call of each handler. `FindCertificate` and `CreatePending`
are two, as `GetCertificate` and `SaveCertificate` are; so are
`DeleteChallenge`, `LoadCertificate` and `IssueCertificate`. `GetCertificate` and
`ServeACMEChallenge` read one entry and answer, or fail with their one store call
(`StoreFails` of an idle goroutine). Requests are those
that pass the middleware. Domains and dates are left out, no decision being
taken on them. `provisioned`, `consumed` and `proven` are histories.

## 3. The runs

| run | instance | states | checks |
|---|---|---|---|
| `oauth_grants` | 2 goroutines, 2 clients, 2 secrets, 1 token, 4 registration bodies, 6 kinds of token request, 1 URI that is absolute and 1 that is not, 2 scopes, time stands still | 404,852 | `TypeOK`, `GrantsWithinRegistration`, `CredentialsStayValid` |
| `oauth_tokens` | 2 goroutines, 1 client, 2 tokens and one never issued, life 1, clock to 2 | 101,196 | `CopiesCoherent`, `AnswersStored`, `RevocationsAcknowledged`, `TokensFrozen`, `AcceptedTokensAlive`, `RevokedNeverValidated`, `IssuedTokensFound`, `ImplementsRegistry` |
| `cache` | 2 goroutines, 2 resources, 2 tokens, time stands still, no symmetry | 17,241 | `TypeOK`, `CallsReturn` |
| `cache_timing` | 2 goroutines, 1 resource, 2 tokens, life 5 at 2 ticks a second (so `ExpiresIn` loses a tick), buffer 3, clock to 6 | 829,248 | `IInv`, `NoRedundantFetch`, `CacheHonest`, `ServedInTimeIsAlive`, `RevokedNeverServed` |
| `certificates` | 2 goroutines, 2 certificates, 2 challenge tokens, each provisioned at most twice | 69,286 | `TypeOK`, `ChallengeHasCertificate`, `ConsumedOnce`, `IssuedByChallenge`, `SettledForGood` |
| `protected_api` | 2 requests, 1 token and one never issued, 2 resources, 2 scopes, 4 kinds of grant, life 1, clock to 2 | 87,045 | `TypeOK`, `AdmissionSound`, `AuditTruthful` |
| `session` | 2 goroutines, 1 resource, 2 tokens, life 3, buffer 1, clock to 4 | 706,154 | `SessionIInv`, `RefusalsExplained`, `NothingSurvivesRestart` |
| `cli` | 1 client, 2 certificates, 1 printed token, 2 server URLs, 4 resource base URLs, 7 lists of resources | 5,509 | `TypeOK`, `BoundClientsConfined`, `CommandsReach` |
| `lifecycle` | 3 requests, deadline 2, no symmetry | 1,035 | `TypeOK`, `GraceKept`, `SignalEndsProcess` |
| `cache_revoked`, `certificates_race`, `protected_audit` | end in a counterexample | | section 4 |

Why these bounds. Each hazard needs two calls that overlap and at most one more
before or after them; two goroutines make any number of calls in turn. Two
registrations must be able to collide on an id and to differ in what they allow
(`oauth_grants`); two tokens let one be revoked while the other is in use
(`oauth_tokens`); two resources let a fetch for one overlap a hit for the other
and contend for the one lock (`cache`, where the clock is left out because no
wait ends by it). In `cache_timing`, where entries go stale and are fetched
again, one resource does: entries of two share nothing but the lock. The buffer
there exceeds what rounding takes off the life by more than a tick, or the
buffer would have nothing to do. The clock goes past the expiry of a token
issued at time 0, with a step to spare for a call that read it earlier. The
tokens of a finite set run out; the runs reach the states after that, where only
validation and revocation are left. `MaxTime` bounds the clock, `MaxStarts` the
provisionings of a challenge token, and the size of `RawToken` and `Token` the
tokens issued; nothing else is bounded.

One token is enough for `protected_api`: a request carries one, and what the
chain does with it depends on no other. In `session` the life exceeds the buffer
by two, so that a lost token can be used for a while and then no more, and the
clock goes past its expiry. One client is enough for `cli`: no command reads what
belongs to another client, and the theorems are for any number. Its base URLs
have no slash, one and two, and are the server's, another one and a relative
one. In `lifecycle` one request can be answered, one under way and one accepted but
not read; the deadline of two ticks lets a request answer between the first and the
last. The process there has few states, all of them.

There is no symmetry reduction in the two runs that check liveness. The deadlock
check is off for `lifecycle`, where the process ends. In the others a call can
always begin or fail.

What they show, in words:

- `GrantsWithinRegistration`: no order of registrations and requests stores a
  token broader than its client, though the client was read steps earlier. A token
  without a scope counts as narrow, as in `IssueToken`, although `RequireScope`
  lets it through (`ScopeVerified` in section 4).
- `CredentialsStayValid`: a secret that was shown once goes on working.
- `RevokedNeverValidated`: a `ValidateToken` that begins after `RevokeToken`
  returned does not accept the token. One that began before may: it decides on
  its copy. The property says which of the two is promised.
- `AcceptedTokensAlive`: what is accepted is unexpired in the store at that
  moment, not just in the copy.
- `IssuedTokensFound`, `TokensFrozen`, `AnswersStored`: what was answered is in
  the store and stays there, though `SaveToken` overwrites and calls fail.
- `CacheHonest`: the cache never believes in a token longer than the server does.
- `ServedInTimeIsAlive`: what the expiry buffer buys. A `GetToken` that takes no
  longer than the buffer (or the life of a token) returns a live token.
- `NoRedundantFetch`: the second look under the lock does its work.
- `RevokedNeverServed`: a `GetToken` that begins after `Revoke` returned nil does
  not return the token, whatever fetches and reads were under way. One that began
  before may: it had the token when it let go of the lock.
- `CallsReturn`: no path leaves the lock locked.
- `ChallengeHasCertificate`, `ConsumedOnce`, `IssuedByChallenge`: the ACME
  exchange stays in order under races and failing stores.
- `SettledForGood`: an issued certificate stays issued, unless a start that missed
  its record is still about to write one (section 4 has what happens then).
- `ImplementsRegistry`: all the service does to tokens, seen from outside, is
  issuing once, revoking for good and validating as `TokenRegistry` allows.
  `RevocationsAcknowledged`: no token is revoked that nobody asked to revoke.
- `AdmissionSound`: a request gets to the handler only with a token that was alive
  and unrevoked when the request came, and is for its resource or for none. It
  may have been revoked since: the chain validates once.
- `AuditTruthful`: what is recorded of the token check is true, though the
  record is written after the decision.
- `RefusalsExplained`: `RoundTrip` never drops a token for a 401; still, a token
  the server has lost is refused only until its cache entry is stale, which is
  `ExpiresIn` less `ExpiryBuffer` after the loss, and there is no other reason for a
  401 but a call that took longer than the buffer.
- `NothingSurvivesRestart`: after a restart nothing succeeds until the client is
  registered again, and no token of before comes back with it.
- `BoundClientsConfined`: whatever is given for `--resource`,
  `--resource-base-url`, `--server-url` and `--path`, a client with a list of
  resources touches only certificates on it.
- `CommandsReach`: the CLI and the server put the same URI together.
- `GraceKept`, `SignalEndsProcess`: shutdown cuts nobody before the deadline, and
  does end.

### Fairness

In `cache`: `WF` of `StoreToken \/ FetchFails` and of
`RevokeAnswered \/ RevokeFails`: an HTTP exchange ends, because the client `New`
builds has a timeout of ten seconds (`client.go:73`) or the caller's context
ends it. A caller that supplies an `HTTPClient` without a timeout and a context
without a deadline gives this up. `WF` of `ReturnToken`: a goroutine that waits
for nothing is scheduled. `SF` of `ReadCache`, `Lock` and `Evict`: a
goroutine that waits for the `RWMutex` gets it, because a waiting writer keeps
new readers out, the readers that waited run when a writer unlocks, and a
starved `sync.Mutex` is handed over in order. The server's own steps have no
fairness: it may never answer.

In `lifecycle`, `WF` of `Notify`,
`BeginShutdown`, `Tick` and `ShutdownDone \/ ShutdownTimesOut`: `main` is
scheduled, time passes and `Shutdown` polls for idle connections and watches its
context. Nothing is assumed of the requests: a handler
may hang. The other runs state no fairness.

## 4. What the code does not keep

Each of these is a sentence in the repository that a counterexample refutes. Three
are runs, about what goes wrong between two steps and is the hardest to see in a
test:

- `cache_revoked` (`ServedNotRevoked`). The server revokes, its answer is lost,
  `Revoke` returns an error and leaves the entry; the next `GetToken` returns
  the revoked token. One goroutine is enough.
- `certificates_race` (`IssuedStaysIssued`). Two starts find no record; one
  creates it, provisions, and a completion issues the certificate; the other start
  then saves its pending record over it. `SettledForGood`, checked
  and proved, says that such a start is the only thing that can do this, so that
  one request at a time never does.
- `protected_audit` (`RefusalsAudited`). The design has every authorization decision
  audited. The 403 of `RequireResource` and `RequireScope` is not, and the one line
  of such a request, from the token check, says it was granted.

The others are a matter of one condition in the code. They are not among the
runs; each has its configuration beside them, for `tlc -config X.cfg M`:

- `CachedTokenUnexpired` (`MCTokenCacheExpired.cfg`, `MCTokenCache`). `GetToken`
  reads the clock before it waits for the lock and judges the cache by that time
  afterwards. A caller that waited longer than the buffer can be given a token
  that has expired. There time passes only while each goroutine is idle, on the
  network or waiting for the lock (`PromptSpec`), so it is the wait that does it
  and not a goroutine that was not scheduled. The wait must exceed the buffer
  (30 s by default), which takes several queued fetches or a slow HTTP client.
- `DeletedByItsCertificate` (`MCCertificateOwner.cfg`, `MCCertificateServer`). A
  completion deletes the challenge by token and does not ask which certificate
  it was for.
- `ScopeVerified` (`MCProtectedScope.cfg`, `MCProtectedAPI`). "RequireScope
  verifies that the token contains the required scope": not if the token has no
  scope at all.
- `OnlyItsResourceToken` (`MCProtectedUnbound.cfg`, `MCProtectedAPI`). The
  design lets challenges be placed and deleted only with the certificate's own
  token; a token without a resource, which an unlimited client can ask for, does
  as well.
- `CleanExitTrue` (`MCLifecycleLog.cfg`, `ServerLifecycle`). After "Server
  forced to shutdown", with a request cut, `main` logs "Sample server exited
  cleanly".
- `TransparentCall` (`MCOAuthCLITransparent.cfg`, `MCOAuthCLI`). The URL of a
  challenge endpoint, taken for the resource as the documents describe, is not
  the resource the server has for it, and the call is refused. `CommandsReach`
  says where transparent calls do work: for the certificate itself.
- `RevokeAuthenticated` (`MCOAuthCLIRevoke.cfg`, `MCOAuthCLI`). `POST
  /oauth/revoke` is documented to authenticate the client. It revokes for anyone
  who has the token.

Read in passing, not the subject of a run: the README's quick start uses the flags
`--token-val` and `--scope`, which no command defines.

## 5. The proofs

Each proof module shows that an inductive invariant `IInv` holds initially and is
kept by every action, and derives the theorems from it.

**OAuthService.** `GrantsWithinRegistration` alone is not inductive: `SaveToken`
stores what a goroutine built some steps ago. `CopiesCoherent` says what a
goroutine carries still agrees with the store when it is used: the copy of a
client is the client (entries are never rewritten, `CreateClient` refusing an
id that is taken), the token about to be saved is new, unrevoked and granted,
and the copy of a token lacks no revocation that preceded the call.
`AnswersStored` links the histories to the store. From `IInv`:
`TypeCorrect`, `GrantsCorrect`, `CredentialsCorrect`, `CopiesCorrect`,
`AnswersCorrect` (invariants),
`FrozenCorrect`, `RevokedCorrect`, `AcceptedCorrect`, `FoundCorrect` (properties
of every step). `AcknowledgedCorrect` is an invariant too, by induction relative to
`IInv`: `RevokeToken` is the one action that sets `revokedAt`, it answers in the
same step, and neither `SaveToken` nor a copy read earlier brings a mark of its own.

**The refinement.** `RegistryImplemented` (`OAuthRegistryProofs`) is
`Spec => ImplementsRegistry`, and with it every step of the service over its store is
one of `TokenRegistry` or none, for any number of goroutines, clients, tokens and
store failures. `InitRegistry` maps the initial state; `StepRegistry` goes through
the actions under `IInv` and `RevocationsAcknowledged`, which the theorems above
provide:

| step of `OAuthService` | step of `TokenRegistry` |
|---|---|
| `SaveToken` | `Issue`: the token was not in the store before (`CopiesCoherent`), and what is stored is a `Grant` |
| `RevokeToken` | `Revoke`: the mark changes no grant, and the answer is given in the same step |
| `BeginValidate` | `Ask`: `revokedBefore` is fixed here, and with it `barred` |
| `GetTokenByHash` that finds nothing | `Refuse` with `token_not_found` |
| `CheckToken` | `Accept` or `Refuse` |
| `StoreFails` | `Refuse` with `server_error` in a validation, `Proceed` otherwise |
| calls of other operations that begin or return | `Proceed` |
| lookups and copies in between | none |
| `Tick` | `Advance` |

`CheckToken` (`CheckAnswers`) is the delicate case, as it decides on a copy that a
revocation may have overtaken. If the copy is marked, somebody was answered
(`RevocationsAcknowledged`), so `token_revoked` is a true reason. If it is not, the
token was not revoked when the call began (`CopiesCoherent`), so the registry may
still accept it, and the copy's expiry is the stored one (`SameGrant`), so
acceptance and `token_expired` are decided on the grant. That the registry tells a
grant from none needs `GrantAssumption`.

**TokenCache.** `LockHeld` says the write lock is held exactly during a fetch;
`CallsCoherent` that the token in a response is new, for the right resource and
expires no sooner than the call's `now` plus its life, and that a token about to
be returned was not revoked when its call began and outlives that `now` by a life
or by the buffer; `HistoryCoherent` that
tokens are issued, then returned, then revoked and never cached after. The last
is where the order of `Revoke` matters: it evicts before it returns, and a token
it may revoke was stored before. `CallsCoherent` carries it over the gap between
the unlock and the return, in which the token may be revoked and evicted. Theorems: `TypeCorrect`, `HonestCorrect`,
`FetchCorrect`, `ServedCorrect`, `RevokedCorrect`, for every lifetime,
resolution, buffer and latency.

**ClientSession.** `IInv` of `TokenCache` does not survive a restart, which empties
`server` under the cache, so `SessionIInv` is an invariant of its own. `TokensAccounted`
keeps the server's books: a token is drawn once, stays until it is lost and is
lost for good, and an unregistered client has no token. `CacheBacked` bounds what is
cached: an entry goes stale no later than its token expires or, once it is lost, no
later than `ExpiresIn` after the loss (`BackedUntil`); also no later than `ExpiresIn`
from now, which makes the bound hold at the moment of a loss. `TripsCoherent` says
a request carries a token it fetched itself, so that the token lives a whole life
from when the request began or was lost since (`NewFor`), or one that was fresh when
the request began; `Justified` is either, and holds from the unlock on. The proofs turn on `TokenFate`: in any step a token that was drawn
either keeps its standing or is lost at that very time; from it each of these facts
about a token is kept, whoever takes the step (`NewForKept`, `BackedKept`,
`JustifiedKept`). Theorems: `SessionInductive`, `RefusalsCorrect`, `RestartCorrect`.

**CertificateServer.** `HandlersCoherent` says the certificate a handler is about
to provision for, or to issue, exists, nothing ever deleting one, and that one it
is about to issue is proven. Theorems: `TypeCorrect`, `ChallengeCorrect`,
`ConsumedCorrect`, `IssuedCorrect`, and `SettledCorrect`, a
property of every step: only `CreatePending` writes `"pending"`, and only a
`FindCertificate` that finds nothing leads to it.

**ProtectedAPI.** What the handler sees was decided steps before, on a copy.
`ContextCoherent` follows a request through the chain: while it is being validated,
whether its token is barred is whether it was revoked when the request came; past
`TokenAuthMiddleware` its context is what the registry has for its token, which
was neither revoked nor expired on arrival; past `RequireResource` and `RequireScope`
the context also satisfies them. Theorems: `TypeCorrect`, `AdmissionCorrect`,
`AuditCorrect`, for any number of requests and tokens. They rest on `TokenRegistry`
only, which `OAuthService` implements.

**ServerLifecycle.** `LifecycleCoherent` says that a running process has cut nobody,
that the listener is closed by `Shutdown` alone, and that nothing was let in before it
was open. Without the second, a listener that fails during shutdown could end the
process before the deadline. Theorems: `TypeCorrect`, `GraceCorrect`.

**OAuthCLI.** `TokensBound` says a printed token is within what its client is
registered for, which is what confines those who use it later. `CommandsReach` is
about the last command and needs only lemmas on the operators that put URIs
together (`Join`, `CertPath`, `Route`, `resourceExtractor`), chiefly that the path the
CLI builds is routed to the certificate it was built for (`RouteOf`) and that an
entitled request is then handled (`DoReaches`). Theorems: `TypeCorrect`,
`ConfinedCorrect`, `ReachCorrect`.

Assumed: the constants' types; that `None` is none of the values it is put
beside (`NoneAssumption`, `GrantAssumption`, `TimeAssumption`, `ProtectedAssumption`,
`CLIAssumption`); that the
server's own base URL is absolute and `--server-url` names a host without a path
(`CLIAssumption`); a positive lifetime, resolution and buffer
(`ConstantsAssumption`: `New` replaces a buffer that is not positive); a
`ShutdownTimeout` that is a number (`TimeoutAssumption`). SHA-256
and bcrypt are free of collisions, which is in the definition of `Bcrypt` and
`ComputeTokenHash`, and `crypto/rand` does not repeat a token, which is in `FreshToken`.

Only model-checked: `CallsReturn` and `SignalEndsProcess`, liveness under fairness
being out of the prover's reach. All other properties of the passing runs are
theorems.

## 6. What is not modelled, and what is left

Not modelled, and why:

- Parsing and wording of HTTP messages, and refusals that touch no state (JSON that
  cannot be read, a missing `token` parameter): they change nothing.
- The OpenTelemetry plumbing of `telemetry.go` (meters, spans, options) and
  `RecordTokenRequest`, a counter and a log line on each return of `IssueToken`
  that no decision reads.
- `challenge-verify` of the CLI, an unauthenticated GET of what
  `ServeACMEChallenge` serves; health and metrics routes; the version string; the
  scripts.
- `Introspect` and `RegisterClient` of the SDK touch no state of its `Client`; what they
  make the server do is in `OAuthService` and `OAuthCLI`.
- A `Store` call that takes effect and then reports an error: `StoreFails` is an
  error without effect, as those of `MemoryStore` are.
- Clock skew between SDK and server; the cost of bcrypt; the growth of
  `MemoryStore.tokens`, from which nothing is ever removed.

Left to prove: nothing that the passing runs check, liveness apart. What could be
stated next is the composition: `TokenCache` and `ClientSession` have a server of their
own, which issues a token once and honours it until it is revoked, expired or lost,
and nothing but its likeness to `TokenRegistry` links the two.
