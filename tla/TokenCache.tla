------------------------------ MODULE TokenCache ------------------------------
(***************************************************************************)
(* The token cache of the client SDK, pkg/oauth2/client/client.go: GetToken *)
(* and Revoke of one Client, called by concurrent goroutines, against an   *)
(* authorization server that issues and revokes tokens over HTTP.          *)
(*                                                                         *)
(* Client.mu is a sync.RWMutex.  The read-locked section of GetToken and   *)
(* the eviction of Revoke do nothing but touch the map, so each is one     *)
(* step, possible while no one holds the write lock.  GetToken holds the   *)
(* write lock across its HTTP call, so that section is several steps.  It  *)
(* has let go of either lock when it returns: that is a step of its own.   *)
(* GetToken reads the clock once, before it asks for either lock.          *)
(***************************************************************************)
EXTENDS Integers

CONSTANTS
    Goroutine,      \* goroutines that share the Client
    Resource,       \* resource URIs, the keys of the cache
    Token,          \* the opaque tokens the server can issue: a bound
    None,           \* no token, no entry, no goroutine
    TokenTTL,       \* Service.tokenTTL of the server, in ticks
    TicksPerSecond, \* the resolution of the clock
    ExpiryBuffer,   \* Client.expiryBuffer, in ticks
    MaxTime         \* bound on the clock

ASSUME ConstantsAssumption ==
    /\ TokenTTL \in Nat \ {0}
    /\ TicksPerSecond \in Nat \ {0}
    /\ ExpiryBuffer \in Nat \ {0}     \* New replaces anything else by 30 s
    /\ MaxTime \in Nat

VARIABLES
    clock,          \* what Client.nowFunc and Service.nowFunc read
    server,         \* the server's tokens
    cache,          \* Client.tokens
    writer,         \* who holds Client.mu for writing
    pc,             \* where each goroutine is
    resource,       \* resourceURI of a GetToken call
    now,            \* now of a GetToken call
    held,           \* the token in the response, to return or to revoke
    result,         \* what the goroutine's last call returned
    revokedBefore,  \* history: revoked, as it was when the GetToken call began
    returned,       \* history: the tokens GetToken returned
    revoked         \* history: the tokens Revoke returned nil for

callVars    == <<resource, now, held, result, revokedBefore>>
historyVars == <<returned, revoked>>
vars == <<clock, server, cache, writer, pc, resource, now, held, result,
          revokedBefore, returned, revoked>>

-----------------------------------------------------------------------------
Entry  == [accessToken : Token, expiresAt : Nat]
Issued == [resource : Resource, expiresAt : Nat, revoked : BOOLEAN]

Steps == {"idle", "read", "lock", "request", "response", "return",
          "revokeRequest", "revokeResponse", "evict"}

ASSUME NoneAssumption ==
    None \notin Token /\ None \notin Resource /\ None \notin Goroutine
    /\ None \notin Entry /\ None \notin Issued

\* TokenResponse.ExpiresIn: int64(tokenTTL.Seconds()), whole seconds rounded down.
ExpiresIn == (TokenTTL \div TicksPerSecond) * TicksPerSecond

\* Mutant: the buffer is forgotten.
FreshUnbuffered(entry, n) == entry # None /\ entry.expiresAt - n > 0

\* The test of both cache checks.
Fresh(entry, n) == entry # None /\ entry.expiresAt - n > ExpiryBuffer

Init ==
    /\ clock  = 0
    /\ server = [t \in Token |-> None]
    /\ cache  = [r \in Resource |-> None]
    /\ writer = None
    /\ pc       = [g \in Goroutine |-> "idle"]
    /\ resource = [g \in Goroutine |-> None]
    /\ now      = [g \in Goroutine |-> 0]
    /\ held     = [g \in Goroutine |-> None]
    /\ result   = [g \in Goroutine |-> None]
    /\ revokedBefore = [g \in Goroutine |-> {}]
    /\ returned = {}
    /\ revoked  = {}

Goto(g, step) == pc' = [pc EXCEPT ![g] = step]

\* The call of g returns with token t, or None for an error or nothing.
Return(g, t) ==
    /\ Goto(g, "idle")
    /\ result'   = [result EXCEPT ![g] = t]
    /\ resource' = [resource EXCEPT ![g] = None]
    /\ now'      = [now EXCEPT ![g] = 0]
    /\ held'     = [held EXCEPT ![g] = None]
    /\ revokedBefore' = [revokedBefore EXCEPT ![g] = {}]

\* GetToken has let go of the lock, with token t in a local.
Unlocked(g, t) ==
    /\ Goto(g, "return")
    /\ held' = [held EXCEPT ![g] = t]
    /\ UNCHANGED <<resource, now, result, revokedBefore, historyVars>>

Tick ==
    /\ clock < MaxTime
    /\ clock' = clock + 1
    /\ UNCHANGED <<server, cache, writer, pc, callVars, historyVars>>

-----------------------------------------------------------------------------
(* GetToken.                                                               *)

BeginGetToken(g, r) ==
    /\ pc[g] = "idle"
    /\ Goto(g, "read")
    /\ resource' = [resource EXCEPT ![g] = r]
    /\ now'      = [now EXCEPT ![g] = clock]
    /\ result'   = [result EXCEPT ![g] = None]
    /\ revokedBefore' = [revokedBefore EXCEPT ![g] = revoked]
    /\ UNCHANGED <<clock, server, cache, writer, held, historyVars>>

\* Under RLock.
ReadCache(g) ==
    /\ pc[g] = "read"
    /\ writer = None
    /\ LET entry == cache[resource[g]] IN
       \/ /\ Fresh(entry, now[g])
          /\ Unlocked(g, entry.accessToken)
       \/ /\ ~Fresh(entry, now[g])
          /\ Goto(g, "lock")
          /\ UNCHANGED <<callVars, historyVars>>
    /\ UNCHANGED <<clock, server, cache, writer>>

\* Mutant: no second look at the cache.
LockUnchecked(g) ==
    /\ pc[g] = "lock"
    /\ writer = None
    /\ writer' = g
    /\ Goto(g, "request")
    /\ UNCHANGED <<clock, server, cache, callVars, historyVars>>

\* Lock, and the second look at the cache, which on a hit unlocks.
Lock(g) ==
    /\ pc[g] = "lock"
    /\ writer = None
    /\ LET entry == cache[resource[g]] IN
       \/ /\ Fresh(entry, now[g])
          /\ Unlocked(g, entry.accessToken)
          /\ UNCHANGED writer
       \/ /\ ~Fresh(entry, now[g])
          /\ writer' = g
          /\ Goto(g, "request")
          /\ UNCHANGED <<callVars, historyVars>>
    /\ UNCHANGED <<clock, server, cache>>

\* Mutant: the server hands out a token it has handed out before.
ServerIssuesAgain(g, t) ==
    /\ pc[g] = "request"
    /\ server' = [server EXCEPT ![t] =
                    [resource |-> resource[g], expiresAt |-> clock + TokenTTL,
                     revoked |-> FALSE]]
    /\ held' = [held EXCEPT ![g] = t]
    /\ Goto(g, "response")
    /\ UNCHANGED <<clock, cache, writer, resource, now, result, revokedBefore,
                   historyVars>>

\* The server handles POST /oauth/token; t is new (see OAuthService).
ServerIssues(g, t) ==
    /\ pc[g] = "request"
    /\ server[t] = None
    /\ server' = [server EXCEPT ![t] =
                    [resource |-> resource[g], expiresAt |-> clock + TokenTTL,
                     revoked |-> FALSE]]
    /\ held' = [held EXCEPT ![g] = t]
    /\ Goto(g, "response")
    /\ UNCHANGED <<clock, cache, writer, resource, now, result, revokedBefore,
                   historyVars>>

\* Mutant: the lifetime is counted from the arrival of the response.
StoreTokenLate(g) ==
    /\ pc[g] = "response"
    /\ cache' = [cache EXCEPT ![resource[g]] =
                   [accessToken |-> held[g], expiresAt |-> clock + ExpiresIn]]
    /\ writer' = None
    /\ Unlocked(g, held[g])
    /\ UNCHANGED <<clock, server>>

\* The response arrives: cache the token and unlock.
StoreToken(g) ==
    /\ pc[g] = "response"
    /\ cache' = [cache EXCEPT ![resource[g]] =
                   [accessToken |-> held[g], expiresAt |-> now[g] + ExpiresIn]]
    /\ writer' = None
    /\ Unlocked(g, held[g])
    /\ UNCHANGED <<clock, server>>

\* The caller gets the token: others may have had it revoked since the unlock.
ReturnToken(g) ==
    /\ pc[g] = "return"
    /\ Return(g, held[g])
    /\ returned' = returned \cup {held[g]}
    /\ UNCHANGED <<clock, server, cache, writer, revoked>>

\* Mutant: an early return that skips the unlock.
FetchFailsLocked(g) ==
    /\ pc[g] \in {"request", "response"}
    /\ Return(g, None)
    /\ UNCHANGED <<clock, server, cache, writer, historyVars>>

\* Mutant: the failed response is cached.
FetchFailsCached(g) ==
    /\ pc[g] \in {"request", "response"}
    /\ writer' = None
    /\ cache' = [cache EXCEPT ![resource[g]] =
                   [accessToken |-> None, expiresAt |-> now[g] + ExpiresIn]]
    /\ Return(g, None)
    /\ UNCHANGED <<clock, server, historyVars>>

\* The request or the response is lost, the server refuses or fails, the HTTP
\* client times out, the context is cancelled: unlock and return an error.  A
\* request that the server handles only afterwards leaves the same behind as one
\* whose response is lost: a token nobody knows of.
FetchFails(g) ==
    /\ pc[g] \in {"request", "response"}
    /\ writer' = None
    /\ Return(g, None)
    /\ UNCHANGED <<clock, server, cache, historyVars>>

-----------------------------------------------------------------------------
(* Revoke, of a token some GetToken returned.                              *)

BeginRevoke(g, t) ==
    /\ pc[g] = "idle"
    /\ t \in returned
    /\ Goto(g, "revokeRequest")
    /\ held'   = [held EXCEPT ![g] = t]
    /\ result' = [result EXCEPT ![g] = None]
    /\ UNCHANGED <<clock, server, cache, writer, resource, now, revokedBefore, historyVars>>

ServerRevokes(g) ==
    /\ pc[g] = "revokeRequest"
    /\ server' = [server EXCEPT ![held[g]].revoked = TRUE]
    /\ Goto(g, "revokeResponse")
    /\ UNCHANGED <<clock, cache, writer, callVars, historyVars>>

\* The status is 200.
RevokeAnswered(g) ==
    /\ pc[g] = "revokeResponse"
    /\ Goto(g, "evict")
    /\ UNCHANGED <<clock, server, cache, writer, callVars, historyVars>>

\* Mutant: one goes home without touching the cache.
EvictNothing(g) ==
    /\ pc[g] = "evict"
    /\ writer = None
    /\ revoked' = revoked \cup {held[g]}
    /\ Return(g, None)
    /\ UNCHANGED <<clock, server, cache, writer, returned>>

\* Under Lock, drop the token wherever it is cached.
Evict(g) ==
    /\ pc[g] = "evict"
    /\ writer = None
    /\ cache' = [r \in Resource |->
                   IF cache[r] # None /\ cache[r].accessToken = held[g]
                   THEN None ELSE cache[r]]
    /\ revoked' = revoked \cup {held[g]}
    /\ Return(g, None)
    /\ UNCHANGED <<clock, server, writer, returned>>

\* No 200, whether or not the server has revoked the token: the cache stays.
RevokeFails(g) ==
    /\ pc[g] \in {"revokeRequest", "revokeResponse"}
    /\ Return(g, None)
    /\ UNCHANGED <<clock, server, cache, writer, historyVars>>

-----------------------------------------------------------------------------
Next ==
    \/ Tick
    \/ \E g \in Goroutine :
         \/ \E r \in Resource : BeginGetToken(g, r)
         \/ ReadCache(g)
         \/ Lock(g)
         \/ \E t \in Token : ServerIssues(g, t)
         \/ StoreToken(g)
         \/ ReturnToken(g)
         \/ FetchFails(g)
         \/ \E t \in Token : BeginRevoke(g, t)
         \/ ServerRevokes(g)
         \/ RevokeAnswered(g)
         \/ Evict(g)
         \/ RevokeFails(g)

Spec == Init /\ [][Next]_vars

\* A runnable goroutine runs.  An HTTP call ends, http.Client.Timeout seeing to
\* it.  A sync.RWMutex is fair: a waiting writer keeps new readers out, the
\* readers that waited for a writer run when it unlocks, and a Mutex in
\* starvation mode goes to whoever waits longest.
Fairness ==
    \A g \in Goroutine :
        /\ SF_vars(ReadCache(g))
        /\ SF_vars(Lock(g))
        /\ SF_vars(Evict(g))
        /\ WF_vars(StoreToken(g) \/ FetchFails(g))
        /\ WF_vars(ReturnToken(g))
        /\ WF_vars(RevokeAnswered(g) \/ RevokeFails(g))

FairSpec == Spec /\ Fairness

-----------------------------------------------------------------------------
(* Properties.                                                             *)

\* The variables hold what the Go fields and locals can hold: in particular a
\* cache entry always has a token, and the lock is held by one goroutine.
TypeOK ==
    /\ clock \in Nat
    /\ server \in [Token -> Issued \cup {None}]
    /\ cache \in [Resource -> Entry \cup {None}]
    /\ writer \in Goroutine \cup {None}
    /\ pc \in [Goroutine -> Steps]
    /\ resource \in [Goroutine -> Resource \cup {None}]
    /\ now \in [Goroutine -> Nat]
    /\ held \in [Goroutine -> Token \cup {None}]
    /\ result \in [Goroutine -> Token \cup {None}]
    /\ revokedBefore \in [Goroutine -> SUBSET Token]
    /\ returned \subseteq Token
    /\ revoked \subseteq Token

\* A cached token is one the server issued for that very resource, and the
\* entry goes stale no later than the token expires at the server, however long
\* the lock wait, the request and the response took and however ExpiresIn was
\* rounded.
CacheHonest ==
    \A r \in Resource : cache[r] # None =>
        LET issued == server[cache[r].accessToken] IN
        /\ issued # None
        /\ issued.resource = r
        /\ cache[r].expiresAt <= issued.expiresAt

\* The double-checked lock: no goroutine is fetching a token for a resource
\* that has a fresh one in the cache, so that callers who missed together
\* fetch once.
NoRedundantFetch ==
    \A g \in Goroutine : pc[g] \in {"request", "response"} =>
        ~Fresh(cache[resource[g]], clock)

\* The goroutine's GetToken call ends in this step and returns t.
Serves(g, t) ==
    /\ pc[g] = "return"
    /\ pc'[g] = "idle"
    /\ result'[g] = t

\* What the expiry buffer is for: a GetToken call that takes no longer than the
\* buffer (or the life of a token, if that is shorter) returns a token for the
\* resource it was asked for that the server has not expired.
ServedInTimeIsAlive ==
    [][\A g \in Goroutine, t \in Token :
         Serves(g, t) /\ clock - now[g] <= ExpiryBuffer /\ clock - now[g] <= TokenTTL =>
             /\ server[t] # None
             /\ server[t].resource = resource[g]
             /\ clock <= server[t].expiresAt]_vars

\* Once Revoke has returned nil, no GetToken call that begins later returns the
\* token, whatever fetches and cache reads were under way while Revoke ran.  One
\* that began before may: it has let go of the lock when it returns.
RevokedNeverServed ==
    [][\A g \in Goroutine, t \in Token : Serves(g, t) => t \notin revokedBefore[g]]_vars

\* Every call returns: the lock that is held across an HTTP call is let go on
\* every path.
CallsReturn == \A g \in Goroutine : pc[g] # "idle" ~> pc[g] = "idle"

-----------------------------------------------------------------------------
(* What makes the properties inductive.                                    *)

\* The write lock is held exactly while its holder has a fetch under way.
LockHeld == \A g \in Goroutine : writer = g <=> pc[g] \in {"request", "response"}

\* What a call carries: its now is in the past, the token in the response is a
\* new one for its resource, the token to return was not revoked when the call
\* began and outlives the buffer, the token to revoke was returned by GetToken.
CallCoherent(g) ==
    /\ now[g] <= clock
    /\ revokedBefore[g] \subseteq revoked
    /\ pc[g] \in {"read", "lock", "request", "response", "return"} => resource[g] # None
    /\ pc[g] = "response" =>
          /\ held[g] # None /\ held[g] \notin returned
          /\ \A k \in Goroutine : pc[k] = "return" => held[k] # held[g]
          /\ server[held[g]] # None
          /\ server[held[g]].resource = resource[g]
          /\ now[g] + TokenTTL <= server[held[g]].expiresAt
    /\ pc[g] = "return" =>
          /\ held[g] # None /\ held[g] \notin revokedBefore[g]
          /\ server[held[g]] # None
          /\ server[held[g]].resource = resource[g]
          /\ \/ now[g] + TokenTTL <= server[held[g]].expiresAt
             \/ now[g] + ExpiryBuffer < server[held[g]].expiresAt
    /\ pc[g] \in {"revokeRequest", "revokeResponse", "evict"} => held[g] \in returned

CallsCoherent == \A g \in Goroutine : CallCoherent(g)

\* Tokens are revoked after they were returned, returned after they were
\* issued, and cached only between the two.
HistoryCoherent ==
    /\ revoked \subseteq returned
    /\ \A t \in returned : server[t] # None
    /\ \A r \in Resource : cache[r] # None => cache[r].accessToken \notin revoked

\* The inductive invariant: the lock, the calls under way, the histories and
\* the cache agree with one another, which every action relies on and keeps.
IInv ==
    /\ TypeOK
    /\ LockHeld
    /\ CallsCoherent
    /\ HistoryCoherent
    /\ CacheHonest
    /\ NoRedundantFetch

-----------------------------------------------------------------------------
(* What the comments of client.go say and the code does not keep.          *)

\* "GetToken returns a valid Opaque Token for the specified resource.  If a
\* non-expired cached token exists, it is returned; otherwise a new token is
\* fetched."
CachedTokenUnexpired ==
    [][\A g \in Goroutine, t \in Token :
         /\ pc[g] \in {"read", "lock"} /\ pc'[g] = "return"
         /\ held'[g] = t
         => clock <= server[t].expiresAt]_vars

\* The same comment: a token the server has revoked is not valid, and the only
\* revocations here are those the Client itself asks for.  With one goroutine,
\* the calls come one after the other.
ServedNotRevoked ==
    [][\A g \in Goroutine, t \in Token : Serves(g, t) => ~server[t].revoked]_vars

=============================================================================
