----------------------------- MODULE ClientSession -----------------------------
(***************************************************************************)
(* The SDK and the server together: goroutines that send API requests      *)
(* through Transport.RoundTrip (pkg/oauth2/client/transport.go) of one     *)
(* Client, whose cache is TokenCache, to a server that honours a token as  *)
(* ValidateToken does.  Behind the Client's back the server restarts and   *)
(* with its in-memory stores loses every token and every client            *)
(* (sample-server/main.go), and someone else revokes a token.  RoundTrip   *)
(* does not look at the answer: a 401 leaves the cache as it is.           *)
(***************************************************************************)
EXTENDS TokenCache

VARIABLES
    registered,     \* the server knows the Client's credentials
    drawn,          \* the tokens ever issued, which crypto/rand does not repeat
    lostAt,         \* history: when the server first stopped honouring a token
    trip,           \* the resource a RoundTrip under way asks for
    began,          \* history: when the RoundTrip began
    answer          \* how the goroutine's last RoundTrip ended

\* lostAt tells a time from no time.
ASSUME TimeAssumption == None \notin Nat

sessionVars == <<registered, drawn, lostAt, trip, began, answer>>
allVars == <<clock, server, cache, writer, pc, resource, now, held, result,
             revokedBefore, returned, revoked, registered, drawn, lostAt, trip, began, answer>>

SessionInit ==
    /\ Init
    /\ registered = TRUE
    /\ drawn  = {}
    /\ lostAt = [t \in Token |-> None]
    /\ trip   = [g \in Goroutine |-> None]
    /\ began  = [g \in Goroutine |-> 0]
    /\ answer = [g \in Goroutine |-> None]

-----------------------------------------------------------------------------
(* RoundTrip: GetToken, then the request with the token in its header.     *)

BeginRoundTrip(g, r) ==
    /\ trip[g] = None
    /\ BeginGetToken(g, r)
    /\ trip'   = [trip EXCEPT ![g] = r]
    /\ began'  = [began EXCEPT ![g] = clock]
    /\ answer' = [answer EXCEPT ![g] = None]
    /\ UNCHANGED <<registered, drawn, lostAt>>

\* The steps of GetToken in which the server has no part.
GetTokenStep(g) ==
    /\ ReadCache(g) \/ Lock(g) \/ StoreToken(g) \/ ReturnToken(g) \/ FetchFails(g)
    /\ UNCHANGED sessionVars

\* Mutant: a generator that starts over with the process.
IssueTokenSeeded(g, t) ==
    /\ registered
    /\ ServerIssues(g, t)
    /\ drawn' = drawn \cup {t}
    /\ UNCHANGED <<registered, lostAt, trip, began, answer>>

\* The server knows the client and draws a token it has never drawn.
IssueToken(g, t) ==
    /\ registered
    /\ t \notin drawn
    /\ ServerIssues(g, t)
    /\ drawn' = drawn \cup {t}
    /\ UNCHANGED <<registered, lostAt, trip, began, answer>>

\* ValidateToken: the server has the token, unrevoked and unexpired.
Honoured(t) == server[t] # None /\ ~server[t].revoked /\ clock <= server[t].expiresAt

EndRoundTrip(g, a) ==
    /\ trip[g] # None /\ pc[g] = "idle"
    /\ trip'   = [trip EXCEPT ![g] = None]
    /\ began'  = [began EXCEPT ![g] = 0]
    /\ answer' = [answer EXCEPT ![g] = a]
    /\ result' = [result EXCEPT ![g] = None]
    /\ UNCHANGED <<clock, server, cache, writer, pc, resource, now, held, revokedBefore,
                   historyVars, registered, drawn, lostAt>>

\* The request reaches the API, which lets it in or answers 401.
Send(g) ==
    /\ result[g] # None
    /\ EndRoundTrip(g, IF Honoured(result[g]) THEN "ok" ELSE "unauthorized")

\* GetToken failed, or the request or its answer is lost.
TripFails(g) == EndRoundTrip(g, "error")

-----------------------------------------------------------------------------
(* Behind the Client's back.                                               *)

Lose(lost) ==
    lostAt' = [t \in Token |-> IF t \in lost /\ lostAt[t] = None THEN clock ELSE lostAt[t]]

Restart ==
    /\ registered
    /\ server' = [t \in Token |-> None]
    /\ registered' = FALSE
    /\ Lose({t \in Token : server[t] # None})
    /\ UNCHANGED <<clock, cache, writer, pc, callVars, historyVars, drawn, trip, began, answer>>

RevokeElsewhere(t) ==
    /\ server[t] # None /\ ~server[t].revoked
    /\ server' = [server EXCEPT ![t].revoked = TRUE]
    /\ Lose({t})
    /\ UNCHANGED <<clock, cache, writer, pc, callVars, historyVars,
                   registered, drawn, trip, began, answer>>

\* A client_id is not given twice: someone registers anew and makes a new
\* Client for the credentials, with an empty cache.
Reregister ==
    /\ ~registered
    /\ \A g \in Goroutine : trip[g] = None
    /\ registered' = TRUE
    /\ cache' = [r \in Resource |-> None]
    /\ UNCHANGED <<clock, server, writer, pc, callVars, historyVars,
                   drawn, lostAt, trip, began, answer>>

SessionNext ==
    \/ Tick /\ UNCHANGED sessionVars
    \/ \E g \in Goroutine :
         \/ \E r \in Resource : BeginRoundTrip(g, r)
         \/ GetTokenStep(g)
         \/ \E t \in Token : IssueToken(g, t)
         \/ Send(g)
         \/ TripFails(g)
    \/ Restart
    \/ \E t \in Token : RevokeElsewhere(t)
    \/ Reregister

SessionSpec == SessionInit /\ [][SessionNext]_allVars

-----------------------------------------------------------------------------
(* Properties.                                                             *)

\* g's RoundTrip ends in this step, its token t refused.
Refused(g, t) ==
    /\ trip[g] # None /\ trip'[g] = None
    /\ result[g] = t
    /\ answer'[g] = "unauthorized"

\* An API request is answered 401 only for one of two reasons: it took longer
\* than the expiry buffer (or the life of a token), or the server lost the
\* token behind the Client's back and the request began before that, or so soon
\* after that the cache still had the token for fresh.  So whatever restarts
\* and revocations there are, a lost token is out of use ExpiresIn - ExpiryBuffer
\* later, though RoundTrip never drops a token for a 401.
RefusalsExplained ==
    [][\A g \in Goroutine, t \in Token : Refused(g, t) =>
         \/ clock - began[g] > ExpiryBuffer
         \/ clock - began[g] > TokenTTL
         \/ /\ lostAt[t] # None
            /\ \/ began[g] <= lostAt[t]
               \/ began[g] + ExpiryBuffer < lostAt[t] + ExpiresIn]_allVars

\* After a restart no API request succeeds until someone registers the client
\* again: no token of before comes back to life, and none can be fetched.
NothingSurvivesRestart ==
    [][\A g \in Goroutine : trip[g] # None /\ trip'[g] = None /\ answer'[g] = "ok" =>
         registered /\ lostAt[result[g]] = None]_allVars

-----------------------------------------------------------------------------
(* What makes the properties inductive.                                    *)

SessionTypeOK ==
    /\ TypeOK
    /\ registered \in BOOLEAN
    /\ drawn \subseteq Token
    /\ lostAt \in [Token -> Nat \cup {None}]
    /\ trip \in [Goroutine -> Resource \cup {None}]
    /\ began \in [Goroutine -> Nat]
    /\ answer \in [Goroutine -> {None, "ok", "unauthorized", "error"}]

\* The server has what it drew until it loses it, does not honour it again, and
\* has nothing while it does not know the client.
TokensAccounted ==
    \A t \in Token :
        /\ server[t] # None => registered /\ t \in drawn
        /\ t \in drawn /\ lostAt[t] = None => server[t] # None /\ ~server[t].revoked
        /\ lostAt[t] # None =>
              t \in drawn /\ lostAt[t] <= clock /\ (server[t] = None \/ server[t].revoked)

\* A call that began at n may have fetched t: t lives its whole life from n on,
\* or was lost at n or later.
NewFor(t, n) ==
    /\ t \in drawn
    /\ lostAt[t] = None  => n + TokenTTL <= server[t].expiresAt
    /\ lostAt[t] # None => n <= lostAt[t]

\* The cache may have t until e: t lives until then, or was lost no more than
\* ExpiresIn before.
BackedUntil(t, e) ==
    /\ t \in drawn
    /\ lostAt[t] = None  => e <= server[t].expiresAt
    /\ lostAt[t] # None => e <= lostAt[t] + ExpiresIn

CacheBacked ==
    \A r \in Resource : cache[r] # None =>
        /\ cache[r].expiresAt <= clock + ExpiresIn
        /\ BackedUntil(cache[r].accessToken, cache[r].expiresAt)

\* What justifies a token in a request that began at n: fetched, or found fresh.
Justified(t, n) == NewFor(t, n) \/ BackedUntil(t, n + ExpiryBuffer + 1)

\* A RoundTrip in GetToken carries the time it began, and the token it fetched
\* or found fresh goes into one request only.
TripCoherent(g) ==
    /\ now[g] <= clock /\ began[g] <= clock
    /\ pc[g] # "idle" =>
          /\ pc[g] \in {"read", "lock", "request", "response", "return"}
          /\ trip[g] # None /\ resource[g] = trip[g] /\ now[g] = began[g]
          /\ result[g] = None
    /\ pc[g] = "response" => held[g] # None /\ NewFor(held[g], now[g])
    /\ pc[g] = "return" => held[g] # None /\ Justified(held[g], now[g])
    /\ result[g] # None => trip[g] # None /\ Justified(result[g], began[g])

TripsCoherent == \A g \in Goroutine : TripCoherent(g)

\* The inductive invariant: what the server lost, what the cache still holds and
\* what the requests under way carry bound one another in time.
SessionIInv ==
    /\ SessionTypeOK
    /\ TokensAccounted
    /\ CacheBacked
    /\ TripsCoherent

=============================================================================
