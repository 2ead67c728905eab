---------------------------- MODULE TokenRegistry ----------------------------
(***************************************************************************)
(* What the authorization server of pkg/oauth2 promises about tokens,      *)
(* without its store, its locks and its copies.  A token is issued once,   *)
(* for good; revoking it is one step; validating it takes time, and says   *)
(* what the answer may be when a revocation or the expiry comes meanwhile. *)
(* OAuthService implements this specification (ImplementsRegistry there),  *)
(* and ProtectedAPI builds on it.                                          *)
(***************************************************************************)
EXTENDS Integers

CONSTANTS
    Caller,         \* goroutines that call the service
    RawToken,       \* the opaque tokens
    ClientID,
    AbsoluteURI,    \* resources a token can be bound to
    ScopeString,    \* scopes a token can carry
    None            \* no grant, no token, no verdict

VARIABLES
    grant,          \* what each token grants, None until it is issued
    revoked,        \* the tokens whose revocation was acknowledged
    now,            \* the time
    asked,          \* the token each caller is having validated
    barred,         \* that token was revoked before the caller asked
    verdict         \* what the caller's last validation said

registryVars == <<grant, revoked, now, asked, barred, verdict>>

Grant ==
    [client : ClientID, resource : AbsoluteURI \cup {None},
     scope : ScopeString, expiresAt : Nat]

Refusals == {"token_not_found", "token_revoked", "token_expired", "server_error"}
Verdicts == {None, "valid"} \cup Refusals

RegistryInit ==
    /\ grant   = [t \in RawToken |-> None]
    /\ revoked = {}
    /\ now     = 0
    /\ asked   = [c \in Caller |-> None]
    /\ barred  = [c \in Caller |-> FALSE]
    /\ verdict = [c \in Caller |-> None]

\* Caller c is done with its call.
Conclude(c, v) ==
    /\ asked'   = [asked EXCEPT ![c] = None]
    /\ barred'  = [barred EXCEPT ![c] = FALSE]
    /\ verdict' = [verdict EXCEPT ![c] = v]

Advance ==
    /\ now' = now + 1
    /\ UNCHANGED <<grant, revoked, asked, barred, verdict>>

\* A token is issued at most once.
Issue(c, t, granted) ==
    /\ asked[c] = None
    /\ grant[t] = None
    /\ granted \in Grant
    /\ grant' = [grant EXCEPT ![t] = granted]
    /\ Conclude(c, None)
    /\ UNCHANGED <<revoked, now>>

\* A token is revoked for good, one that was never issued too.
Revoke(c, t) ==
    /\ asked[c] = None
    /\ revoked' = revoked \cup {t}
    /\ Conclude(c, None)
    /\ UNCHANGED <<grant, now>>

Ask(c, t) ==
    /\ asked[c] = None
    /\ asked'   = [asked EXCEPT ![c] = t]
    /\ barred'  = [barred EXCEPT ![c] = t \in revoked]
    /\ verdict' = [verdict EXCEPT ![c] = None]
    /\ UNCHANGED <<grant, revoked, now>>

\* Mutant: a token is accepted although it was revoked before the call.
MayAcceptRevoked(c) == grant[asked[c]] # None /\ now <= grant[asked[c]].expiresAt

\* A token is accepted only if it is alive and was not revoked when the caller
\* asked; a revocation that overlaps the call may come too late for it.
MayAccept(c) ==
    /\ ~barred[c]
    /\ grant[asked[c]] # None
    /\ now <= grant[asked[c]].expiresAt

Accept(c) ==
    /\ asked[c] # None
    /\ MayAccept(c)
    /\ Conclude(c, "valid")
    /\ UNCHANGED <<grant, revoked, now>>

\* The reason of a refusal is true, but for a store that may fail any time.
MayRefuse(c, why) ==
    \/ why = "token_not_found" /\ grant[asked[c]] = None
    \/ why = "token_revoked"   /\ asked[c] \in revoked
    \/ /\ why = "token_expired"
       /\ ~barred[c]
       /\ grant[asked[c]] # None
       /\ now > grant[asked[c]].expiresAt
    \/ why = "server_error"

Refuse(c, why) ==
    /\ asked[c] # None
    /\ MayRefuse(c, why)
    /\ Conclude(c, why)
    /\ UNCHANGED <<grant, revoked, now>>

\* The caller does something that is not about tokens, or its call fails.
Proceed(c, v) ==
    /\ asked[c] = None
    /\ Conclude(c, v)
    /\ UNCHANGED <<grant, revoked, now>>

RegistryNext ==
    \/ Advance
    \/ \E c \in Caller :
         \/ \E t \in RawToken : Issue(c, t, grant'[t]) \/ Revoke(c, t) \/ Ask(c, t)
         \/ Accept(c)
         \/ \E why \in Refusals : Refuse(c, why)
         \/ \E v \in {None, "server_error"} : Proceed(c, v)

RegistrySpec == RegistryInit /\ [][RegistryNext]_registryVars

=============================================================================
