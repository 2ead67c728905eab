-------------------------- MODULE CertificateServer --------------------------
(***************************************************************************)
(* The sample resource server's ACME HTTP-01 API: Handler (handler.go) over *)
(* MemoryStore (store.go) of sample-server/internal/certificate, called    *)
(* from concurrent request goroutines.                                     *)
(*                                                                         *)
(* A handler makes up to three store calls, each a critical section of its *)
(* own, with nothing held between them: one action per critical section.   *)
(* Requests are those the middleware has let through; certID is the        *)
(* certificate of the URL, which the bearer token is for.  Domains and     *)
(* dates are left out: no decision is taken on them.                       *)
(***************************************************************************)
EXTENDS Integers

CONSTANTS
    Goroutine,      \* request goroutines of the HTTP server
    CertID,         \* certificate ids of the URLs
    ChallengeToken, \* ACME challenge tokens
    KeyAuth,        \* key authorizations
    None,           \* an absent map entry, an empty local
    MaxStarts       \* bound on the challenges provisioned, per token

ASSUME ConstantsAssumption == MaxStarts \in Nat

VARIABLES
    certificates,   \* MemoryStore.certificates: the status of each
    challenges,     \* MemoryStore.challenges, by token
    pc,             \* where each goroutine is
    certID,         \* c.Param("id") of its request
    challenge,      \* the token and key authorization of its request
    reply,          \* what the goroutine's last request was answered
    provisioned,    \* history: how often each token was provisioned
    consumed,       \* history: how often each token was consumed
    proven          \* history: certificates a completion consumed a challenge for

storeVars   == <<certificates, challenges>>
historyVars == <<provisioned, consumed, proven>>
vars == <<certificates, challenges, pc, certID, challenge, reply,
          provisioned, consumed, proven>>

-----------------------------------------------------------------------------
Status == {"pending", "issued"}

Challenge == [certificateID : CertID, keyAuthorization : KeyAuth]

Request == [token : ChallengeToken, keyAuthorization : KeyAuth \cup {None}]

Steps == {"idle", "find", "create", "provision", "consume", "load", "issue"}

Replies == {None, "created", "completed", "found", "pending", "issued",
            "invalid_request", "not_found", "internal_error"}

ASSUME NoneAssumption ==
    None \notin CertID /\ None \notin KeyAuth /\ None \notin Status
    /\ None \notin Challenge /\ None \notin Request

Init ==
    /\ certificates = [id \in CertID |-> None]
    /\ challenges   = [t \in ChallengeToken |-> None]
    /\ pc        = [g \in Goroutine |-> "idle"]
    /\ certID    = [g \in Goroutine |-> None]
    /\ challenge = [g \in Goroutine |-> None]
    /\ reply     = [g \in Goroutine |-> None]
    /\ provisioned = [t \in ChallengeToken |-> 0]
    /\ consumed    = [t \in ChallengeToken |-> 0]
    /\ proven      = {}

Goto(g, step) == pc' = [pc EXCEPT ![g] = step]

Answer(g, outcome) ==
    /\ Goto(g, "idle")
    /\ reply'     = [reply EXCEPT ![g] = outcome]
    /\ certID'    = [certID EXCEPT ![g] = None]
    /\ challenge' = [challenge EXCEPT ![g] = None]

\* A request for certificate id, the body of which is r, enters its handler.
Receive(g, id, r, step) ==
    /\ pc[g] = "idle"
    /\ Goto(g, step)
    /\ certID'    = [certID EXCEPT ![g] = id]
    /\ challenge' = [challenge EXCEPT ![g] = r]
    /\ reply'     = [reply EXCEPT ![g] = None]
    /\ UNCHANGED <<storeVars, historyVars>>

\* Malformed JSON, an id, token, domain or key authorization that is empty.
RefuseRequest(g) ==
    /\ pc[g] = "idle"
    /\ Answer(g, "invalid_request")
    /\ UNCHANGED <<storeVars, historyVars>>

-----------------------------------------------------------------------------
(* POST /v1/certificates/:id/challenges/http-01/start                      *)

StartChallenge(g, id, t, key) ==
    Receive(g, id, [token |-> t, keyAuthorization |-> key], "find")

\* Mutant: the certificate is created whether or not it is there.
FindCertificateCreates(g) ==
    /\ pc[g] = "find"
    /\ Goto(g, "create")
    /\ UNCHANGED <<storeVars, certID, challenge, reply, historyVars>>

\* Mutant: the challenge is provisioned without its certificate.
FindCertificateSkips(g) ==
    /\ pc[g] = "find"
    /\ Goto(g, "provision")
    /\ UNCHANGED <<storeVars, certID, challenge, reply, historyVars>>

FindCertificate(g) ==
    /\ pc[g] = "find"
    /\ Goto(g, IF certificates[certID[g]] = None THEN "create" ELSE "provision")
    /\ UNCHANGED <<storeVars, certID, challenge, reply, historyVars>>

\* SaveCertificate writes the pending record whatever is there by now.
CreatePending(g) ==
    /\ pc[g] = "create"
    /\ certificates' = [certificates EXCEPT ![certID[g]] = "pending"]
    /\ Goto(g, "provision")
    /\ UNCHANGED <<challenges, certID, challenge, reply, historyVars>>

\* Mutant: the challenge does not say which certificate it is for.
SaveChallengeAnonymous(g) ==
    /\ pc[g] = "provision"
    /\ LET t == challenge[g].token IN
       /\ provisioned[t] < MaxStarts
       /\ challenges' = [challenges EXCEPT ![t] =
                           [certificateID |-> None,
                            keyAuthorization |-> challenge[g].keyAuthorization]]
       /\ provisioned' = [provisioned EXCEPT ![t] = @ + 1]
    /\ Answer(g, "created")
    /\ UNCHANGED <<certificates, consumed, proven>>

SaveChallenge(g) ==
    /\ pc[g] = "provision"
    /\ LET t == challenge[g].token IN
       /\ provisioned[t] < MaxStarts
       /\ challenges' = [challenges EXCEPT ![t] =
                           [certificateID |-> certID[g],
                            keyAuthorization |-> challenge[g].keyAuthorization]]
       /\ provisioned' = [provisioned EXCEPT ![t] = @ + 1]
    /\ Answer(g, "created")
    /\ UNCHANGED <<certificates, consumed, proven>>

-----------------------------------------------------------------------------
(* POST /v1/certificates/:id/challenges/http-01/complete                   *)

CompleteChallenge(g, id, t) ==
    Receive(g, id, [token |-> t, keyAuthorization |-> None], "consume")

\* Mutant: a challenge that is not there is deleted all the same.
DeleteChallengeUnchecked(g) ==
    /\ pc[g] = "consume"
    /\ challenges' = [challenges EXCEPT ![challenge[g].token] = None]
    /\ consumed' = [consumed EXCEPT ![challenge[g].token] = @ + 1]
    /\ proven' = proven \cup {certID[g]}
    /\ Goto(g, "load")
    /\ UNCHANGED <<certificates, certID, challenge, reply, provisioned>>

\* Mutant: the error of DeleteChallenge is ignored.
DeleteChallengeIgnored(g) ==
    /\ pc[g] = "consume"
    /\ LET t == challenge[g].token IN
       \/ /\ challenges[t] # None
          /\ challenges' = [challenges EXCEPT ![t] = None]
          /\ consumed' = [consumed EXCEPT ![t] = @ + 1]
          /\ proven' = proven \cup {certID[g]}
       \/ /\ challenges[t] = None
          /\ UNCHANGED <<challenges, consumed, proven>>
    /\ Goto(g, "load")
    /\ UNCHANGED <<certificates, certID, challenge, reply, provisioned>>

\* By token alone: which certificate the challenge was started for is not looked at.
DeleteChallenge(g) ==
    /\ pc[g] = "consume"
    /\ LET t == challenge[g].token IN
       \/ /\ challenges[t] # None
          /\ challenges' = [challenges EXCEPT ![t] = None]
          /\ consumed' = [consumed EXCEPT ![t] = @ + 1]
          /\ proven' = proven \cup {certID[g]}
          /\ Goto(g, "load")
          /\ UNCHANGED <<certID, challenge, reply>>
       \/ /\ challenges[t] = None
          /\ Answer(g, "not_found")
          /\ UNCHANGED <<challenges, consumed, proven>>
    /\ UNCHANGED <<certificates, provisioned>>

LoadCertificate(g) ==
    /\ pc[g] = "load"
    /\ \/ /\ certificates[certID[g]] # None
          /\ Goto(g, "issue")
          /\ UNCHANGED <<certID, challenge, reply>>
       \/ /\ certificates[certID[g]] = None
          /\ Answer(g, "not_found")
    /\ UNCHANGED <<storeVars, historyVars>>

IssueCertificate(g) ==
    /\ pc[g] = "issue"
    /\ certificates' = [certificates EXCEPT ![certID[g]] = "issued"]
    /\ Answer(g, "completed")
    /\ UNCHANGED <<challenges, historyVars>>

-----------------------------------------------------------------------------
(* The two reads, each one critical section.                               *)

\* GET /v1/certificates/:id: the record, of which the status is what matters.
GetCertificate(g, id) ==
    /\ pc[g] = "idle"
    /\ Answer(g, IF certificates[id] # None THEN certificates[id] ELSE "not_found")
    /\ UNCHANGED <<storeVars, historyVars>>

\* GET /.well-known/acme-challenge/:token: the key authorization, if there is one.
ServeACMEChallenge(g, t) ==
    /\ pc[g] = "idle"
    /\ Answer(g, IF challenges[t] # None THEN "found" ELSE "not_found")
    /\ UNCHANGED <<storeVars, historyVars>>

-----------------------------------------------------------------------------
\* The Store interface may answer any call with an error of its own: one of the
\* handler under way or, of an idle goroutine, the one call of either read.
StoreFails(g) ==
    /\ Answer(g, "internal_error")
    /\ UNCHANGED <<storeVars, historyVars>>

Next ==
    \E g \in Goroutine :
        \/ RefuseRequest(g)
        \/ \E id \in CertID, t \in ChallengeToken, key \in KeyAuth : StartChallenge(g, id, t, key)
        \/ FindCertificate(g)
        \/ CreatePending(g)
        \/ SaveChallenge(g)
        \/ \E id \in CertID, t \in ChallengeToken : CompleteChallenge(g, id, t)
        \/ DeleteChallenge(g)
        \/ LoadCertificate(g)
        \/ IssueCertificate(g)
        \/ \E id \in CertID : GetCertificate(g, id)
        \/ \E t \in ChallengeToken : ServeACMEChallenge(g, t)
        \/ StoreFails(g)

Spec == Init /\ [][Next]_vars

-----------------------------------------------------------------------------
(* Properties.                                                             *)

\* The variables hold what the maps and the locals can hold.
TypeOK ==
    /\ certificates \in [CertID -> Status \cup {None}]
    /\ challenges \in [ChallengeToken -> Challenge \cup {None}]
    /\ pc \in [Goroutine -> Steps]
    /\ certID \in [Goroutine -> CertID \cup {None}]
    /\ challenge \in [Goroutine -> Request \cup {None}]
    /\ reply \in [Goroutine -> Replies]
    /\ provisioned \in [ChallengeToken -> Nat]
    /\ consumed \in [ChallengeToken -> Nat]
    /\ proven \subseteq CertID

\* The ACME server is never shown a challenge for a certificate the server does
\* not know, at any point between the store calls of any handlers.
ChallengeHasCertificate ==
    \A t \in ChallengeToken : challenges[t] # None =>
        certificates[challenges[t].certificateID] # None

\* Of the CompleteChallenge requests that race for a challenge, and the
\* StartChallenge requests that provision it again, no two consume the same
\* provisioning.
ConsumedOnce ==
    \A t \in ChallengeToken :
        consumed[t] + (IF challenges[t] # None THEN 1 ELSE 0) <= provisioned[t]

\* A certificate is issued only on the strength of a challenge: some request
\* for it has found one and consumed it, which no other request can have done.
IssuedByChallenge ==
    \A id \in CertID : certificates[id] = "issued" => id \in proven

\* What makes them inductive: the certificate a handler is about to provision a
\* challenge for exists, the one it is about to issue exists and is proven.
HandlersCoherent ==
    \A g \in Goroutine :
        /\ pc[g] # "idle" => certID[g] # None /\ challenge[g] # None
        /\ pc[g] \in {"find", "create", "provision"} => challenge[g].keyAuthorization # None
        /\ pc[g] \in {"provision", "issue"} => certificates[certID[g]] # None
        /\ pc[g] \in {"load", "issue"} => certID[g] \in proven

\* The inductive invariant: what the handlers hold between two store calls
\* still agrees with the store when they make the next.
IInv ==
    /\ TypeOK
    /\ HandlersCoherent
    /\ ChallengeHasCertificate
    /\ ConsumedOnce
    /\ IssuedByChallenge

\* Certificate id is issued, and no start that missed its record is still about
\* to write one.
Settled(id) ==
    /\ certificates[id] = "issued"
    /\ \A g \in Goroutine : pc[g] = "create" => certID[g] # id

\* A settled certificate is settled for good, whatever challenges are started
\* and completed for it from then on.  With one request at a time, every issued
\* certificate is settled.
SettledForGood == [][\A id \in CertID : Settled(id) => Settled(id)']_vars

-----------------------------------------------------------------------------
(* What holds of settled certificates only, and what does not hold.        *)

\* "Ensure certificate record exists or create pending": starting a challenge
\* does not replace the record of a certificate that has been issued.
IssuedStaysIssued ==
    [][\A id \in CertID : certificates[id] = "issued" => certificates'[id] = "issued"]_vars

\* The documented rule that the placing and deleting of challenges is open only
\* to the token of the certificate concerned: the request that deletes a
\* challenge is for the certificate the challenge was started for.
DeletedByItsCertificate ==
    [][\A g \in Goroutine, t \in ChallengeToken :
         /\ pc[g] = "consume" /\ pc'[g] # "consume"
         /\ challenges[t] # None /\ challenges'[t] = None
         => challenges[t].certificateID = certID[g]]_vars

=============================================================================
