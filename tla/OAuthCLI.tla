------------------------------- MODULE OAuthCLI -------------------------------
(***************************************************************************)
(* oauth-cli (cmd/oauth-cli/main.go) against the sample server: how a      *)
(* resource URI is put together on the two sides, and what that lets a     *)
(* command do.  Each command is a process of its own that makes at most    *)
(* two HTTP calls and keeps nothing, so it is one action here; what may    *)
(* happen between the two calls is in ClientSession.  A URI is its scheme  *)
(* and host, the segments of its path, and whether it has a query or a     *)
(* fragment; None is the empty string.  Scopes are left out: fetchToken    *)
(* sends none, and no route of the sample server requires one.             *)
(***************************************************************************)
EXTENDS Sequences, Naturals

CONSTANTS
    ClientID, CertID, RawToken,
    Origin,         \* scheme and host
    Segment,        \* path segments
    None,           \* "", nothing
    ResourceBase,   \* the server's RESOURCE_BASE_URL
    ServerURL,      \* values of --server-url that reach the server
    BaseURL,        \* values of --resource-base-url
    ResourceArg,    \* values of --resource, of call and token
    ResourcesArg,   \* values of --resources: the items between the commas
    PathArg         \* values of --path, with or without a query

VARIABLES
    clients,        \* the allowed resources of each client, None before
    tokens,         \* the tokens that `token` printed
    revoker,        \* history: who had each token revoked
    touched,        \* history: the certificates each client's requests got to
    outcome         \* the last command, as its operator saw it

vars == <<clients, tokens, revoker, touched, outcome>>

URI == [origin : Origin \cup {None}, path : Seq(Segment), query : BOOLEAN, fragment : BOOLEAN]
Base == [origin : Origin \cup {None}, path : Seq(Segment), slashes : Nat]

CertPath(id)  == <<"v1", "certificates", id>>
Start         == <<"challenges", "http-01", "start">>
Complete      == <<"challenges", "http-01", "complete">>
ProtectedPath(id) == {CertPath(id), CertPath(id) \o Start, CertPath(id) \o Complete}

ASSUME CLIAssumption ==
    /\ CertID \cup {"", "v1", "certificates", "challenges", "http-01", "start", "complete"}
          \subseteq Segment
    /\ None \notin Origin /\ None \notin URI /\ None \notin Base
    /\ None \notin CertID
    /\ ResourceBase \in Base /\ ResourceBase.origin # None
    /\ ServerURL \subseteq Base /\ \A s \in ServerURL : s.path = <<>> /\ s.origin # None
    /\ BaseURL \subseteq Base
    /\ ResourceArg \subseteq URI \cup {None}
    /\ ResourcesArg \subseteq SUBSET (URI \cup {None})
    /\ PathArg \subseteq [path : Seq(Segment), query : BOOLEAN]

-----------------------------------------------------------------------------
(* URIs.                                                                   *)

\* Mutant: the slashes at the end of a base URL are kept.
JoinUntrimmed(base, path) ==
    [origin |-> base.origin, path |-> base.path \o [i \in 1..base.slashes |-> ""] \o path,
     query |-> FALSE, fragment |-> FALSE]

\* strings.TrimRight(base, "/") + path.
Join(base, path) ==
    [origin |-> base.origin, path |-> base.path \o path, query |-> FALSE, fragment |-> FALSE]

ValidateAbsoluteURI(u) == u # None /\ u.origin # None /\ ~u.fragment

\* RoundTrip: the override, or the URL without its query.
TransportResource(override, url) ==
    IF override # None THEN override ELSE [url EXCEPT !.query = FALSE, !.fragment = FALSE]

-----------------------------------------------------------------------------
(* The server's side.                                                      *)

resourceExtractor(id) == Join(ResourceBase, CertPath(id))

\* Mutant: a limited client may leave the resource out.
IssuedUnbound(c, right, r) ==
    /\ r # None => ValidateAbsoluteURI(r)
    /\ clients[c] # None /\ right
    /\ clients[c] # {} /\ r # None => r \in clients[c]

\* IssueToken, for client c with the right secret or a wrong one.
Issued(c, right, r) ==
    /\ r # None => ValidateAbsoluteURI(r)
    /\ clients[c] # None /\ right
    /\ clients[c] # {} => r \in clients[c]

\* RequireResource, for a token bound to r.
Admits(r, id) == r # None => r = resourceExtractor(id)

\* The route of a protected handler, None if there is none; --method is taken to
\* be the one of the route.
Route(path) ==
    IF \E id \in CertID : path \in ProtectedPath(id)
    THEN CHOOSE id \in CertID : path \in ProtectedPath(id)
    ELSE None

-----------------------------------------------------------------------------
(* The commands.                                                           *)

\* A command of client c, with the right secret or a wrong one, about the path
\* of a request, whose resource is under base.
Command(kind, c, right, base, path, status) ==
    [kind |-> kind, client |-> c, right |-> right, base |-> base, path |-> path,
     status |-> status]

Report(kind, status) == outcome' = Command(kind, None, FALSE, None, <<>>, status)

\* Mutant: the server takes any string for a resource.
RegistrableAny(resources) == TRUE

Registrable(resources) == \A r \in resources : ValidateAbsoluteURI(r)

\* Blank items are dropped; a list of nothing else is an empty list, which
\* limits the client to nothing in particular.
Register(c, items) ==
    LET resources == items \ {None} IN
    /\ clients[c] = None
    /\ \/ /\ Registrable(resources)
          /\ clients' = [clients EXCEPT ![c] = resources]
          /\ Report("register", "registered")
       \/ /\ ~Registrable(resources)
          /\ Report("register", "refused")
          /\ UNCHANGED clients
    /\ UNCHANGED <<tokens, revoker, touched>>

Token(c, right, r, t) ==
    /\ tokens[t] = None
    /\ \/ /\ Issued(c, right, r)
          /\ tokens' = [tokens EXCEPT ![t] = [client |-> c, resource |-> r, live |-> TRUE]]
          /\ Report("token", "printed")
       \/ /\ ~Issued(c, right, r)
          /\ Report("token", "refused")
          /\ UNCHANGED tokens
    /\ UNCHANGED <<clients, revoker, touched>>

Touch(c, id) == touched' = touched \cup {<<c, id>>}

\* Client.Do: a token for the resource, then the request with it.  The token
\* is new, since so is the process.
Do(kind, c, right, base, override, url) ==
    LET r  == TransportResource(override, url)
        id == Route(url.path)
        Ends(status) == outcome' = Command(kind, c, right, base, url.path, status)
    IN
    /\ \/ ~Issued(c, right, r) /\ Ends("refused") /\ UNCHANGED touched
       \/ /\ Issued(c, right, r)
          /\ \/ id = None /\ Ends("not found") /\ UNCHANGED touched
             \/ id # None /\ Admits(r, id) /\ Ends("handled") /\ Touch(c, id)
             \/ id # None /\ ~Admits(r, id) /\ Ends("forbidden") /\ UNCHANGED touched
    /\ UNCHANGED <<clients, tokens, revoker>>

CertCommand(c, right, server, base, id, suffix) ==
    Do("certificate", c, right, base,
       Join(base, CertPath(id)), Join(server, CertPath(id) \o suffix))

ChallengeStart(c, right, server, base, id)    == CertCommand(c, right, server, base, id, Start)
ChallengeComplete(c, right, server, base, id) == CertCommand(c, right, server, base, id, Complete)
GetCert(c, right, server, base, id)           == CertCommand(c, right, server, base, id, <<>>)

\* call, with --resource or, without, transparently.
Call(c, right, server, p, override) ==
    Do(IF override = None THEN "transparent" ELSE "call", c, right, server,
       override, [Join(server, p.path) EXCEPT !.query = p.query])

Live(t) == tokens[t] # None /\ tokens[t].live

\* The handler of POST /oauth/introspect looks at no credentials.
Introspect(t) ==
    /\ Report("introspect", IF Live(t) THEN "active" ELSE "inactive")
    /\ UNCHANGED <<clients, tokens, revoker, touched>>

\* Nor does that of POST /oauth/revoke.
Revoke(c, right, t) ==
    /\ Report("revoke", "revoked")
    /\ \/ /\ tokens[t] = None
          /\ UNCHANGED <<tokens, revoker>>
       \/ /\ tokens[t] # None
          /\ tokens'  = [tokens EXCEPT ![t].live = FALSE]
          /\ revoker' = [revoker EXCEPT ![t] =
                            IF clients[c] # None /\ right THEN "client" ELSE "other"]
    /\ UNCHANGED <<clients, touched>>

-----------------------------------------------------------------------------
(* Outside the commands.                                                   *)

\* A request with a token that was printed, by whatever HTTP client.
PresentToken(t, id) ==
    /\ Live(t)
    /\ Admits(tokens[t].resource, id)
    /\ Touch(tokens[t].client, id)
    /\ Report("request", "handled")
    /\ UNCHANGED <<clients, tokens, revoker>>

Expire(t) ==
    /\ Live(t)
    /\ tokens' = [tokens EXCEPT ![t].live = FALSE]
    /\ UNCHANGED <<clients, revoker, touched, outcome>>

Init ==
    /\ clients = [c \in ClientID |-> None]
    /\ tokens  = [t \in RawToken |-> None]
    /\ revoker = [t \in RawToken |-> None]
    /\ touched = {}
    /\ outcome = Command(None, None, FALSE, None, <<>>, None)

Next ==
    \/ \E c \in ClientID, items \in ResourcesArg : Register(c, items)
    \/ \E c \in ClientID, right \in BOOLEAN :
         \/ \E r \in ResourceArg, t \in RawToken : Token(c, right, r, t)
         \/ \E server \in ServerURL, base \in BaseURL, id \in CertID :
              \/ ChallengeStart(c, right, server, base, id)
              \/ ChallengeComplete(c, right, server, base, id)
              \/ GetCert(c, right, server, base, id)
         \/ \E server \in ServerURL, p \in PathArg, override \in ResourceArg :
              Call(c, right, server, p, override)
         \/ \E t \in RawToken : Revoke(c, right, t)
    \/ \E t \in RawToken : Introspect(t) \/ Expire(t)
    \/ \E t \in RawToken, id \in CertID : PresentToken(t, id)

Spec == Init /\ [][Next]_vars

-----------------------------------------------------------------------------
(* Properties.                                                             *)

\* What is stored and printed; a client's resources are absolute URIs.
TypeOK ==
    /\ clients \in [ClientID -> {None} \cup SUBSET {u \in URI : ValidateAbsoluteURI(u)}]
    /\ tokens \in [RawToken -> {None} \cup
                     [client : ClientID, resource : URI \cup {None}, live : BOOLEAN]]
    /\ revoker \in [RawToken -> {None, "client", "other"}]
    /\ touched \subseteq ClientID \X CertID
    /\ outcome.client \in ClientID \cup {None}
    /\ outcome.base \in Base \cup {None}

\* A client that was registered for some resources gets to no certificate whose
\* URI, as the server builds it, is not one of them, whatever the operator gives
\* for --resource, --resource-base-url, --server-url and --path, and whoever
\* uses the tokens that were printed for it.
BoundClientsConfined ==
    \A c \in ClientID, id \in CertID : <<c, id>> \in touched =>
        clients[c] # None /\ (clients[c] # {} => resourceExtractor(id) \in clients[c])

\* The client of the last command may use the certificate the command is about,
\* and the base URL it was given is the server's, but for slashes at the end.
Entitled(o) ==
    /\ Route(o.path) # None
    /\ o.right /\ clients[o.client] # None
    /\ clients[o.client] # {} => resourceExtractor(Route(o.path)) \in clients[o.client]
    /\ o.base.origin = ResourceBase.origin /\ o.base.path = ResourceBase.path

\* A certificate command, or `call` without --resource for the certificate.
AboutCertificate(o) ==
    \/ o.kind = "certificate"
    \/ o.kind = "transparent" /\ o.path = CertPath(Route(o.path))

\* The two sides agree on the URI: a command about a certificate, of an entitled
\* client, reaches its handler, with whatever slashes on either side and with or
\* without a query.
CommandsReach ==
    AboutCertificate(outcome) /\ Entitled(outcome) => outcome.status = "handled"

\* What makes confinement inductive: a printed token is within what its client
\* is registered for.
TokensBound ==
    \A t \in RawToken : tokens[t] # None =>
        LET allowed == clients[tokens[t].client] IN
        allowed # None /\ (allowed # {} => tokens[t].resource \in allowed)

\* The inductive invariant.
IInv == TypeOK /\ TokensBound /\ BoundClientsConfined /\ CommandsReach

-----------------------------------------------------------------------------
(* What the documents say and the code does not keep.                      *)

\* docs/oauth2_code_mapping.md, 5: a protected API is called transparently, with
\* the URL of the request taken for the resource.
TransparentCall ==
    outcome.kind = "transparent" /\ Entitled(outcome) => outcome.status = "handled"

\* docs/oauth2_code_mapping.md, 4-4: POST /oauth/revoke authenticates the client.
RevokeAuthenticated == \A t \in RawToken : revoker[t] # "other"

=============================================================================
