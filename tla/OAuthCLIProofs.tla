---------------------------- MODULE OAuthCLIProofs ----------------------------
(***************************************************************************)
(* Proofs about OAuthCLI, for every set of clients, certificates and       *)
(* tokens, every base URL of the server, and whatever values the operator  *)
(* gives the flags.                                                        *)
(***************************************************************************)
EXTENDS OAuthCLI, TLAPS

\* Paths are sequences of segments, and the third segment names the certificate.
LEMMA PathType ==
    ASSUME NEW id \in CertID
    PROVE  /\ CertPath(id) \in Seq(Segment)
           /\ Start \in Seq(Segment) /\ Complete \in Seq(Segment)
           /\ \A p \in ProtectedPath(id) : p \in Seq(Segment) /\ p[3] = id
  <1>0. \A x \in {id, "v1", "certificates", "challenges", "http-01", "start", "complete"} :
           x \in Segment
      BY CLIAssumption
  <1>1. <<"v1", "certificates", id>> \in Seq(Segment)
      BY <1>0
  <1>2. /\ <<"challenges", "http-01", "start">> \in Seq(Segment)
        /\ <<"challenges", "http-01", "complete">> \in Seq(Segment)
      BY <1>0
  <1>3. ASSUME NEW s \in Seq(Segment)
        PROVE  CertPath(id) \o s \in Seq(Segment) /\ (CertPath(id) \o s)[3] = id
      BY <1>1 DEF CertPath
  <1> QED BY <1>1, <1>2, <1>3 DEF ProtectedPath, CertPath, Start, Complete

\* gin's route parameter is the certificate the path was made for.
LEMMA RouteOf ==
    ASSUME NEW id \in CertID, NEW p \in ProtectedPath(id)
    PROVE  Route(p) = id
  <1>1. \A i \in CertID : p \in ProtectedPath(i) => i = id
      BY PathType
  <1> QED BY <1>1 DEF Route

\* A path that has a route is a protected path of that certificate.
LEMMA RouteType ==
    ASSUME NEW p, Route(p) # None
    PROVE  Route(p) \in CertID
  BY DEF Route

\* What Join puts together is a URI.
LEMMA JoinType ==
    ASSUME NEW b \in Base, NEW p \in Seq(Segment)
    PROVE  /\ Join(b, p) \in URI
           /\ Join(b, p).origin = b.origin
           /\ Join(b, p).path = b.path \o p
  <1>1. b.path \o p \in Seq(Segment)
      BY DEF Base
  <1> QED BY <1>1 DEF Join, URI, Base

\* RoundTrip always has a resource to ask for.
LEMMA ResourceType ==
    ASSUME NEW override \in URI \cup {None}, NEW url \in URI
    PROVE  TransportResource(override, url) \in URI
  BY DEF TransportResource, URI

\* A token is issued only within what the client is registered for.
LEMMA IssuedWithin ==
    ASSUME NEW c, NEW right, NEW r, Issued(c, right, r)
    PROVE  clients[c] # None /\ (clients[c] # {} => r \in clients[c])
  BY DEF Issued

-----------------------------------------------------------------------------
\* None is none of the values it stands for the absence of.
LEMMA NoneApart == None \notin URI /\ None \notin CertID /\ None \notin Base
  BY CLIAssumption

\* The base URLs are what they should be.
LEMMA BaseType ==
    /\ ResourceBase \in Base /\ ResourceBase.origin # None
    /\ \A s \in ServerURL : s \in Base /\ s.path = <<>>
    /\ \A b \in BaseURL : b \in Base
  BY CLIAssumption

\* The fields of a command.
LEMMA CommandFields ==
    ASSUME NEW kind, NEW c, NEW right, NEW base, NEW path, NEW status
    PROVE  /\ Command(kind, c, right, base, path, status).kind = kind
           /\ Command(kind, c, right, base, path, status).client = c
           /\ Command(kind, c, right, base, path, status).right = right
           /\ Command(kind, c, right, base, path, status).base = base
           /\ Command(kind, c, right, base, path, status).path = path
           /\ Command(kind, c, right, base, path, status).status = status
  BY DEF Command

\* Client.Do reports on the command it was called by.
LEMMA DoOutcome ==
    ASSUME NEW kind, NEW c, NEW right, NEW base, NEW override, NEW url,
           Do(kind, c, right, base, override, url)
    PROVE  /\ \E status : outcome' = Command(kind, c, right, base, url.path, status)
           /\ outcome'.kind = kind /\ outcome'.client = c /\ outcome'.right = right
           /\ outcome'.base = base /\ outcome'.path = url.path
           /\ UNCHANGED <<clients, tokens, revoker>>
  <1>1. \E status : outcome' = Command(kind, c, right, base, url.path, status)
      BY DEF Do
  <1>2. UNCHANGED <<clients, tokens, revoker>>
      BY DEF Do
  <1>3. PICK status : outcome' = Command(kind, c, right, base, url.path, status)
      BY <1>1
  <1> QED BY <1>2, <1>3, CommandFields

\* What Client.Do keeps, whatever the override and the URL.
LEMMA DoKeeps ==
    ASSUME IInv, NEW kind, NEW c \in ClientID, NEW right, NEW base \in Base,
           NEW override \in URI \cup {None}, NEW url \in URI,
           Do(kind, c, right, base, override, url)
    PROVE  TypeOK' /\ TokensBound' /\ BoundClientsConfined'
  <1> DEFINE r  == TransportResource(override, url)
             id == Route(url.path)
  <1>1. UNCHANGED <<clients, tokens, revoker>>
      BY DEF Do
  <1>2. outcome'.client = c /\ outcome'.base = base
      BY DoOutcome
  <1>3. \/ touched' = touched
        \/ /\ touched' = touched \cup {<<c, id>>}
           /\ id \in CertID /\ Issued(c, right, r) /\ Admits(r, id)
      BY RouteType DEF Do, Touch
  <1>4. TypeOK'
      <2>1. touched' \subseteq ClientID \X CertID
          BY <1>3 DEF IInv, TypeOK
      <2>2. outcome'.client \in ClientID \cup {None} /\ outcome'.base \in Base \cup {None}
          BY <1>2
      <2> QED BY <1>1, <2>1, <2>2 DEF IInv, TypeOK, ValidateAbsoluteURI
  <1>5. ASSUME NEW d \in ClientID, NEW i \in CertID, <<d, i>> \in touched'
        PROVE  clients[d] # None /\ (clients[d] # {} => resourceExtractor(i) \in clients[d])
      <2>1. CASE <<d, i>> \in touched
          BY <2>1 DEF IInv, BoundClientsConfined
      <2>2. CASE <<d, i>> \notin touched
          <3>1. <<d, i>> = <<c, id>> /\ Issued(c, right, r) /\ Admits(r, id)
              BY <1>3, <1>5, <2>2
          <3>2. d = c /\ i = id
              BY <3>1
          <3>3. r # None
              BY ResourceType, NoneApart
          <3>4. r = resourceExtractor(id)
              BY <3>1, <3>3 DEF Admits
          <3> QED BY <3>1, <3>2, <3>4, IssuedWithin
      <2> QED BY <2>1, <2>2
  <1> QED BY <1>1, <1>4, <1>5 DEF IInv, TokensBound, BoundClientsConfined, resourceExtractor

\* Client.Do reaches the handler when the resource it asks for is the URI the
\* server builds, and the client is registered for it.
LEMMA DoReaches ==
    ASSUME NEW kind, NEW c, NEW right, NEW base, NEW override, NEW url, NEW id \in CertID,
           Do(kind, c, right, base, override, url),
           Route(url.path) = id,
           TransportResource(override, url) = resourceExtractor(id),
           right, clients[c] # None,
           clients[c] # {} => resourceExtractor(id) \in clients[c]
    PROVE  outcome'.status = "handled"
  <1>1. resourceExtractor(id) \in URI
      BY BaseType, PathType, JoinType DEF resourceExtractor
  <1>2. ValidateAbsoluteURI(resourceExtractor(id))
      <2>1. resourceExtractor(id) # None
          BY <1>1, NoneApart
      <2>2. resourceExtractor(id).fragment = FALSE
          BY DEF resourceExtractor, Join
      <2>3. resourceExtractor(id).origin # None
          BY BaseType DEF resourceExtractor, Join
      <2> QED BY <2>1, <2>2, <2>3 DEF ValidateAbsoluteURI
  <1>3. Issued(c, right, TransportResource(override, url))
      BY <1>2 DEF Issued
  <1>4. Admits(TransportResource(override, url), id)
      BY DEF Admits
  <1>5. id # None
      BY NoneApart
  <1>6. outcome' = Command(kind, c, right, base, url.path, "handled")
      BY <1>3, <1>4, <1>5 DEF Do
  <1>7. Command(kind, c, right, base, url.path, "handled").status = "handled"
      BY DEF Command
  <1> QED BY <1>6, <1>7, Zenon

-----------------------------------------------------------------------------
\* At the start nobody is registered.
LEMMA InitIInv == Init => IInv
  <1> SUFFICES ASSUME Init PROVE IInv
      OBVIOUS
  <1>1. /\ outcome.client = None /\ outcome.base = None /\ outcome.kind = None
        /\ outcome.right = FALSE
      BY DEF Init, Command
  <1>2. TypeOK
      BY <1>1 DEF Init, TypeOK
  <1>3. TokensBound /\ BoundClientsConfined
      BY DEF Init, TokensBound, BoundClientsConfined
  <1>4. CommandsReach
      BY <1>1 DEF CommandsReach, Entitled
  <1> QED BY <1>2, <1>3, <1>4 DEF IInv

\* A certificate command keeps the invariant, for the three suffixes of its path.
LEMMA CertCommandKeeps ==
    ASSUME IInv, NEW c \in ClientID, NEW right \in BOOLEAN, NEW server \in ServerURL,
           NEW base \in BaseURL, NEW id \in CertID, NEW suffix \in {<<>>, Start, Complete},
           CertCommand(c, right, server, base, id, suffix)
    PROVE  IInv'
  <1> DEFINE path == CertPath(id) \o suffix
             res  == Join(base, CertPath(id))
             url  == Join(server, path)
  <1>1. CertPath(id) \in Seq(Segment) /\ suffix \in Seq(Segment)
      <2>1. <<>> \in Seq(Segment)
          OBVIOUS
      <2> QED BY <2>1, PathType
  <1>2. path \in ProtectedPath(id)
      <2>1. CASE suffix = <<>>
          <3>1. path = CertPath(id)
              BY <1>1, <2>1
          <3> QED BY <3>1 DEF ProtectedPath
      <2>2. CASE suffix \in {Start, Complete}
          BY <2>2 DEF ProtectedPath
      <2> QED BY <2>1, <2>2
  <1>3. path \in Seq(Segment) /\ Route(path) = id
      BY <1>2, PathType, RouteOf
  <1>4. res \in URI
      BY <1>1, BaseType, JoinType
  <1>5. url \in URI /\ url.path = path
      <2>1. url \in URI /\ url.path = server.path \o path
          BY <1>3, BaseType, JoinType
      <2>2. server.path \o path = path
          <3>1. server.path = <<>>
              BY BaseType
          <3>2. ASSUME NEW s \in Seq(Segment) PROVE <<>> \o s = s
              OBVIOUS
          <3> QED BY <1>3, <3>1, <3>2
      <2> QED BY <2>1, <2>2
  <1>6. Do("certificate", c, right, base, res, url)
      BY DEF CertCommand
  <1> HIDE DEF path, res, url
  <1>7. TypeOK' /\ TokensBound' /\ BoundClientsConfined'
      BY <1>4, <1>5, <1>6, BaseType, DoKeeps
  <1>8. CommandsReach'
      <2>1. SUFFICES ASSUME Entitled(outcome)' PROVE outcome'.status = "handled"
          BY DEF CommandsReach
      <2>2. /\ outcome'.client = c /\ outcome'.right = right
            /\ outcome'.base = base /\ outcome'.path = path
            /\ clients' = clients
          BY <1>5, <1>6, DoOutcome
      <2>3. /\ right /\ clients[c] # None
            /\ clients[c] # {} => resourceExtractor(id) \in clients[c]
            /\ base.origin = ResourceBase.origin /\ base.path = ResourceBase.path
          <3>1. /\ outcome'.right /\ clients'[outcome'.client] # None
                /\ clients'[outcome'.client] # {} =>
                     resourceExtractor(Route(outcome'.path)) \in clients'[outcome'.client]
                /\ outcome'.base.origin = ResourceBase.origin
                /\ outcome'.base.path = ResourceBase.path
              BY <2>1 DEF Entitled, resourceExtractor, Join, Route
          <3> QED BY <1>3, <2>2, <3>1, Zenon
      <2>4. res = resourceExtractor(id)
          BY <2>3 DEF resourceExtractor, Join, res
      <2>5. TransportResource(res, url) = resourceExtractor(id)
          BY <1>4, <2>4, NoneApart DEF TransportResource
      <2> QED BY <1>3, <1>5, <1>6, <2>3, <2>5, DoReaches
  <1> QED BY <1>7, <1>8 DEF IInv

\* So does `call`, whatever its path, query and --resource.
LEMMA CallKeeps ==
    ASSUME IInv, NEW c \in ClientID, NEW right \in BOOLEAN, NEW server \in ServerURL,
           NEW p \in PathArg, NEW override \in ResourceArg,
           Call(c, right, server, p, override)
    PROVE  IInv'
  <1> DEFINE kind == IF override = None THEN "transparent" ELSE "call"
             url  == [Join(server, p.path) EXCEPT !.query = p.query]
  <1>1. /\ p.path \in Seq(Segment) /\ p.query \in BOOLEAN
        /\ override \in URI \cup {None}
      BY CLIAssumption
  <1>2. server \in Base /\ server.path = <<>>
      BY BaseType
  <1>3. <<>> \o p.path = p.path
      BY <1>1
  <1>4. Join(server, p.path) \in URI /\ Join(server, p.path).path = p.path
      BY <1>1, <1>2, <1>3, JoinType
  <1>5. url \in URI /\ url.path = p.path
      BY <1>1, <1>4 DEF URI
  <1>6. Do(kind, c, right, server, override, url)
      BY DEF Call
  <1>7. TypeOK' /\ TokensBound' /\ BoundClientsConfined'
      <2> HIDE DEF kind, url
      <2> QED BY <1>1, <1>2, <1>5, <1>6, DoKeeps
  <1>8. CommandsReach'
      <2>1. SUFFICES ASSUME AboutCertificate(outcome)', Entitled(outcome)'
                     PROVE  outcome'.status = "handled"
          BY DEF CommandsReach
      <2>2. /\ outcome'.kind = kind /\ outcome'.client = c /\ outcome'.right = right
            /\ outcome'.base = server /\ outcome'.path = p.path
            /\ clients' = clients
          <3> HIDE DEF kind, url
          <3> QED BY <1>5, <1>6, DoOutcome
      <2> DEFINE id == Route(p.path)
      <2>3. override = None /\ p.path = CertPath(id)
          BY <2>1, <2>2 DEF AboutCertificate, Route, ProtectedPath, CertPath, Start, Complete
      <2>4. /\ right /\ clients[c] # None /\ id # None
            /\ clients[c] # {} => resourceExtractor(id) \in clients[c]
            /\ server.origin = ResourceBase.origin /\ server.path = ResourceBase.path
          <3>1. /\ outcome'.right /\ clients'[outcome'.client] # None
                /\ Route(outcome'.path) # None
                /\ clients'[outcome'.client] # {} =>
                     resourceExtractor(Route(outcome'.path)) \in clients'[outcome'.client]
                /\ outcome'.base.origin = ResourceBase.origin
                /\ outcome'.base.path = ResourceBase.path
              BY <2>1 DEF Entitled, resourceExtractor, Join, Route
          <3> QED BY <2>2, <3>1, Zenon
      <2>5. id \in CertID
          BY <2>4, RouteType
      <2>6. TransportResource(override, url) = resourceExtractor(id)
          BY <2>3, <2>4 DEF TransportResource, resourceExtractor, Join
      <2> HIDE DEF kind, url, id
      <2>7. Route(url.path) = id
          BY <1>5 DEF id
      <2> QED BY <1>6, <2>4, <2>5, <2>6, <2>7, DoReaches
  <1> QED BY <1>7, <1>8 DEF IInv

\* A command that reports without a request to a protected handler says nothing
\* that CommandsReach is about.
LEMMA ReportKeeps ==
    ASSUME NEW kind \in {"register", "token", "introspect", "revoke", "request"}, NEW status,
           Report(kind, status)
    PROVE  /\ outcome'.client \in ClientID \cup {None} /\ outcome'.base \in Base \cup {None}
           /\ CommandsReach'
  <1>1. outcome'.client = None /\ outcome'.base = None /\ outcome'.kind = kind
      BY DEF Report, Command
  <1> QED BY <1>1 DEF CommandsReach, AboutCertificate

\* Every step keeps the inductive invariant.
LEMMA StepIInv == IInv /\ [Next]_vars => IInv'
  <1> SUFFICES ASSUME IInv, [Next]_vars PROVE IInv'
      OBVIOUS
  <1> TypeOK /\ TokensBound /\ BoundClientsConfined /\ CommandsReach
      BY DEF IInv
  <1>1. ASSUME NEW c \in ClientID, NEW items \in ResourcesArg, Register(c, items) PROVE IInv'
      <2> DEFINE resources == items \ {None}
      <2>1. resources \subseteq URI
          BY CLIAssumption
      <2>2. \E status : Report("register", status)
          BY <1>1 DEF Register
      <2>3. CommandsReach' /\ outcome'.client \in ClientID \cup {None}
                           /\ outcome'.base \in Base \cup {None}
          BY <2>2, ReportKeeps
      <2>4. UNCHANGED <<tokens, revoker, touched>> /\ clients[c] = None
          BY <1>1 DEF Register
      <2>5. CASE clients' = clients
          BY <2>3, <2>4, <2>5 DEF IInv, TypeOK, TokensBound, BoundClientsConfined,
             ValidateAbsoluteURI, resourceExtractor, Join
      <2>6. CASE Registrable(resources) /\ clients' = [clients EXCEPT ![c] = resources]
          <3>1. resources \in SUBSET {u \in URI : ValidateAbsoluteURI(u)}
              BY <2>1, <2>6 DEF Registrable
          <3>2. clients' \in [ClientID -> {None} \cup SUBSET {u \in URI : ValidateAbsoluteURI(u)}]
              BY <2>6, <3>1 DEF TypeOK
          <3>3. \A d \in ClientID : clients[d] # None => clients'[d] = clients[d]
              BY <2>4, <2>6 DEF TypeOK
          <3>4. TypeOK'
              BY <2>3, <2>4, <3>2 DEF TypeOK, ValidateAbsoluteURI
          <3>5. TokensBound' /\ BoundClientsConfined'
              BY <2>4, <3>3 DEF TypeOK, TokensBound, BoundClientsConfined, resourceExtractor, Join
          <3> QED BY <2>3, <3>4, <3>5 DEF IInv
      <2> QED BY <1>1, <2>5, <2>6 DEF Register
  <1>2. ASSUME NEW c \in ClientID, NEW right \in BOOLEAN, NEW r \in ResourceArg,
               NEW t \in RawToken, Token(c, right, r, t)
        PROVE  IInv'
      <2>1. r \in URI \cup {None}
          BY CLIAssumption
      <2>2. \E status : Report("token", status)
          BY <1>2 DEF Token
      <2>3. CommandsReach' /\ outcome'.client \in ClientID \cup {None}
                           /\ outcome'.base \in Base \cup {None}
          BY <2>2, ReportKeeps
      <2>4. UNCHANGED <<clients, revoker, touched>>
          BY <1>2 DEF Token
      <2>5. BoundClientsConfined'
          BY <2>4 DEF BoundClientsConfined, resourceExtractor, Join
      <2>6. TypeOK' /\ TokensBound'
          <3>1. CASE tokens' = tokens
              BY <2>3, <2>4, <3>1 DEF TypeOK, TokensBound, ValidateAbsoluteURI
          <3>2. CASE /\ Issued(c, right, r)
                     /\ tokens' = [tokens EXCEPT ![t] =
                                     [client |-> c, resource |-> r, live |-> TRUE]]
              <4>1. [client |-> c, resource |-> r, live |-> TRUE] \in
                      [client : ClientID, resource : URI \cup {None}, live : BOOLEAN]
                  BY <2>1
              <4>2. TypeOK'
                  BY <2>3, <2>4, <3>2, <4>1 DEF TypeOK, ValidateAbsoluteURI
              <4>3. tokens'[t].client = c /\ tokens'[t].resource = r
                  BY <3>2 DEF TypeOK
              <4>4. \A u \in RawToken \ {t} : tokens'[u] = tokens[u]
                  BY <3>2 DEF TypeOK
              <4>5. clients[c] # None /\ (clients[c] # {} => r \in clients[c])
                  BY <3>2, IssuedWithin
              <4> QED BY <2>4, <4>2, <4>3, <4>4, <4>5 DEF TokensBound
          <3> QED BY <1>2, <3>1, <3>2 DEF Token
      <2> QED BY <2>3, <2>5, <2>6 DEF IInv
  <1>3. ASSUME NEW c \in ClientID, NEW right \in BOOLEAN, NEW server \in ServerURL,
               NEW base \in BaseURL, NEW id \in CertID,
               \/ ChallengeStart(c, right, server, base, id)
               \/ ChallengeComplete(c, right, server, base, id)
               \/ GetCert(c, right, server, base, id)
        PROVE  IInv'
      BY <1>3, CertCommandKeeps DEF ChallengeStart, ChallengeComplete, GetCert
  <1>4. ASSUME NEW c \in ClientID, NEW right \in BOOLEAN, NEW server \in ServerURL,
               NEW p \in PathArg, NEW override \in ResourceArg,
               Call(c, right, server, p, override)
        PROVE  IInv'
      BY <1>4, CallKeeps
  <1>5. ASSUME NEW t \in RawToken, tokens[t] # None,
               tokens' = [tokens EXCEPT ![t].live = FALSE]
        PROVE  /\ tokens' \in [RawToken -> {None} \cup
                     [client : ClientID, resource : URI \cup {None}, live : BOOLEAN]]
               /\ clients' = clients => TokensBound'
      <2>1. /\ tokens'[t] \in [client : ClientID, resource : URI \cup {None}, live : BOOLEAN]
            /\ tokens'[t].client = tokens[t].client
            /\ tokens'[t].resource = tokens[t].resource
          BY <1>5 DEF TypeOK
      <2>2. \A u \in RawToken \ {t} : tokens'[u] = tokens[u]
          BY <1>5 DEF TypeOK
      <2>3. tokens' \in [RawToken -> {None} \cup
                     [client : ClientID, resource : URI \cup {None}, live : BOOLEAN]]
          BY <1>5, <2>1, <2>2 DEF TypeOK
      <2> QED BY <1>5, <2>1, <2>2, <2>3 DEF TokensBound
  <1>6. ASSUME NEW c \in ClientID, NEW right \in BOOLEAN, NEW t \in RawToken,
               Revoke(c, right, t)
        PROVE  IInv'
      <2>1. CommandsReach' /\ outcome'.client \in ClientID \cup {None}
                           /\ outcome'.base \in Base \cup {None}
          BY <1>6, ReportKeeps DEF Revoke
      <2>2. UNCHANGED <<clients, touched>>
          BY <1>6 DEF Revoke
      <2>3. revoker' \in [RawToken -> {None, "client", "other"}]
          BY <1>6 DEF Revoke, TypeOK
      <2>4. /\ tokens' \in [RawToken -> {None} \cup
                     [client : ClientID, resource : URI \cup {None}, live : BOOLEAN]]
            /\ TokensBound'
          <3>1. CASE tokens' = tokens
              BY <2>2, <3>1 DEF TypeOK, TokensBound
          <3> QED BY <1>5, <1>6, <2>2, <3>1 DEF Revoke
      <2> QED BY <2>1, <2>2, <2>3, <2>4 DEF IInv, TypeOK, BoundClientsConfined,
                 ValidateAbsoluteURI, resourceExtractor, Join
  <1>7. ASSUME NEW t \in RawToken, Introspect(t) PROVE IInv'
      <2>1. CommandsReach' /\ outcome'.client \in ClientID \cup {None}
                           /\ outcome'.base \in Base \cup {None}
          BY <1>7, ReportKeeps DEF Introspect
      <2> QED BY <1>7, <2>1 DEF Introspect, IInv, TypeOK, TokensBound,
                 BoundClientsConfined, ValidateAbsoluteURI, resourceExtractor, Join
  <1>8. ASSUME NEW t \in RawToken, Expire(t) PROVE IInv'
      <2>1. UNCHANGED <<clients, revoker, touched, outcome>>
          BY <1>8 DEF Expire
      <2>2. /\ tokens' \in [RawToken -> {None} \cup
                     [client : ClientID, resource : URI \cup {None}, live : BOOLEAN]]
            /\ TokensBound'
          BY <1>5, <1>8 DEF Expire, Live
      <2>3. TypeOK'
          BY <2>1, <2>2 DEF TypeOK, ValidateAbsoluteURI
      <2>4. BoundClientsConfined'
          BY <2>1 DEF IInv, BoundClientsConfined, resourceExtractor, Join
      <2>5. CommandsReach'
          BY <2>1 DEF IInv, CommandsReach, AboutCertificate, Entitled, Route,
             resourceExtractor, Join
      <2> QED BY <2>2, <2>3, <2>4, <2>5 DEF IInv
  <1>9. ASSUME NEW t \in RawToken, NEW id \in CertID, PresentToken(t, id) PROVE IInv'
      <2>1. CommandsReach' /\ outcome'.client \in ClientID \cup {None}
                           /\ outcome'.base \in Base \cup {None}
          BY <1>9, ReportKeeps DEF PresentToken
      <2> DEFINE c == tokens[t].client
      <2>2. /\ tokens[t] # None /\ c \in ClientID /\ tokens[t].resource \in URI \cup {None}
            /\ UNCHANGED <<clients, tokens, revoker>>
            /\ touched' = touched \cup {<<c, id>>}
          BY <1>9 DEF PresentToken, Live, Touch, TypeOK
      <2>3. clients[c] # None /\ (clients[c] # {} => resourceExtractor(id) \in clients[c])
          <3>1. clients[c] # None /\ (clients[c] # {} => tokens[t].resource \in clients[c])
              BY <2>2 DEF TokensBound
          <3>2. clients[c] # {} => tokens[t].resource \in URI
              BY <2>2, <3>1 DEF TypeOK
          <3>3. clients[c] # {} => tokens[t].resource = resourceExtractor(id)
              BY <1>9, <3>2, NoneApart DEF PresentToken, Admits
          <3> QED BY <3>1, <3>3
      <2>4. ASSUME NEW d \in ClientID, NEW i \in CertID, <<d, i>> \in touched'
            PROVE  clients[d] # None /\ (clients[d] # {} => resourceExtractor(i) \in clients[d])
          <3>1. CASE <<d, i>> \in touched
              BY <3>1 DEF BoundClientsConfined
          <3>2. CASE <<d, i>> = <<c, id>>
              <4>1. d = c /\ i = id
                  BY <3>2
              <4> QED BY <2>3, <4>1
          <3> QED BY <2>2, <2>4, <3>1, <3>2
      <2>5. TypeOK'
          BY <2>1, <2>2 DEF TypeOK, ValidateAbsoluteURI
      <2>6. TokensBound' /\ BoundClientsConfined'
          BY <2>2, <2>4 DEF TokensBound, BoundClientsConfined, resourceExtractor, Join
      <2> QED BY <2>1, <2>5, <2>6 DEF IInv
  <1>10. CASE UNCHANGED vars
      BY <1>10 DEF vars, IInv, TypeOK, TokensBound, BoundClientsConfined, CommandsReach,
         AboutCertificate, Entitled, Route, ValidateAbsoluteURI, resourceExtractor, Join
  <1> QED BY <1>1, <1>2, <1>3, <1>4, <1>6, <1>7, <1>8, <1>9, <1>10 DEF Next

-----------------------------------------------------------------------------
\* IInv holds in every reachable state.
LEMMA Inductive == Spec => []IInv
  BY InitIInv, StepIInv, PTL DEF Spec

\* What is stored and printed has its type; no client is ever registered for
\* anything but absolute URIs, whatever the list on the command line.
THEOREM TypeCorrect == Spec => []TypeOK
  <1>1. IInv => TypeOK
      BY DEF IInv
  <1> QED BY Inductive, <1>1, PTL

\* No flag and no printed token takes a limited client to a certificate outside
\* its registration.
THEOREM ConfinedCorrect == Spec => []BoundClientsConfined
  <1>1. IInv => BoundClientsConfined
      BY DEF IInv
  <1> QED BY Inductive, <1>1, PTL

\* The resource URI the client side derives is the one the server checks: an
\* entitled client's command about a certificate reaches its handler.
THEOREM ReachCorrect == Spec => []CommandsReach
  <1>1. IInv => CommandsReach
      BY DEF IInv
  <1> QED BY Inductive, <1>1, PTL

=============================================================================
