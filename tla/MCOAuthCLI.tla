------------------------------ MODULE MCOAuthCLI ------------------------------
(***************************************************************************)
(* A small instance of OAuthCLI for TLC.                                   *)
(***************************************************************************)
EXTENDS OAuthCLI

CONSTANTS api, localhost

MCSegment == {"", "v1", "certificates", "challenges", "http-01", "start", "complete",
              "cert-001", "cert-002", "metrics"}

BaseOf(o, slashes) == [origin |-> o, path |-> <<>>, slashes |-> slashes]

MCResourceBase == BaseOf(api, 1)
MCServerURL    == {BaseOf(api, 0), BaseOf(localhost, 1)}
\* The server's base URL with and without slashes, another one, a relative one.
MCBaseURL      == {BaseOf(api, 0), BaseOf(api, 2), BaseOf(localhost, 0), BaseOf(None, 0)}

Cert1    == Join(BaseOf(api, 0), CertPath("cert-001"))
Cert2    == Join(BaseOf(api, 0), CertPath("cert-002"))
Relative == [Cert1 EXCEPT !.origin = None]
Fragment == [Cert1 EXCEPT !.fragment = TRUE]

MCResourceArg  == {None, Cert1, Fragment}
MCResourcesArg == {{}, {None}, {Cert1}, {Cert1, None}, {Cert1, Cert2}, {Cert2, Relative}, {Fragment}}

\* A certificate with and without a query, a challenge, and no protected route.
MCPathArg ==
    {[path |-> CertPath("cert-001"), query |-> TRUE],
     [path |-> CertPath("cert-002"), query |-> FALSE],
     [path |-> CertPath("cert-001") \o Start, query |-> FALSE],
     [path |-> <<"metrics">>, query |-> FALSE]}

=============================================================================
