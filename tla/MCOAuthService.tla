--------------------------- MODULE MCOAuthService ---------------------------
(***************************************************************************)
(* A small instance of OAuthService for TLC: two goroutines, two clients,  *)
(* two tokens and one the server never issues.                             *)
(***************************************************************************)
EXTENDS OAuthService, TLC

CONSTANTS uA, uBad, rd

\* One client without limits, one confined to resource uA and scope rd, and
\* the two kinds of body that are refused.
MCRegistrations ==
    {[named |-> TRUE,  allowedResources |-> {},     allowedScopes |-> {}],
     [named |-> TRUE,  allowedResources |-> {uA},   allowedScopes |-> {rd}],
     [named |-> TRUE,  allowedResources |-> {uBad}, allowedScopes |-> {}],
     [named |-> FALSE, allowedResources |-> {},     allowedScopes |-> {}]}

\* Every client and secret, with each grant that is refused for a reason of
\* its own and each that is accepted by some client.
MCGrants ==
    {<<"client_credentials", uA, {rd}>>, <<"client_credentials", uA, None>>,
     <<"client_credentials", None, None>>,
     <<"client_credentials", uA, Scope>>, <<"client_credentials", uBad, None>>,
     <<"other", uA, {rd}>>}

MCTokenRequests ==
    {[grantType |-> grant[1], clientID |-> id, clientSecret |-> s,
      resource |-> grant[2], scope |-> grant[3]] :
        grant \in MCGrants, id \in ClientID, s \in Secret}

\* For the life of the tokens: a client without limits and what it may ask for.
MCOpenRegistrations ==
    {[named |-> TRUE, allowedResources |-> {}, allowedScopes |-> {}]}

MCOpenRequests ==
    {[grantType |-> "client_credentials", clientID |-> id, clientSecret |-> s,
      resource |-> uA, scope |-> {rd}] : id \in ClientID, s \in Secret}

MCSymmetry ==
    Permutations(Goroutine) \cup Permutations(ClientID) \cup
    Permutations(Secret) \cup Permutations(RawToken \ {Bogus})

=============================================================================
