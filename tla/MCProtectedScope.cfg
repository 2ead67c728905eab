SPECIFICATION Spec

CONSTANTS
    q1 = q1
    q2 = q2
    other = other
    c1 = c1
    uA = uA
    uB = uB
    rd = rd
    wr = wr
    Request = {q1}
    Other = other
    Caller <- MCCaller
    RawToken = {k1, bogus}
    Unissued = bogus
    ClientID = {c1}
    AbsoluteURI = {uA, uB}
    Scope = {rd, wr}
    ScopeString <- MCScopeString
    RequiredScope = rd
    Grants <- MCGrants
    None = None
    TokenTTL = 1
    MaxTime = 2

INVARIANT
    ScopeVerified
