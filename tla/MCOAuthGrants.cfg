SPECIFICATION Spec

CONSTANTS
    Goroutine = {g1, g2}
    ClientID = {c1, c2}
    Secret = {s1, s2}
    RawToken = {k1, bogus}
    Bogus = bogus
    uA = uA
    uBad = uBad
    rd = rd
    URI = {uA, uBad}
    AbsoluteURI = {uA}
    Scope = {rd, wr}
    None = None
    TokenTTL = 1
    MaxTime = 0
    Registrations <- MCRegistrations
    TokenRequests <- MCTokenRequests

SYMMETRY MCSymmetry

INVARIANTS
    TypeOK
    GrantsWithinRegistration
    CredentialsStayValid
