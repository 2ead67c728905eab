SPECIFICATION Spec

CONSTANTS
    Goroutine = {g1, g2}
    ClientID = {c1}
    Secret = {s1}
    RawToken = {k1, k2, bogus}
    Bogus = bogus
    uA = uA
    uBad = uBad
    rd = rd
    URI = {uA, uBad}
    AbsoluteURI = {uA}
    Scope = {rd, wr}
    None = None
    TokenTTL = 1
    MaxTime = 2
    Registrations <- MCOpenRegistrations
    TokenRequests <- MCOpenRequests

SYMMETRY MCSymmetry

INVARIANTS
    CopiesCoherent
    AnswersStored
    RevocationsAcknowledged

PROPERTIES
    TokensFrozen
    AcceptedTokensAlive
    RevokedNeverValidated
    IssuedTokensFound
    ImplementsRegistry
