SPECIFICATION Spec

CONSTANTS
    Goroutine = {g1, g2}
    Resource = {rA}
    Token = {t1, t2}
    None = None
    TokenTTL = 5
    TicksPerSecond = 2
    ExpiryBuffer = 3
    MaxTime = 6

SYMMETRY MCSymmetry

INVARIANTS
    IInv
    NoRedundantFetch
    CacheHonest

PROPERTIES
    ServedInTimeIsAlive
    RevokedNeverServed
