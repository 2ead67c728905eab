SPECIFICATION Spec

CONSTANTS
    Goroutine = {g1}
    Resource = {rA, rB}
    Token = {t1, t2}
    None = None
    TokenTTL = 5
    TicksPerSecond = 2
    ExpiryBuffer = 1
    MaxTime = 5

SYMMETRY MCSymmetry

PROPERTIES
    ServedNotRevoked
