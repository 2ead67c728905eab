SPECIFICATION SessionSpec

CONSTANTS
    Goroutine = {g1, g2}
    Resource = {rA}
    Token = {t1, t2}
    None = None
    TokenTTL = 3
    TicksPerSecond = 1
    ExpiryBuffer = 1
    MaxTime = 4

SYMMETRY MCSymmetry

INVARIANT
    SessionIInv

PROPERTIES
    RefusalsExplained
    NothingSurvivesRestart
