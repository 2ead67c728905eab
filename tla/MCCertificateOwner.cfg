SPECIFICATION Spec

CONSTANTS
    Goroutine = {g1}
    CertID = {c1, c2}
    ChallengeToken = {t1, t2}
    KeyAuth = {k1}
    None = None
    MaxStarts = 2

SYMMETRY MCSymmetry

PROPERTIES
    DeletedByItsCertificate
