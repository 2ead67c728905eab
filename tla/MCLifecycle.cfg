SPECIFICATION FairSpec

CONSTANTS
    Request = {q1, q2, q3}
    ShutdownTimeout = 2

\* The process ends.
CHECK_DEADLOCK FALSE

INVARIANTS
    TypeOK
    GraceKept

PROPERTY
    SignalEndsProcess
