SPECIFICATION Spec

CONSTANTS
    Request = {q1}
    ShutdownTimeout = 2

\* The process ends.
CHECK_DEADLOCK FALSE

INVARIANT
    CleanExitTrue
