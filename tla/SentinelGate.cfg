SPECIFICATION Spec
CONSTANTS
    None = None
    MaxRuns = 1
    MaxLives = 2
INVARIANTS
    TypeOK
    TickNeverRepeatsARun
    DeferredChangeIsTold
PROPERTIES
    SentinelDoesNotEcho
    LeftoverLockSilencesNothing
\* With no run and no life left the system stops.
CHECK_DEADLOCK FALSE
