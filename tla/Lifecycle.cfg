\* Signals at any moment of the start, of the health checks and of the shutdown; a
\* world that changes often enough to fail, to be silent and to recover.
CONSTANTS
    Checks <- MCChecks
    Critical = {"store"}
    Blocking = {"store"}
    MaxSignals = 2
    MaxChanges = 2
SPECIFICATION FairSpec
INVARIANTS
    TypeOK
    SignalExitIsClean
    QuietAfterTracing
    HealthzIsTruthful
PROPERTIES
    SignalEnds
    HealthzFollows
