SPECIFICATION Spec
CONSTANTS
    w1 = w1  w2 = w2  u1 = u1
    Watchdogs <- TwoWatchdogs
    Users <- OneUser
    MaxAttempts = 2
    Threshold = 1
    MaxRuns = 2
    MaxFlight = 2
    MaxIncidents = 1
    MaxClock = 2
SYMMETRY Symmetry
INVARIANTS
    TypeOK
    OneLeasePerStaleRow
    AttemptsBounded
PROPERTIES
    LeasesOnlyStale
    DeletedRowStaysAway
\* Documents may be done and nothing left to recover.
CHECK_DEADLOCK FALSE
