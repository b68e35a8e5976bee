SPECIFICATION FairSpec
CONSTANTS
    w1 = w1  w2 = w2  u1 = u1
    Watchdogs <- OneWatchdog
    Users = {}
    MaxAttempts = 2
    Threshold = 1
    MaxRuns = 3
    MaxFlight = 1
    MaxIncidents = 1
    MaxClock = 2
PROPERTIES
    NobodyStagnates
CHECK_DEADLOCK FALSE
