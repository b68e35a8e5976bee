SPECIFICATION FairSpec
CONSTANTS
    w1 = w1  w2 = w2
    NoWriter = NoWriter
    Writers <- TwoWriters
    Origins = {"legacy"}
    Modes = {TRUE, FALSE}
    MaxRaises = 0
    MaxCrashes = 0
    MaxReprocess = 2
    MaxDeletes = 1
INVARIANTS
    VersionCountsEvents
    CreatedOnce
PROPERTIES
    NoLostUpdate
    Settles
\* The document may be done and nothing left to do.
CHECK_DEADLOCK FALSE
