SPECIFICATION FairSpec
CONSTANTS
    f1 = f1  f2 = f2
    Files <- TwoFiles
    Nested <- OneNested
    Base <- OneName
    MaxCalls = 2
    MaxChanges = 2
    MaxFaults = 1
INVARIANTS
    TypeOK
    CursorCoversFailures
    ExclusiveUnlessRaced
    CompletesWithAllFiles
PROPERTIES
    SyncEnds
\* All calls may be done.
CHECK_DEADLOCK FALSE
