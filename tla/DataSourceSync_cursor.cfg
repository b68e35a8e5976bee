SPECIFICATION Spec
CONSTANTS
    f1 = f1  f2 = f2
    Files <- TwoFiles
    Nested <- OneNested
    Base <- OwnName
    MaxCalls = 2
    MaxChanges = 2
    MaxFaults = 1
INVARIANT CursorWaitsForFailures
\* All calls may be done.
CHECK_DEADLOCK FALSE
