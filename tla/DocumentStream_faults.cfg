SPECIFICATION Spec
CONSTANTS
    w1 = w1  w2 = w2
    NoWriter = NoWriter
    Writers <- TwoWriters
    Origins = {"new", "legacy"}
    Modes = {TRUE, FALSE}
    MaxRaises = 1
    MaxCrashes = 1
    MaxReprocess = 1
    MaxDeletes = 1
SYMMETRY WriterSymmetry
INVARIANTS
    TypeOK
    DeletedIsFinal
    StagesAreCaused
    ConflictNeedsRival
\* The document may be done and nothing left to do.
CHECK_DEADLOCK FALSE
