SPECIFICATION FairSpec
CONSTANTS
    Callers <- Coroutines
    MaxRpm = 2
    MaxTpm = 2
    Window = 1
    Total = 2
    Slots = 2
    MaxTries = 2
    Headings <- Documents
    MaxPasses = 2
    MaxFaults = 1
INVARIANTS
    TypeOK
    QuotaRespected
    PagesComplete
    ZeroTokenWaste
    StateIsLineage
PROPERTIES
    ParseEnds
\* All passes may be over.
CHECK_DEADLOCK FALSE
