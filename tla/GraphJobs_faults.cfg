SPECIFICATION FairSpec
CONSTANTS
    c1 = c1  c2 = c2
    Consumers <- TwoConsumers
    Total = 3
    BatchSize = 2
    MaxDispatches = 1
    MaxFaults = 1
    MaxSlow = 0
INVARIANTS
    TypeOK
    CompleteUnlessDisturbed
PROPERTIES
    AllAcknowledged
    ImplementsScatterGather
\* All messages may be acknowledged and no document may come.
CHECK_DEADLOCK FALSE
