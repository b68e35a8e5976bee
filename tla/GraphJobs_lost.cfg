SPECIFICATION FairSpec
CONSTANTS
    c1 = c1  c2 = c2
    Consumers <- OneConsumer
    Total = 2
    BatchSize = 2
    MaxDispatches = 1
    MaxFaults = 1
    MaxSlow = 0
PROPERTIES
    Concludes
\* All messages may be acknowledged and no document may come.
CHECK_DEADLOCK FALSE
