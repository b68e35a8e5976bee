SPECIFICATION Spec
CONSTANTS
    c1 = c1  c2 = c2
    Consumers <- TwoConsumers
    Total = 2
    BatchSize = 1
    MaxDispatches = 2
    MaxFaults = 1
    MaxSlow = 1
SYMMETRY ConsumerSymmetry
INVARIANTS
    NothingLost
    OneWinnerPerBarrier
\* All messages may be acknowledged and no document may come.
CHECK_DEADLOCK FALSE
