CONSTANTS
    A = a
    B = b
    Created = created
    Changed = changed
    Opened = opened
    Turn = turn
    Reopened = reopened
    Body <- MCBody
    MaxEpoch = 2
    MaxSequence = 4
    MaxBatch = 1
    MaxInFlight = 1
    Durations = {1, 4}
    RenewBefore = 1
    Grace = 1
    MaxSkew = 1
    MaxStale = 0
    MaxTime = 4
SPECIFICATION FailoverSpec
INVARIANTS ExclusiveWriter
CHECK_DEADLOCK FALSE
