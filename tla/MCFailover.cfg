CONSTANTS
    A = a
    B = b
    Created = created
    Changed = changed
    Opened = opened
    Turn = turn
    Reopened = reopened
    Body <- MCBody
    MaxEpoch = 2
    MaxSequence = 5
    MaxBatch = 1
    MaxInFlight = 1
    Durations = {2}
    RenewBefore = 2
    Grace = 3
    MaxSkew = 1
    MaxStale = 1
    MaxTime = 5
SPECIFICATION FailoverSpec
INVARIANTS ClockTypeOK ExclusiveWriter LeaseHeldByPeer
PROPERTIES NoLateWrite
CHECK_DEADLOCK FALSE
