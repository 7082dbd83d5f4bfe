CONSTANTS
    A = a
    B = b
    Created = created
    Changed = changed
    Body = {created, changed, x}
    MaxEpoch = 2
    MaxSequence = 3
    MaxBatch = 2
    MaxInFlight = 2
SPECIFICATION Spec
SYMMETRY ContentSymmetry
INVARIANTS TypeOK NoGaps LogAgreement CoordinatorHoldsAll AckedIsHeld
PROPERTIES HistoryImmutable EpochSealed
CHECK_DEADLOCK FALSE
