CONSTANTS
    A = a
    B = b
    MaxRounds = 2
    MaxRetries = 0
    MaxEpoch = 2
    MaxClaims = 3
    MaxReopenings = 1
    Answers = {"continue", "complete", "blocked"}
SPECIFICATION Spec
INVARIANTS ProjectionNeverFails
CHECK_DEADLOCK FALSE
