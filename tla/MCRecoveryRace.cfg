CONSTANTS
    A = a
    B = b
    MaxRounds = 2
    MaxRetries = 1
    MaxEpoch = 1
    MaxClaims = 3
    MaxReopenings = 1
    Answers = {"continue", "complete", "blocked"}
SPECIFICATION Spec
PROPERTIES ReopensExpiredClaim
CHECK_DEADLOCK FALSE
