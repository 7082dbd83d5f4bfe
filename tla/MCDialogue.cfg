CONSTANTS
    A = a
    B = b
    MaxRounds = 2
    MaxRetries = 1
    MaxEpoch = 2
    MaxClaims = 4
    MaxReopenings = 1
    Answers = {"continue", "complete"}
SPECIFICATION Spec
INVARIANTS TypeOK ProjectionFollowsReplies FailsOnlyAstray AnsweredOnce CompletionIsMutual 
PROPERTIES ImplementsV1
CONSTRAINTS Straight Brief
CHECK_DEADLOCK FALSE
