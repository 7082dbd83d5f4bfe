CONSTANTS
    First = a
    Second = b
    NoAgent = nobody
    MaxRounds = 2
    Answers = {"continue", "complete", "blocked", "error"}
    MaxClaims = 2
    MaxAttempts = 2
    MaxCrashes = 1
SPECIFICATION OutboxSpec
INVARIANTS OutboxTypeOK OneOpenTurn AnsweredByLastClaim TablesFollowReplies CompletionIsConsented DeliveryAccounted SummarySaysOutcome
PROPERTIES ImplementsV1 EndingIsFinal SummarySettles
CHECK_DEADLOCK FALSE
