CONSTANTS
    Steps <- MCSteps
    Peers = {p}
    SessionIds = {s, t}
    Conversations = {c, d}
    MaxBatch = 2
    MaxSeen = 1
    MaxFailures = 1
SPECIFICATION Spec
INVARIANTS TelegramTypeOK ConfirmShowsChoice StartedOnce OneSessionOfButtons OncePerProcess NothingSkipped PressCreatesOnce
PROPERTIES EveryUpdateRuns
CHECK_DEADLOCK FALSE
