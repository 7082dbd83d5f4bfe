CONSTANTS
    Guests = {b, c}
    Invites = {i, j}
    MaxCalls = 2
SPECIFICATION Spec
PROPERTIES UsedIsFinal
CHECK_DEADLOCK FALSE
