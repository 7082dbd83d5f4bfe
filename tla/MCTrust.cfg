CONSTANTS
    Guests = {b, c}
    Invites = {i, j}
    MaxCalls = 1
SPECIFICATION Spec
SYMMETRY Symmetry
INVARIANTS TypeOK TrustIsMutual
PROPERTIES OnlyCreateReopens RevocationHolds
CHECK_DEADLOCK FALSE
