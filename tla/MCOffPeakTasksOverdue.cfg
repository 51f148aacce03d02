SPECIFICATION Spec
CONSTANTS
    None = None
    MaxClaims = 2
    MaxTickets = 2
    MaxUpsets = 1
    MaxCrashes = 0
    MaxFaults = 0
INVARIANT OneTurn
CHECK_DEADLOCK FALSE
