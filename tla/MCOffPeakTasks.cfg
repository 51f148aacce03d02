SPECIFICATION FairSpec
CONSTANTS
    None = None
    MaxClaims = 2
    MaxTickets = 2
    MaxUpsets = 1
    MaxCrashes = 1
    MaxFaults = 1
INVARIANTS TypeOK OneExecution
PROPERTY ClaimsEnd
CHECK_DEADLOCK FALSE
