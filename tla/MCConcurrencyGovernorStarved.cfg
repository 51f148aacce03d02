SPECIFICATION FairSpec
CONSTANTS
    Runs = {r1, r2}
    Observer = observer
    None = None
    Ceiling = 1
    IncreaseAfter = 1
    MaxWaiters = 2
    MaxOpen = 2
PROPERTY NoRunStarves
CHECK_DEADLOCK FALSE
