SPECIFICATION FairSpec
CONSTANTS
    Runs = {r1, r2}
    Observer = observer
    None = None
    Ceiling = 4
    IncreaseAfter = 2
    MaxWaiters = 2
    MaxOpen = 5
INVARIANTS TypeOK EveryWaiterWaitsForSomething
PROPERTIES CutNeedsAProbe WaitersAreServed
CHECK_DEADLOCK FALSE
