SPECIFICATION Spec
CONSTANTS
    None = None
    s1 = s1
    s2 = s2
    Order <- FlowOrder
    Script <- ChainScript
    ActorSite <- ChainActors
    Typed = {}
    Catches = {}
    Awaited = {s1, s2}
    Caps = {2}
    RepairAttempts = 1
    NudgeAttempts = 1
    StopReasons = {"user"}
    MaxLives = 2
    MaxCrashes = 0
    MaxFaults = 0
INVARIANT ReplayMatchesJournal
CHECK_DEADLOCK FALSE
