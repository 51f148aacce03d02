SPECIFICATION FairSpec
CONSTANTS
    None = None
    s1 = s1
    s2 = s2
    Order <- FlowOrder
    Script <- FlowScript
    ActorSite <- FlowActors
    Typed = {"draft"}
    Catches = {s1}
    Awaited = {s1, s2}
    Caps = {1, 2}
    RepairAttempts = 1
    NudgeAttempts = 1
    StopReasons = {"user", "superseded"}
    MaxLives = 2
    MaxCrashes = 1
    MaxFaults = 1
INVARIANTS TypeOK SlotsAreAccounted AsksRunInOrder TurnServesItsAsk NoIdleSlot
PROPERTIES RunEnds TurnsStartForOpenAsks AnswersRepeat LedgerSpec
CHECK_DEADLOCK FALSE
