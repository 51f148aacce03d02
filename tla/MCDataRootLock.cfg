SPECIFICATION Spec
CONSTANTS
    Processes = {p1, p2}
    Empty = Empty
    None = None
    MaxFiles = 4
INVARIANT MutualExclusion
CHECK_DEADLOCK FALSE
