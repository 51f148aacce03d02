SPECIFICATION FairSpec
CONSTANTS
    None = None
    Supervisors = {s1, s2}
    Uninstaller = uninstaller
    Releases = {r1, r2}
    Bundled = bundled
    Installed = r1
    CoreIds = {1, 2}
    CrashBudget = 1
    MaxPrepares = 1
    MaxFaults = 1
INVARIANTS TypeOK OneCore UninstalledRunsNothing RollbackPoint
PROPERTIES BootsSettled LifecycleEnds
CHECK_DEADLOCK FALSE
