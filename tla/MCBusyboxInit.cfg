CONSTANTS
    Pids = {2, 3}
    Tables <- Inittabs
    Signals = {"HUP", "INT", "QUIT", "TERM"}
    MaxSent = 1
    Faults = {"fork", "stop"}
    MaxOrphans = 1
SPECIFICATION Spec
INVARIANT TypeOK
INVARIANT NoDuplicate
INVARIANT Tracked
INVARIANT ListMatchesFile
PROPERTY StagesInOrder
PROPERTY Noticed
PROPERTY IdleRunsAgain
