CONSTANTS
    Pids = {2, 3}
    Tables <- Shipped
    Signals = {"HUP"}
    MaxSent = 1
    Faults = {"fork"}
    MaxOrphans = 0
SPECIFICATION Spec
PROPERTY RestartsOnExit
