CONSTANTS
    WordMod = 32
    Disks <- Caps
    Limit = 8
    MaxLinks = 2
SPECIFICATION Spec
INVARIANT InsideDisk
