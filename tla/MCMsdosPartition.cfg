CONSTANTS
    WordMod = 32
    Disks <- AllDisks
    Limit = 8
    MaxLinks = 2
SPECIFICATION Spec
INVARIANT TypeOK
INVARIANT InsideUnlessWrapped
INVARIANT FollowsTheList
PROPERTY WholeDiskTried
PROPERTY Terminates
