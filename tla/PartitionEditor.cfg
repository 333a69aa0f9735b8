CONSTANTS
    MiB = 4
    Disks <- MCDisks
    TypedSizes <- MCTypedSizes
    Mountpoints <- MCMountpoints
    MaxEdits = 3
    MaxListed = 5
SPECIFICATION Spec
INVARIANT NewPartitionsStayInside
INVARIANT ListMatchesDisk
INVARIANT ShownSpaceIsTheFreeSpace
INVARIANT SuggestionsLoad
