\* One caller: a .dwo file whose first unit is not the split unit.
CONSTANTS
    Threads <- OneThread
    CUs <- MCCUs
    Ids <- MCIds
    Files <- MCFiles
    Contents <- MCContents
    NoPath = NoPath
    Missing = Missing
    Corrupt = Corrupt
    Unresolved = Unresolved
    NoSplit = NoSplit
    BaseFds = 1
    MaxFds = 2
    MaxCalls = 2
    i1 = i1
    i2 = i2
    f1 = f1
    f2 = f2
    c1 = c1
    t1 = t1
    t2 = t2

SPECIFICATION Spec
INVARIANT NoUseAfterEnd
CHECK_DEADLOCK FALSE
