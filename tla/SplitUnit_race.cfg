\* Two callers resolving the same skeleton at the same time.
CONSTANTS
    Threads <- TwoThreads
    CUs <- MCCUs
    Ids <- MCIds
    Files <- MCFiles
    Contents <- MCContents
    NoPath = NoPath
    Missing = Missing
    Corrupt = Corrupt
    Unresolved = Unresolved
    NoSplit = NoSplit
    BaseFds = 1
    MaxFds = 3
    MaxCalls = 2
    i1 = i1
    i2 = i2
    f1 = f1
    f2 = f2
    c1 = c1
    t1 = t1
    t2 = t2

SPECIFICATION Spec
INVARIANT ResultsConsistent
CHECK_DEADLOCK FALSE
