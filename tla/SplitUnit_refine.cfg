\* One caller making two calls: the resolver implements SplitLink.
CONSTANTS
    Threads <- OneThread
    CUs <- MCCUs
    Ids <- MCIds
    Files <- MCFiles
    Contents <- MCContents
    NoPath = NoPath
    Missing = Missing
    Corrupt = Corrupt
    Unresolved = Unresolved
    NoSplit = NoSplit
    BaseFds = 1
    MaxFds = 2
    MaxCalls = 2
    i1 = i1
    i2 = i2
    f1 = f1
    f2 = f2
    c1 = c1
    t1 = t1
    t2 = t2
SPECIFICATION Spec
PROPERTY AbsSpec
\* The callers make finitely many calls and then stop.
CHECK_DEADLOCK FALSE
