\* Two callers, one call each, sharing a descriptor table with room for
\* one split_fd only: opens race, and one caller can meet EMFILE.
CONSTANTS
    Threads <- TwoThreads
    CUs <- MCCUs
    Ids <- MCIds
    Files <- MCFiles
    Contents <- MCContents
    NoPath = NoPath
    Missing = Missing
    Corrupt = Corrupt
    Unresolved = Unresolved
    NoSplit = NoSplit
    BaseFds = 1
    MaxFds = 2
    MaxCalls = 1
    i1 = i1
    i2 = i2
    f1 = f1
    f2 = f2
    c1 = c1
    t1 = t1
    t2 = t2

SPECIFICATION Spec
INVARIANT IInv
INVARIANT LinkedDwarfDetached
PROPERTY CallsReturn
\* The callers make finitely many calls and then stop.
CHECK_DEADLOCK FALSE
