\* One caller making two calls for one unit, over every attribute and
\* path combination and every shape of the two .dwo files.
CONSTANTS
    Threads <- OneThread
    CUs <- MCCUs
    Ids <- MCIds
    Files <- MCFiles
    Contents <- MCContents
    NoPath = NoPath
    Missing = Missing
    Corrupt = Corrupt
    Unresolved = Unresolved
    NoSplit = NoSplit
    BaseFds = 1
    MaxFds = 2
    MaxCalls = 2
    i1 = i1
    i2 = i2
    f1 = f1
    f2 = f2
    c1 = c1
    t1 = t1
    t2 = t2

SPECIFICATION Spec
INVARIANT TypeOK
INVARIANT FdHygiene
INVARIANT LinkSymmetric
INVARIANT LinkedDwarfDetached
INVARIANT ResultsConsistent
PROPERTY ResolveOnce
PROPERTY CallsReturn
\* The callers make finitely many calls and then stop.
CHECK_DEADLOCK FALSE
