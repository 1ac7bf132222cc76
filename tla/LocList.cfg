\* Every list of up to three entries; the walk stops at its end, at a
\* malformed entry or at a failed assert, as the program does.
CONSTANTS
    Lists <- MCLists
    Addrs <- MCAddrs
    CuBase = 1
SPECIFICATION Spec
INVARIANT SanityCheckExact
CHECK_DEADLOCK FALSE
