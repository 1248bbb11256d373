\* Two printers and two calls, setups, unloads and calls overlapping.
CONSTANTS
    p1 = p1
    p2 = p2
    j1 = j1
    j2 = j2
    Entries <- MCEntries
    Jobs <- MCJobs
    NoDevice = NoDevice
    KeepLink = TRUE
    OverlapEntries = TRUE
    OverlapJobs = TRUE
    MaxSetups = 1
SPECIFICATION FairSpec
INVARIANTS TypeOK ServiceWhileLoaded LockGone OrphanClosed
PROPERTY JobsEnd
\* No setup is left to do and every call has been made.
CHECK_DEADLOCK FALSE
