\* One setup or unload at a time, and none while a call is running.
CONSTANTS
    p1 = p1
    p2 = p2
    j1 = j1
    j2 = j2
    Entries <- MCEntries
    Jobs <- MCJobs
    NoDevice = NoDevice
    KeepLink = TRUE
    OverlapEntries = FALSE
    OverlapJobs = FALSE
    MaxSetups = 2
SPECIFICATION Spec
SYMMETRY Symmetry
INVARIANT SharedInTurn
PROPERTY CallsInTurn
\* No setup is left to do and every call has been made.
CHECK_DEADLOCK FALSE
