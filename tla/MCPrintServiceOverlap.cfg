\* Are prints serialised over an unload and a new setup?
CONSTANTS
    p1 = p1
    p2 = p2
    j1 = j1
    j2 = j2
    Entries <- MCEntries
    Jobs <- MCJobs
    NoDevice = NoDevice
    KeepLink = TRUE
    OverlapEntries = FALSE
    OverlapJobs = TRUE
    MaxSetups = 2
SPECIFICATION Spec
INVARIANT OneBleJob
\* No setup is left to do and every call has been made.
CHECK_DEADLOCK FALSE
