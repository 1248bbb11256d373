\* Does every fault while printing fail the print?
CONSTANTS
    None = None
    HasCx = TRUE
    DropAware = TRUE
    Answers <- MCAnswers
    Reports <- MCReports
    MaxCopies = 2
    PollLimit = 2
    MaxWaiters = 1
    MaxSessions = 1
    MaxReports = 1
SPECIFICATION Spec
INVARIANT FaultReported
\* The printer is left alone after MaxSessions sessions.
CHECK_DEADLOCK FALSE
