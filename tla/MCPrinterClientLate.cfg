\* Is what answers a query its own answer?
CONSTANTS
    None = None
    HasCx = TRUE
    DropAware = TRUE
    Answers <- MCAnswers
    Reports <- MCReports
    MaxCopies = 2
    PollLimit = 2
    MaxWaiters = 3
    MaxSessions = 1
    MaxReports = 0
SPECIFICATION Spec
INVARIANT AnswerIsOwn
\* The printer is left alone after MaxSessions sessions.
CHECK_DEADLOCK FALSE
