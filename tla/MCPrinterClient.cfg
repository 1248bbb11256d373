\* Sessions that may share a link: queries, prints of up to two copies, faults, drops.
CONSTANTS
    None = None
    HasCx = TRUE
    DropAware = TRUE
    Answers <- MCAnswers
    Reports <- MCReports
    MaxCopies = 2
    PollLimit = 2
    MaxWaiters = 3
    MaxSessions = 2
    MaxReports = 1
SPECIFICATION FairSpec
INVARIANTS TypeOK WaiterDiscipline AnswerFits OkMeansPrinted
    FaultSticks NoStrayHandler ConfirmIsOwn
PROPERTIES NothingMissed SessionEnds
\* The printer is left alone after MaxSessions sessions.
CHECK_DEADLOCK FALSE
