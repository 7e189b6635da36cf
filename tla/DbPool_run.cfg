SPECIFICATION FairSpec
CONSTANTS
    NoQuery = NoQuery
    QueueSize = 3
    Backlog = 2
    MaxQueries = 3
INVARIANTS CopiedStays ReportedStored NotTwice AllJobsBeforeExit
PROPERTIES QueriesComplete ShutdownReturns
CHECK_DEADLOCK FALSE
