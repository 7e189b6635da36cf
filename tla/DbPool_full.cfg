SPECIFICATION Spec
CONSTANTS
    NoQuery = NoQuery
    QueueSize = 2
    Backlog = 3
    MaxQueries = 4
INVARIANT AllJobsBeforeExit
CHECK_DEADLOCK FALSE
