SPECIFICATION Spec
CONSTANTS
    NoQuery = NoQuery
    QueueSize = 3
    Backlog = 2
    MaxQueries = 3
INVARIANT ServersAsAsked
CHECK_DEADLOCK FALSE
