CONSTANTS
    Addrs = {v4}
    Secrets <- MCSecrets
    NoSecret = NoSecret
    NoServer = NoServer
    NoInfo = NoInfo
    MaxEvents = 2
    MaxJobs = 2
SPECIFICATION FairSpec
INVARIANTS TablesAgree NoFalseSuccess
PROPERTY ListedInTheEnd
