SPECIFICATION FairSpec
CONSTANTS
    NoJob = NoJob
    Job = {j1, j2, j3}
    Worker = {w1, w2}
    Abortable = {j2, j3}
INVARIANTS OneOwner JobStateValid EnoughSignals CompleteAtShutdown
PROPERTIES AbortedStays ShutdownReturns JobsFinish
