SPECIFICATION Spec
CONSTANTS
    NoJob = NoJob
    Job = {j1, j2, j3}
    Worker = {w1, w2}
    Abortable = {j2, j3}
INVARIANT AbortsAllAbortable
