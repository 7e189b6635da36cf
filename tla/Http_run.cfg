CONSTANTS
    Requests = {r1, r2, r3}
    Timed = {r1, r2}
SPECIFICATION FairSpec
INVARIANTS OnePlace NothingLeft Grace
PROPERTIES ShutdownEnds RequestsEnd
CHECK_DEADLOCK FALSE
