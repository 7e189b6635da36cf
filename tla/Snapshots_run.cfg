\* Two ticks of a first map and six of a second; the server keeps three ticks.
CONSTANTS
    MaxMaps = 2
    FirstTicks = 2
    SecondTicks = 6
    MaxTick <- MCMaxTick
    FullParts = 2
    DeltaParts = 1
    KeepTicks = 3
    InitEvery = 1
    RecoverEvery = 2
    MaxDown = 2
    MaxUp = 2
    Repeated = {3}
    NoMap = NoMap
    Garbage = Garbage
SPECIFICATION Spec
INVARIANTS PointersValid StoredRight BaseKept Recovers
PROPERTIES DeltaWhileKept ViewSpec
\* The bounds on maps and ticks end the game.
CHECK_DEADLOCK FALSE
