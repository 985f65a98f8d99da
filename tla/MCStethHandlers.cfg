SPECIFICATION MCSpec
CONSTANTS
    Part = {"health", "handlers"}
    BorderTime = 2
    MaxCountErrors = 3
    MaxBatch = 3
    MaxNow = 5
    MaxChecks = 5
    NoTime = NoTime
    Services = {gateSeal, aave}
    Returned = {gateSeal}
    Calls = {c1, c2}
    MaxBlocks = 3
    MaxInits = 2
    MaxLives = 2
INVARIANTS
    TypesOK
    WindowIsFaithful
    UnhealthyIsEarned
    BurstIsNoticed
    StartFindingsOnce
PROPERTY
    LaunchIsReported
CHECK_DEADLOCK FALSE
