SPECIFICATION MCSpec
CONSTANTS
    Part = {"agent", "proxies", "withdrawals"}
    Calls = {c1, c2}
    Lag = 1
    MaxBlock = 4
    contractCallers <- Callers
    Impls = {1, 2}
    MaxChecks = 4
    Window = 3
    Cadence = 2
    MaxSum = 2
    Epoch = 3
    MaxNumber = 10
    MaxBatch = 3
INVARIANTS
    TypesOK
    EveryBlockIsAccounted
    ChangeIsTold
PROPERTIES
    CursorKeepsUp
    EveryBlockIsReached
CHECK_DEADLOCK FALSE
