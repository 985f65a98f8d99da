SPECIFICATION MCSpec
CONSTANTS
    Part = {"withdrawals"}
    Calls = {c1, c2}
    Lag = 1
    MaxBlock = 4
    contractCallers <- Callers
    Impls = {1, 2}
    MaxChecks = 4
    Window = 3
    Cadence = 2
    MaxSum = 2
    Epoch = 3
    MaxNumber = 10
    MaxBatch = 3
INVARIANT
    HugeIsReported
CHECK_DEADLOCK FALSE
