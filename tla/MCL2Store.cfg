SPECIFICATION Spec
CONSTANTS
    Calls = {c1, c2}
    Lag = 1
    Age = 2
    Keep = 1
    MaxBlock = 3
    MaxRestarts = 1
    Sent <- SentInBlocks
SYMMETRY Symmetry
INVARIANTS
    TypeOK
    WithdrawalsAreRecorded
PROPERTIES
    KeepsStream
