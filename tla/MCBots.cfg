SPECIFICATION MCSpec
CONSTANTS
    Part = {"withdrawals", "operators", "proxies", "throttles", "buffer", "voting", "csm"}
    Window = 3
    Cadence = 2
    Limits = {1, 2}
    Epoch = 4
    MaxTime = 7
    MaxEvents = 1
    BotEpoch = 3
    BotMaxTime = 6
    maxHandlerRetries = 2
    Validators = {v1}
    Operators = {o1}
    OpWindow = 1
    BlocksPerDay = 5
    Stats = {{"none active", "bad state"}}
    Wrong = {{o1}}
    MaxOrphans = 1
    Proxies = {p1, p2, p3}
    DaoWindow <- Windows
    DaoCadence <- EverySecond
    Huge = 1
    High = 2
    MaxInterval = 1
    DaoLevels = {"normal"}
    DaoOpen = 0
    NumVotes = 1
    VoteStart = 1
    VoteMaxBlock = 6
    MaxLate = 1
    Numbers = {1, 2}
    Addresses = {a1, a2}
    MaxSame = 1
    OneDay = 1
    CsmStart = 3
    CsmMaxBlock = 6
    MaxCalls = 2
    MaxTxs = 2
    MaxCrashes = 1
INVARIANTS
    TypesOK
    NothingIsLost
    BurstIsReported
    NewsIsTrue
    AdminsAreTold
    DueIsReported
    StartIsSustained
    EndIsTold
    SharedIsTold
PROPERTY
    CountedInPeriod
CHECK_DEADLOCK FALSE
