SPECIFICATION MCSpec
CONSTANTS
    Part = {"rebases"}
    NumSlots = 9
    Arrays = {9}
    FirstBlock = 6
    MaxBlocks = 15
    Seals = {s1, s2}
    Default = s1
    NoSeal = NoSeal
    Calls = {c1, c2}
    Checks = {k1}
    OneDay = 1
    TwoWeeks = 2
    ThreeMonths = 2
    SealEpoch = 3
    MaxTime = 7
    Cadence = 2
    OneHour = 1
    FiveDays = 8
    RequestWeeks = 1
    MaxAlerts = 1
    BigSum = 2
    ReportLag = 1
    Past <- PastQueues
    Kinds = {"request", "report", "claim"}
    Due = {}
    QueueEpoch = 2
    MaxRequests = 3
    QueueBlocks = 4
    AlertCalls = {c0}
    AlertDays = 2
    AlertKinds = {"none", "bunker", "claim"}
    AlertDue = {"onPar", "bigQueue", "unclaimedRate", "balance", "claimedMore"}
    BufferStart = 5
    MaxBlock = 9
    MaxReorg = 1
    Hour = 2
    Day = 4
    Days3 = 6
    SampleStart = 7
    MaxNow = 15
INVARIANT
    BigRequestsAreReported
CHECK_DEADLOCK FALSE
