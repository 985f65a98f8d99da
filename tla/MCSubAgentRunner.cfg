SPECIFICATION FairSpec
CONSTANTS
    Agents = {a1, a2}
    Blocks = {b1, b2}
    Txs = {t1}
    maxHandlerRetries = 2
    MaxEvents = 2
INVARIANTS
    TypeOK
    LaunchReportedOnce
    EveryAgentAnswers
PROPERTY
    EveryEventAnswered
CHECK_DEADLOCK FALSE
