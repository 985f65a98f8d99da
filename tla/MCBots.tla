------------------------------- MODULE MCBots --------------------------------
(* Bots that share no state, each taken for itself while the others rest.  Of  *)
(* lido-on-polygon, the withdrawals monitor over four blocks with two that may *)
(* report, the node operators and the DAO operations over three blocks with    *)
(* two attempts, and the proxy admin check with three proxies and two          *)
(* attempts.  The DAO operations come twice: with a throttled check that runs  *)
(* at every second block, and with a buffer that fills and empties and with    *)
(* reward distributions.  voting-watcher, with one vote over five blocks and   *)
(* an attempt that times out; csm-alerts, with two node operators that may     *)
(* share one address of two, and a restart.                                    *)
EXTENDS WithdrawalsMonitor

CONSTANTS
    Part,                                   \* the parts taken in this run
    BotEpoch, BotMaxTime, maxHandlerRetries, \* of the other sub-agents of lido-on-polygon
    Validators, Operators, OpWindow, BlocksPerDay, Stats, Wrong, MaxOrphans, \* the node operators
    Proxies,
    DaoWindow, DaoCadence, Huge, High, MaxInterval, DaoLevels, DaoOpen, \* the DAO operations
    NumVotes, VoteStart, VoteMaxBlock, MaxLate,                   \* voting-watcher
    Numbers, Addresses, MaxSame, OneDay, CsmStart, CsmMaxBlock, MaxCalls, MaxTxs, MaxCrashes \* csm-alerts

VARIABLES
    part,
    opNow, chain, opStatus, opRetries, found, pending, lidoValidatorGoesInactiveReport,
    lastReported, news, untold,
    admin, proxyAdminFor, asked, orphans, retries, throttled, findings, status,
    daoNow, run, daoPending, daoReported, hugePooledMaticStart, highPooledMaticStart,
    lastRewardsDistributeTime, distribution, delivered, due, lastSeen, overtaken,
    voteNow, votes, activeVotes, voteRun, late, voteAnswered, known, told, dropped,
    head, added, nodeOperatorAddedEvents, addressCounts, lastDuplicateAddressesAlertTimestamp,
    csmDelivered, calls, txs, txCount, crashes, csmAnswered, toldAt, sharedFrom, falseAlerts

opVars == <<opNow, chain, opStatus, opRetries, found, pending,
            lidoValidatorGoesInactiveReport, lastReported, news, untold>>
proxyVars == <<admin, proxyAdminFor, asked, orphans, retries, throttled, findings, status>>
daoVars == <<daoNow, run, daoPending, daoReported, hugePooledMaticStart, highPooledMaticStart,
             lastRewardsDistributeTime, distribution, delivered, due, lastSeen, overtaken>>
voteVars == <<voteNow, votes, activeVotes, voteRun, late, voteAnswered, known, told, dropped>>
csmVars == <<head, added, nodeOperatorAddedEvents, addressCounts,
             lastDuplicateAddressesAlertTimestamp, csmDelivered, calls, txs, txCount, crashes,
             csmAnswered, toldAt, sharedFrom, falseAlerts>>

NodeOps == INSTANCE NodeOperators WITH
    now <- opNow, status <- opStatus, retries <- opRetries,
    Window <- OpWindow, Epoch <- BotEpoch, MaxTime <- BotMaxTime

ProxyAdmin == INSTANCE ProxyAdminCheck

(* The windows of the throttles, and the blocks their check runs at.          *)
Windows == [k \in {"executor", "buffered", "rewards"} |-> IF k = "executor" THEN 2 ELSE 1]
EverySecond == [c \in {"executor"} |-> 2]

DaoChecks == INSTANCE DaoOps WITH
    now <- daoNow, pending <- daoPending, lastReported <- daoReported,
    Checks <- DOMAIN DaoCadence, Cadence <- DaoCadence, Window <- DaoWindow,
    Epoch <- BotEpoch, MaxTime <- BotMaxTime, Levels <- DaoLevels, MaxOpen <- DaoOpen

DaoBuffer == INSTANCE DaoOps WITH
    now <- daoNow, pending <- daoPending, lastReported <- daoReported,
    Checks <- DOMAIN DaoCadence, Cadence <- [c \in DOMAIN DaoCadence |-> 7], Window <- DaoWindow,
    Epoch <- BotEpoch, MaxTime <- BotMaxTime, Levels <- {"normal", "huge"}, MaxOpen <- 1

Voting == INSTANCE VotingWatcher WITH
    now <- voteNow, chain <- votes, run <- voteRun, answered <- voteAnswered,
    Start <- VoteStart, MaxBlock <- VoteMaxBlock

Csm == INSTANCE CsmModule WITH
    delivered <- csmDelivered, answered <- csmAnswered,
    Operators <- Numbers, Start <- CsmStart, MaxBlock <- CsmMaxBlock

ASSUME BotsAssumption ==
    /\ Part \subseteq {"withdrawals", "operators", "proxies", "throttles", "buffer", "voting", "csm"}
    /\ NodeOps!NodeOperatorsAssumption /\ ProxyAdmin!ProxyAdminAssumption
    /\ DaoChecks!DaoOpsAssumption /\ DaoBuffer!DaoOpsAssumption
    /\ Voting!VotingAssumption /\ Csm!CsmAssumption

(* The parts that rest do so in one initial state.                            *)
MCInit ==
    /\ part \in Part
    /\ Init /\ NodeOps!Init /\ ProxyAdmin!Init /\ DaoChecks!Init
    /\ part # "withdrawals" => seen = {}
    /\ part # "proxies" => admin = [p \in Proxies |-> "ours"]
    /\ part \notin {"throttles", "buffer"} => lastRewardsDistributeTime = 0
    /\ \/ part = "voting"
       \/ part # "voting" /\ votes = [k \in Voting!Votes |->
                                 [from |-> VoteStart, to |-> VoteStart + 3, many |-> FALSE, passes |-> FALSE]]
    /\ Voting!Init
    /\ \/ part = "csm"
       \/ part # "csm" /\ LET a == CHOOSE a \in Addresses : TRUE
                         IN  added = [o \in Numbers |-> [in |-> 3, manager |-> a, reward |-> a]]
    /\ Csm!Init

MCNext ==
    /\ \/ part = "withdrawals" /\ Next
             /\ UNCHANGED <<opVars, proxyVars, daoVars, voteVars, csmVars>>
       \/ part = "operators" /\ NodeOps!Next
             /\ UNCHANGED <<vars, proxyVars, daoVars, voteVars, csmVars>>
       \/ part = "proxies" /\ ProxyAdmin!Next
             /\ UNCHANGED <<vars, opVars, daoVars, voteVars, csmVars>>
       \/ part = "throttles" /\ DaoChecks!Next
             /\ UNCHANGED <<vars, opVars, proxyVars, voteVars, csmVars>>
       \/ part = "buffer" /\ DaoBuffer!Next
             /\ UNCHANGED <<vars, opVars, proxyVars, voteVars, csmVars>>
       \/ part = "voting" /\ Voting!Next
             /\ UNCHANGED <<vars, opVars, proxyVars, daoVars, csmVars>>
       \/ part = "csm" /\ Csm!Next
             /\ UNCHANGED <<vars, opVars, proxyVars, daoVars, voteVars>>
    /\ UNCHANGED part

MCSpec == MCInit /\ [][MCNext]_<<part, vars, opVars, proxyVars, daoVars, voteVars, csmVars>>

(* All variables have their types: those of the other parts keep their        *)
(* initial values.                                                            *)
TypesOK ==
    CASE part = "withdrawals" -> TypeOK
      [] part = "operators" -> NodeOps!TypeOK
      [] part = "proxies" -> ProxyAdmin!TypeOK
      [] part \in {"throttles", "buffer"} -> DaoChecks!TypeOK
      [] part = "voting" -> Voting!TypeOK
      [] part = "csm" -> Csm!TypeOK

(* The news that was sent last of a validator says whether it is active.      *)
NewsIsTrue == NodeOps!NewsIsTrue

(* An answered block tells of the proxies another contract administers.       *)
AdminsAreTold == ProxyAdmin!AdminsAreTold

(* What a block of the DAO operations gives reason for is reported within the *)
(* window of its throttle.                                                    *)
DueIsReported == DaoChecks!DueIsReported

(* The timers of the buffer mean what their alerts say.                       *)
StartIsSustained == DaoChecks!StartIsSustained

(* The end of a vote the voting watcher knew is told with the next block it   *)
(* answers, or has got lost in an attempt of its own.                         *)
EndIsTold == Voting!EndIsTold

(* An address that too many node operators share is alerted once a day.       *)
SharedIsTold == Csm!SharedIsTold

(* README of csm-alerts: the alert of shared addresses tells of more than the *)
(* allowed number of operators.                                               *)
DuplicatesAreTrue == Csm!DuplicatesAreTrue
=============================================================================
