--------------------------- MODULE MCStethServices ---------------------------
(* Four services of ethereum-steth that share no state, each taken for itself *)
(* while the others rest.  Part says which of them a run looks at:            *)
(*   storage: the storage watcher with nine slots, one to a part, the last of *)
(*     them an array, and fifteen blocks from one in the middle of a round;   *)
(*   gateSeal: two seals and two open block calls; a day is one block;        *)
(*   requests: the withdrawals' table under two open calls;                   *)
(*   alerts: the withdrawals' daily alerts, one call after the other;         *)
(*   rebases: requests and oracle reports, one call after the other;          *)
(*   buffer: two open calls, four blocks from the start, of which a           *)
(*     reorganisation replaces one, one of the blocks they check that         *)
(*     decreases the buffered ether, any ends of the process;                 *)
(*   depositable: nine samples, an hour two, a day four and three days six.   *)
(* For the withdrawals every second block is one of the hundredth.            *)
EXTENDS StorageWatcher, TLC

CONSTANTS
    Part, Seals, Default, NoSeal, Calls, Checks,
    OneDay, TwoWeeks, ThreeMonths, SealEpoch, MaxTime,  \* of the gate seal
    Cadence, OneHour, FiveDays, RequestWeeks, MaxAlerts, BigSum, ReportLag, Past, Kinds, Due,
    QueueEpoch, MaxRequests, QueueBlocks,               \* of the withdrawals
    AlertCalls, AlertDays, AlertKinds, AlertDue,        \* of their alerts
    BufferStart, MaxBlock, MaxReorg,                    \* of the buffered ether
    Hour, Day, Days3, SampleStart, MaxNow               \* of the depositable ether

VARIABLES
    service,
    created, expiry, head, newest, gateSealAddress, runner, lastNoPauseRoleAlertTimestamp,
    lastExpiryGateSealAlertTimestamp, open, initialized, findings, raced,
    chain, tx, todo, started, table, isBunkerMode, lastAlert, lastTokenRebaseTimestamp,
    amountRequested, alertsCount, call, refreshed, hidden, scanned, late, bigReported, told,
    dropped,
    bufferHead, forkAt, drain, delivered, running, prev4Blocks, bufferCall, reported, unchecked,
    overlapped,
    sampleTime, ether, criticalDepositableAmountTimestamp,
    lastReportedDepositableEthTimestamp, lastDepositorTxTime, taken, hugeFrom, highFrom

sealVars == <<created, expiry, head, newest, gateSealAddress, runner,
              lastNoPauseRoleAlertTimestamp, lastExpiryGateSealAlertTimestamp, open,
              initialized, findings, raced>>
withdrawalVars == <<chain, tx, todo, started, table, isBunkerMode, lastAlert,
                    lastTokenRebaseTimestamp, amountRequested, alertsCount, call, refreshed,
                    hidden, scanned, late, bigReported, told, dropped>>
bufferVars == <<bufferHead, forkAt, drain, delivered, running, prev4Blocks, bufferCall, reported,
                unchecked, overlapped>>
etherVars == <<sampleTime, ether, criticalDepositableAmountTimestamp,
               lastReportedDepositableEthTimestamp, lastDepositorTxTime, taken, hugeFrom,
               highFrom>>

Seal == INSTANCE GateSeal WITH Epoch <- SealEpoch

(* The queue of a chain on which a request was made, then another one while   *)
(* the first was finalized, then the first was claimed.                       *)
PastQueues == {[last |-> 1, finalizedTo |-> 0, claimed |-> {}, bunker |-> FALSE],
               [last |-> 2, finalizedTo |-> 1, claimed |-> {}, bunker |-> FALSE],
               [last |-> 2, finalizedTo |-> 1, claimed |-> {1}, bunker |-> FALSE]}

Requests == INSTANCE StethWithdrawals WITH
    TwoWeeks <- RequestWeeks, Epoch <- QueueEpoch, MaxBlocks <- QueueBlocks

Alerts == INSTANCE StethWithdrawals WITH
    Calls <- AlertCalls, FiveDays <- AlertDays, TwoWeeks <- RequestWeeks,
    Kinds <- AlertKinds, Due <- AlertDue, Epoch <- QueueEpoch, MaxBlocks <- QueueBlocks

Rebases == INSTANCE StethWithdrawals WITH
    Calls <- AlertCalls, TwoWeeks <- RequestWeeks, BigSum <- 1, Kinds <- {"request", "report"},
    Due <- {}, Epoch <- QueueEpoch, MaxRequests <- MaxRequests + 1, MaxBlocks <- QueueBlocks + 2

Buffer == INSTANCE StethBuffer WITH
    Calls <- Checks, head <- bufferHead, call <- bufferCall, Start <- BufferStart

Depositable == INSTANCE DepositableEther WITH
    now <- sampleTime, Start <- SampleStart

(* Drains that are on the chain in some run and are compared in some run; one *)
(* that an event explains is in the first block after the start.              *)
Compared == {d \in [block : Buffer!Blocks, explained : BOOLEAN] :
                /\ d.block[1] + 3 <= MaxBlock /\ (d.block[2] = 1 => d.block[1] >= BufferStart)
                /\ d.explained => d.block = <<BufferStart, 0>>}

ASSUME ServicesAssumption ==
    /\ Seal!GateSealAssumption
    /\ Requests!WithdrawalsAssumption /\ Alerts!WithdrawalsAssumption
    /\ Rebases!WithdrawalsAssumption
    /\ Buffer!BufferAssumption /\ Depositable!DepositableAssumption

MCInit ==
    /\ service \in Part
    /\ Init /\ Seal!Init /\ Buffer!Init /\ Depositable!Init
    /\ service # "gateSeal" => expiry[Default] = SealEpoch
    /\ IF service \in {"alerts", "rebases"} THEN Alerts!Init ELSE Requests!Init
    /\ service \notin {"requests", "alerts", "rebases"} => chain[1].claimed # {} /\ DOMAIN table = {1}
    /\ IF service = "buffer" THEN drain \in Compared
       ELSE drain = [block |-> <<BufferStart - 3, 0>>, explained |-> FALSE]
    /\ service # "depositable" => ether = "few" /\ lastDepositorTxTime = Depositable!Never

MCNext ==
    /\ \/ service = "storage" /\ Next
          /\ UNCHANGED <<sealVars, withdrawalVars, bufferVars, etherVars>>
       \/ service = "gateSeal" /\ Seal!Next
          /\ UNCHANGED <<vars, withdrawalVars, bufferVars, etherVars>>
       \/ /\ \/ service = "requests" /\ Requests!Next
             \/ service = "alerts" /\ Alerts!Next
             \/ service = "rebases" /\ Rebases!Next
          /\ UNCHANGED <<vars, sealVars, bufferVars, etherVars>>
       \/ service = "buffer" /\ Buffer!Next
          /\ UNCHANGED <<vars, sealVars, withdrawalVars, etherVars>>
       \/ service = "depositable" /\ Depositable!Next
          /\ UNCHANGED <<vars, sealVars, withdrawalVars, bufferVars>>
    /\ UNCHANGED service

MCSpec == MCInit /\ [][MCNext]_<<service, vars, sealVars, withdrawalVars, bufferVars, etherVars>>

Symmetry == Permutations(Calls) \union Permutations(Checks)

(* All variables have their types, in all services.                           *)
TypesOK == TypeOK /\ Seal!TypeOK /\ (service = "requests" => Requests!TypeOK)
                  /\ (service = "alerts" => Alerts!TypeOK)
                  /\ (service = "rebases" => Rebases!TypeOK)
                  /\ Buffer!TypeOK /\ Depositable!TypeOK

(* The newest seal is watched, unless it was created during a block call.     *)
WatchesNewest == Seal!WatchesNewest

(* README: the "is expired" alert names a seal that has expired.              *)
ExpiredAlertIsTrue == Seal!ExpiredAlertIsTrue

(* A flag in the table of withdrawal requests is true on the chain.           *)
TableIsTrue == Requests!TableIsTrue

(* No withdrawal request is passed over by the block calls.                   *)
NoRequestIsMissed == Requests!NoRequestIsMissed

(* The scan of unclaimed requests catches up with every claim.                *)
ClaimsAreNoticed == Requests!ClaimsAreNoticed

(* An alert of the withdrawals that sets its throttle is answered.            *)
AlertsLeave == service = "alerts" => Alerts!AlertsLeave

(* An unexplained decrease of the buffered ether is reported, unless the call *)
(* that was to check it was lost or checks before it have overlapped.         *)
DrainIsReported == Buffer!DrainIsReported

(* The block a drain is reported of lies on the chain and is the one, unless  *)
(* checks before it have overlapped.                                          *)
DrainIsTrue == Buffer!DrainIsTrue

(* Depositable ether that stays too much, or too long, is alerted once a day. *)
EtherIsTold == Depositable!EtherIsTold

(* README: a big sum of requests since a rebase is alerted.                   *)
BigRequestsAreReported == service = "rebases" => Rebases!BigRequestsAreReported
=============================================================================
