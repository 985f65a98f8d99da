-------------------------- MODULE StethWithdrawals --------------------------
(***************************************************************************)
(* The withdrawals service of ethereum-steth (Withdrawals.srv.ts) with its  *)
(* table of requests (Withdrawals.repo.ts) and its cache.                   *)
(*                                                                          *)
(* The table follows the withdrawal queue along three ways: every block     *)
(* call adds the requests above the last one stored, every transaction      *)
(* call applies its events, and a scan at every hundredth block asks for    *)
(* the rows not claimed yet.  All read a status at a block and write it     *)
(* after an await, while other calls write theirs.                          *)
(*                                                                          *)
(* What the node says of a block does not change, so a request to it is     *)
(* taken together with the database request before or after it; a database  *)
(* request is a step.  Each may fail.  The chain is external: a block has   *)
(* one transaction, and its number is its timestamp.                        *)
(***************************************************************************)
EXTENDS Naturals, Sequences, FiniteSetsExt

CONSTANTS
    Calls,      \* handleBlock and handleTransaction calls that may be open at once
    Cadence,    \* ONCE_PER_100_BLOCKS
    OneHour, OneDay, FiveDays, TwoWeeks,
    MaxAlerts,  \* CLAIMED_MORE_THEN_REQUESTED_5_ATTEMPT_PER_HOUR
    BigSum,     \* THRESHOLD_OF_150K_STETH, counted in requests
    ReportLag,  \* how long after its reportTimestamp an oracle report gets on the chain
    Past,       \* what the queue may look like when the bot starts, and did earlier
    Kinds,      \* kinds of transactions
    Due,        \* the alerts that the amounts on the chain may give reason for
    Epoch,      \* the block before the first one
    MaxRequests, MaxBlocks \* bounds

WithdrawalsAssumption ==
    /\ {OneHour, OneDay, FiveDays, TwoWeeks, MaxAlerts, BigSum, ReportLag, MaxRequests,
        MaxBlocks, Epoch} \subseteq Nat
    /\ Cadence \in Nat \ {0} /\ MaxBlocks >= 1
    /\ OneDay < Epoch /\ ReportLag <= Epoch
    /\ \A p \in Past : /\ p \in [last : 1..MaxRequests, finalizedTo : Nat, claimed : SUBSET Nat,
                                bunker : BOOLEAN]
                      /\ p.claimed \subseteq 1..p.finalizedTo /\ p.finalizedTo <= p.last

VARIABLES
    chain,      \* the queue as of every block: a block's number is Epoch plus its index
    tx,         \* the transaction of the head block
    todo,       \* what the scan node has still to send of it
    started,    \* initialize has succeeded
    table,      \* withdrawal_requests: the stored requests' flags
    isBunkerMode,
    lastAlert,  \* the cache's timestamps of last alerts
    lastTokenRebaseTimestamp,
    amountRequested, \* amountOfRequestedStETHSinceLastTokenRebase
    alertsCount,     \* claimedAmountMoreThanRequestedAlertsCount
    call,
    refreshed,  \* history: the last block up to which the requests have been stored
    hidden,     \* history: requests not stored when a later one was
    scanned,    \* history: the last block whose unclaimed requests were written
    late,       \* history: rows written as unclaimed when they were claimed already
    bigReported,\* history: the big sum was reported since the last rebase
    told,       \* history: the alerts of block calls that were answered
    dropped     \* history: the times of unclaimed-rate alerts lost to a failed request

cache == <<isBunkerMode, lastAlert, lastTokenRebaseTimestamp, amountRequested, alertsCount>>
node == <<chain, tx, todo, started>>
stored == <<table, refreshed, hidden, scanned, late>>
alerts == <<told, dropped>>
vars == <<node, stored, cache, call, bigReported, alerts>>

Requests == 1..MaxRequests
Daily == {"onPar", "bigQueue", "longQueue", "unclaimedRate", "balance"}
Alert == Daily \union {"claimedMore", "bigRequests"}
NoTx == [kind |-> "none", ids |-> {}, to |-> 0]
Closed == [at |-> "closed", block |-> 0, ids |-> {}, to |-> 0, first |-> 0,
           onPar |-> "over", queue |-> "over", unclaimed |-> "over", rows |-> {}, found |-> {}]

head == Len(chain)
time(b) == Epoch + b

(* getWithdrawalStatuses, one request: its flags as of a block.               *)
status(r, b) == [finalized |-> r <= chain[b].finalizedTo, claimed |-> r \in chain[b].claimed]
timestamp(r) == time(Min({b \in 1..head : r <= chain[b].last}))

TypeOK ==
    /\ head \in 1..MaxBlocks
    /\ \A b \in 1..head : chain[b].last \in Requests /\ chain[b].claimed \subseteq Requests
    /\ todo \subseteq {"block", "tx"} /\ started \in BOOLEAN
    /\ DOMAIN table \subseteq Requests
    /\ \A r \in DOMAIN table : table[r] \in [finalized : BOOLEAN, claimed : BOOLEAN]
    /\ isBunkerMode \in BOOLEAN /\ bigReported \in BOOLEAN
    /\ lastAlert \in [Alert -> {0} \union (Epoch + 1)..(Epoch + MaxBlocks)]
    /\ lastTokenRebaseTimestamp \in 0..(Epoch + MaxBlocks)
    /\ amountRequested \in 0..MaxRequests
    /\ alertsCount \in Nat
    /\ \A c \in Calls : call[c].block \in 0..head /\ call[c].found \subseteq Daily

Init ==
    /\ \E past, now \in Past :
          /\ past.last <= now.last /\ past.finalizedTo <= now.finalizedTo
          /\ past.claimed \subseteq now.claimed
          /\ chain = <<now>>
          /\ table = [r \in 1..past.last |->
                         [finalized |-> r <= past.finalizedTo, claimed |-> r \in past.claimed]]
    /\ tx = NoTx /\ todo = {} /\ started = FALSE
    /\ isBunkerMode = FALSE
    /\ lastAlert = [k \in Alert |-> 0]
    /\ lastTokenRebaseTimestamp = 0 /\ amountRequested = 0 /\ alertsCount = 0
    /\ call = [c \in Calls |-> Closed]
    /\ refreshed = 0 /\ scanned = 0 /\ hidden = {} /\ late = {}
    /\ bigReported = FALSE /\ told = {} /\ dropped = {}

-----------------------------------------------------------------------------
(* The chain: a block with a transaction.                                     *)
transactions(k) ==
    LET q == chain[head]
    IN  CASE k = "request" -> {[kind |-> k, ids |-> (q.last + 1)..n, to |-> 0] :
                                  n \in (q.last + 1)..MaxRequests}
          [] k = "report"  -> {[kind |-> k, ids |-> {}, to |-> n] : n \in q.finalizedTo..q.last}
          [] k = "claim"   -> {[kind |-> k, ids |-> S, to |-> 0] :
                                  S \in SUBSET ((1..q.finalizedTo) \ q.claimed) \ {{}}}
          [] k = "bunker"  -> {[NoTx EXCEPT !.kind = IF q.bunker THEN "bunkerOff" ELSE "bunkerOn"]}
          [] OTHER -> {NoTx}

after(q, t) ==
    CASE t.kind = "request"   -> [q EXCEPT !.last = Max(t.ids)]
      [] t.kind = "report"    -> [q EXCEPT !.finalizedTo = t.to]
      [] t.kind = "claim"     -> [q EXCEPT !.claimed = @ \union t.ids]
      [] t.kind = "bunkerOn"  -> [q EXCEPT !.bunker = TRUE]
      [] t.kind = "bunkerOff" -> [q EXCEPT !.bunker = FALSE]
      [] OTHER -> q

nextBlock ==
    /\ started /\ todo = {} /\ head < MaxBlocks
    /\ \E k \in Kinds : \E t \in transactions(k) :
          /\ chain' = Append(chain, after(chain[head], t))
          /\ tx' = t
          /\ todo' = IF t = NoTx THEN {"block"} ELSE {"block", "tx"}
    /\ UNCHANGED <<started, stored, cache, call, bigReported, alerts>>

-----------------------------------------------------------------------------
(* The table.  createOrUpdate: an upsert of the statuses as of a block.       *)
upsert(ids, b) ==
    [r \in DOMAIN table \union ids |-> IF r \in ids THEN status(r, b) ELSE table[r]]

createOrUpdate(ids, b) ==
    /\ table' = upsert(ids, b)
    /\ late' = (late \ ids) \union {r \in ids : r \in chain[head].claimed \ chain[b].claimed}

(* setFinalizedRequests: all rows up to an id; a bug would go one further.    *)
oneFurther(r, to) == r <= to + 1
reached(r, to) == r <= to

setFinalizedRequests(to) ==
    table' = [r \in DOMAIN table |->
                 IF reached(r, to) THEN [table[r] EXCEPT !.finalized = TRUE] ELSE table[r]]

setWithdrawalRequestClaimed(r) ==
    table' = IF r \in DOMAIN table THEN [table EXCEPT ![r].claimed = TRUE] ELSE table

(* getUnclaimedReqIds; a bug would ask for the finalized ones only.           *)
finalizedUnclaimed == {r \in DOMAIN table : table[r].finalized /\ ~table[r].claimed}
getUnclaimedReqIds == {r \in DOMAIN table : ~table[r].claimed}

getLastRequestId == Max({0} \union DOMAIN table)
finalizedRows == {r \in DOMAIN table : table[r].finalized}
unfinalizedRows == DOMAIN table \ finalizedRows

(* initialize and fillUpWithdrawalStatusesTable: from the first unfinalized   *)
(* row on, the start block's statuses; without such a row, or when a request  *)
(* fails, an error.                                                           *)
initialize ==
    /\ ~started
    /\ isBunkerMode' = chain[head].bunker
    /\ \/ UNCHANGED <<started, table, late, refreshed>>
       \/ /\ unfinalizedRows # {}
          /\ createOrUpdate(Min(unfinalizedRows)..chain[head].last, head)
          /\ started' = TRUE /\ refreshed' = head
    /\ UNCHANGED <<chain, tx, todo, hidden, scanned, lastAlert,
                   lastTokenRebaseTimestamp, amountRequested, alertsCount, call, bigReported, alerts>>

-----------------------------------------------------------------------------
(* A block call.  It ends with its findings, if it has found any.             *)
goesOn(c, r) ==
    LET over == r.onPar = "over" /\ r.queue = "over" /\ r.unclaimed = "over"
    IN  /\ call' = [call EXCEPT ![c] = IF over THEN Closed ELSE r]
        /\ told' = IF over THEN told \union {<<k, time(r.block)>> : k \in r.found} ELSE told

(* The checks of every hundredth block run side by side.  Blocks that far     *)
(* apart are not checked at the same time.                                    *)
check(c) ==
    LET b == call[c].block
    IN  IF time(b) % Cadence = 0
        THEN goesOn(c, [Closed EXCEPT !.at = "checks", !.block = b, !.onPar = "ask",
                                      !.queue = "read", !.unclaimed = "ids"])
        ELSE goesOn(c, Closed)

fails(c) == call' = [call EXCEPT ![c] = Closed] /\ UNCHANGED <<stored, cache, bigReported, told>>

handleBlock(c) ==
    /\ "block" \in todo /\ call[c] = Closed
    /\ time(head) % Cadence = 0 =>
          \A d \in Calls : call[d].at \in {"last", "refresh", "checks"} =>
                               time(call[d].block) % Cadence # 0
    /\ todo' = todo \ {"block"}
    /\ call' = [call EXCEPT ![c] = [Closed EXCEPT !.at = "last", !.block = head]]
    /\ UNCHANGED <<chain, tx, started, stored, cache, bigReported, alerts>>

(* Is the table behind?  A bug would let it be one request behind.            *)
twoBehind(b) == chain[b].last > getLastRequestId + 1
isOutdated(b) == chain[b].last > getLastRequestId

(* The ids start with the last one stored.  Of an empty table that is 0, a    *)
(* request the contract refuses to tell the status of.                        *)
lastRequestIdRead(c) ==
    LET b == call[c].block
        ids == getLastRequestId..chain[b].last
    IN  /\ call[c].at = "last"
        /\ \/ fails(c)
           \/ /\ isOutdated(b) /\ 0 \notin ids
              /\ call' = [call EXCEPT ![c].at = "refresh", ![c].ids = ids]
              /\ UNCHANGED <<stored, told>>
           \/ /\ ~isOutdated(b)
              /\ refreshed' = Max({refreshed, b})
              /\ check(c)
              /\ UNCHANGED <<table, hidden, scanned, late>>
        /\ UNCHANGED <<node, cache, bigReported, dropped>>

refresh(c) ==
    LET b == call[c].block
    IN  /\ call[c].at = "refresh"
        /\ \/ fails(c)
           \/ /\ createOrUpdate(call[c].ids, b)
              /\ refreshed' = Max({refreshed, b})
              /\ hidden' = hidden \ call[c].ids
              /\ check(c)
              /\ UNCHANGED scanned
        /\ UNCHANGED <<node, cache, bigReported, dropped>>

(* An alert that its throttle lets through, raised now.                       *)
mayAlert(k, b) == time(b) > lastAlert[k] + OneDay
alerted(K, b) == [k \in Alert |-> IF k \in K THEN time(b) ELSE lastAlert[k]]
dueAlerts(K, b) == SUBSET {k \in K \intersect Due : mayAlert(k, b)}

handleQueueOnParWithStakeLimit(c) ==
    LET r == call[c]
    IN  /\ r.onPar = "ask"
        /\ \E found \in dueAlerts({"onPar"}, r.block) :
              /\ lastAlert' = alerted(found, r.block)
              /\ goesOn(c, [r EXCEPT !.onPar = "over", !.found = @ \union found])
        /\ UNCHANGED <<node, stored, isBunkerMode, lastTokenRebaseTimestamp, amountRequested,
                       alertsCount, bigReported, dropped>>

(* handleUnfinalizedRequestNumber: the last finalized and the first           *)
(* unfinalized row, one right after the other; then the queue's size.         *)
unfinalizedRead(c) ==
    LET r == call[c]
        asks == /\ finalizedRows # {} /\ unfinalizedRows # {}
                /\ time(r.block) >= timestamp(Max(finalizedRows))
    IN  /\ r.queue = "read"
        /\ \/ goesOn(c, [r EXCEPT !.queue = "over"])
           \/ asks /\ goesOn(c, [r EXCEPT !.queue = "ask", !.first = Min(unfinalizedRows)])
        /\ UNCHANGED <<node, stored, cache, bigReported, dropped>>

isLongQueue(r) ==
    /\ ~isBunkerMode
    /\ chain[r.block].last > chain[r.block].finalizedTo
    /\ time(r.block) > timestamp(r.first) + FiveDays

handleUnfinalizedRequestNumber(c) ==
    LET r == call[c]
    IN  /\ r.queue = "ask"
        /\ \/ goesOn(c, [r EXCEPT !.queue = "over", !.first = 0]) /\ UNCHANGED lastAlert
           \/ \E big \in dueAlerts({"bigQueue"}, r.block) :
                 LET long == {k \in {"longQueue"} : isLongQueue(r) /\ mayAlert(k, r.block)}
                 IN  /\ lastAlert' = alerted(big \union long, r.block)
                     /\ goesOn(c, [r EXCEPT !.queue = "over", !.first = 0,
                                            !.found = @ \union big \union long])
        /\ UNCHANGED <<node, stored, isBunkerMode, lastTokenRebaseTimestamp, amountRequested,
                       alertsCount, bigReported, dropped>>

(* handleUnclaimedRequests: read the unclaimed rows, write their statuses,    *)
(* read the finalized rows, remove the claimed ones older than two weeks, and *)
(* judge what is left.  Any of the requests ends it by failing.               *)
scanFails(c) ==
    /\ call[c].unclaimed \in {"ids", "write", "rows", "remove"}
    /\ goesOn(c, [call[c] EXCEPT !.unclaimed = "over", !.rows = {}])
    /\ UNCHANGED <<node, stored, cache, bigReported, dropped>>

unclaimedRead(c) ==
    /\ call[c].unclaimed = "ids"
    /\ goesOn(c, [call[c] EXCEPT !.unclaimed = "write", !.rows = getUnclaimedReqIds])
    /\ UNCHANGED <<node, stored, cache, bigReported, dropped>>

unclaimedWritten(c) ==
    LET r == call[c]
    IN  /\ r.unclaimed = "write"
        /\ createOrUpdate(r.rows, r.block)
        /\ scanned' = Max({scanned, r.block})
        /\ goesOn(c, [r EXCEPT !.unclaimed = "rows", !.rows = {}])
        /\ UNCHANGED <<node, refreshed, hidden, cache, bigReported, dropped>>

(* A bug would remove old finalized requests, claimed or not.                 *)
isOld(r, b) == time(b) > timestamp(r) + TwoWeeks
isOldClaimed(r, b) == isOld(r, b) /\ table[r].claimed

finalizedRead(c) ==
    LET r == call[c]
    IN  /\ r.unclaimed = "rows"
        /\ goesOn(c, [r EXCEPT !.unclaimed = "remove",
                               !.rows = {q \in finalizedRows : isOldClaimed(q, r.block)}])
        /\ UNCHANGED <<node, stored, cache, bigReported, dropped>>

removed(c) ==
    LET r == call[c]
    IN  /\ r.unclaimed = "remove"
        /\ table' = [q \in DOMAIN table \ r.rows |-> table[q]]
        /\ \E found \in dueAlerts({"unclaimedRate"}, r.block) :
              /\ lastAlert' = alerted(found, r.block)
              /\ goesOn(c, [r EXCEPT
                     !.unclaimed = IF mayAlert("balance", r.block) THEN "balance" ELSE "over",
                     !.rows = {}, !.found = @ \union found])
        /\ UNCHANGED <<node, refreshed, hidden, scanned, late, isBunkerMode,
                       lastTokenRebaseTimestamp, amountRequested, alertsCount, bigReported, dropped>>

(* The queue's balance.  A failure is answered with a network alert alone,    *)
(* without the unclaimed-rate alert found before; a bug would lose all.       *)
losesAll(found) == {}
losesRate(found) == found \ {"unclaimedRate"}

balanceFails(c) ==
    LET r == call[c]
    IN  /\ r.unclaimed = "balance"
        /\ goesOn(c, [r EXCEPT !.unclaimed = "over", !.found = losesRate(r.found)])
        /\ dropped' = IF "unclaimedRate" \in r.found THEN dropped \union {time(r.block)} ELSE dropped
        /\ UNCHANGED <<node, stored, cache, bigReported>>

balanceAnswered(c) ==
    LET r == call[c]
    IN  /\ r.unclaimed = "balance"
        /\ \E found \in dueAlerts({"balance"}, r.block) :
              /\ lastAlert' = alerted(found, r.block)
              /\ goesOn(c, [r EXCEPT !.unclaimed = "over", !.found = @ \union found])
        /\ UNCHANGED <<node, stored, isBunkerMode, lastTokenRebaseTimestamp, amountRequested,
                       alertsCount, bigReported, dropped>>

-----------------------------------------------------------------------------
(* A transaction call.  handleBunkerStatus and handleLastTokenRebase run      *)
(* before the first await, as does the throttle of handleWithdrawalClaimed.   *)
bunkerModeAfter(t) ==
    CASE t.kind = "bunkerOn" -> TRUE [] t.kind = "bunkerOff" -> FALSE [] OTHER -> isBunkerMode

claimsCounted == IF time(head) > lastAlert["claimedMore"] + OneHour THEN 0 ELSE alertsCount

(* Is an event of the transaction still to be worked on after an await?       *)
awaits(t) ==
    CASE t.kind = "request" -> TRUE
      [] t.kind = "report"  -> t.to > chain[head - 1].finalizedTo
      [] t.kind = "claim"   -> claimsCounted < MaxAlerts
      [] OTHER              -> FALSE

handleTransaction(c) ==
    /\ "tx" \in todo /\ call[c] = Closed
    /\ todo' = todo \ {"tx"}
    /\ isBunkerMode' = bunkerModeAfter(tx)
    /\ IF tx.kind = "report"
       THEN /\ lastTokenRebaseTimestamp' = time(head) - ReportLag
            /\ amountRequested' = 0 /\ bigReported' = FALSE
       ELSE UNCHANGED <<lastTokenRebaseTimestamp, amountRequested, bigReported>>
    /\ alertsCount' = IF tx.kind = "claim" THEN claimsCounted ELSE alertsCount
    /\ call' = [call EXCEPT ![c] = IF awaits(tx)
                                   THEN [Closed EXCEPT !.at = tx.kind, !.block = head,
                                                       !.ids = tx.ids, !.to = tx.to]
                                   ELSE Closed]
    /\ UNCHANGED <<chain, tx, started, stored, lastAlert, alerts>>

transactionFails(c) ==
    /\ call[c].at \in {"request", "report", "claim"}
    /\ fails(c)
    /\ UNCHANGED <<node, dropped>>

handleWithdrawalFinalized(c) ==
    /\ call[c].at = "report"
    /\ setFinalizedRequests(call[c].to)
    /\ call' = [call EXCEPT ![c] = Closed]
    /\ UNCHANGED <<node, refreshed, hidden, scanned, late, cache, bigReported, alerts>>

(* The requests are stored, then counted; a sum of all requests since the     *)
(* last rebase that is big is reported if the last such alert is older.  It   *)
(* also runs for transactions without a request, with nothing to store and a  *)
(* sum that was judged before: that is left out.                              *)
handleWithdrawalRequest(c) ==
    LET r == call[c]
        sum == amountRequested + Cardinality(r.ids)
        big == sum >= BigSum /\ lastAlert["bigRequests"] < lastTokenRebaseTimestamp
    IN  /\ r.at = "request"
        /\ createOrUpdate(r.ids, r.block)
        /\ hidden' = (hidden \union ((1..Max(r.ids)) \ DOMAIN table)) \ r.ids
        /\ amountRequested' = sum
        /\ lastAlert' = IF big THEN [lastAlert EXCEPT !["bigRequests"] = time(r.block)] ELSE lastAlert
        /\ bigReported' = (bigReported \/ big)
        /\ call' = [call EXCEPT ![c] = Closed]
        /\ UNCHANGED <<node, refreshed, scanned, isBunkerMode, lastTokenRebaseTimestamp, alertsCount,
                       alerts>>

(* handleWithdrawalClaimed: which of the claimed requests are known, then for *)
(* each in turn the amount is compared and the row updated.                   *)
claimsRead(c) ==
    LET known == call[c].ids \intersect DOMAIN table
    IN  /\ call[c].at = "claim"
        /\ call' = [call EXCEPT ![c] = IF known = {} THEN Closed
                                       ELSE [@ EXCEPT !.at = "claimed", !.ids = known]]
        /\ UNCHANGED <<node, stored, cache, bigReported, alerts>>

handleWithdrawalClaimed(c) ==
    LET r == Min(call[c].ids)
        rest == call[c].ids \ {r}
    IN  /\ call[c].at = "claimed"
        /\ \E more \in SUBSET (Due \intersect {"claimedMore"}) :
              /\ alertsCount' = alertsCount + Cardinality(more)
              /\ lastAlert' = alerted(more, call[c].block)
        /\ \/ setWithdrawalRequestClaimed(r) /\ late' = late \ {r}
           \/ UNCHANGED <<table, late>>
        /\ call' = [call EXCEPT ![c] = IF rest = {} THEN Closed ELSE [@ EXCEPT !.ids = rest]]
        /\ UNCHANGED <<node, refreshed, hidden, scanned, isBunkerMode, lastTokenRebaseTimestamp,
                       amountRequested, bigReported, alerts>>

-----------------------------------------------------------------------------
Next ==
    \/ initialize \/ nextBlock
    \/ \E c \in Calls :
          \/ handleBlock(c) \/ lastRequestIdRead(c) \/ refresh(c)
          \/ handleQueueOnParWithStakeLimit(c)
          \/ unfinalizedRead(c) \/ handleUnfinalizedRequestNumber(c)
          \/ scanFails(c) \/ unclaimedRead(c) \/ unclaimedWritten(c) \/ finalizedRead(c)
          \/ removed(c) \/ balanceFails(c) \/ balanceAnswered(c)
          \/ handleTransaction(c) \/ transactionFails(c)
          \/ handleWithdrawalFinalized(c) \/ handleWithdrawalRequest(c)
          \/ claimsRead(c) \/ handleWithdrawalClaimed(c)

Spec == Init /\ [][Next]_vars

-----------------------------------------------------------------------------
(* A stored flag is true on the chain, whichever handler wrote it and however *)
(* late: the table may lag behind, but does not run ahead.                    *)
TableIsTrue ==
    \A r \in DOMAIN table :
        /\ table[r].finalized => r <= chain[head].finalizedTo
        /\ table[r].claimed => r \in chain[head].claimed

(* No request is passed over: up to the last block whose call has stored its  *)
(* requests, every one is in the table, was removed after it was claimed, or  *)
(* was not stored yet when a transaction stored a later one.                  *)
NoRequestIsMissed ==
    started => \A r \in 1..chain[refreshed].last :
        r \in DOMAIN table \union chain[head].claimed \union hidden

(* The scan catches up with every claim of its time, also those whose         *)
(* transaction was not handled, was over the alert limit or failed, except    *)
(* where a late write of an older status has taken a row back.                *)
ClaimsAreNoticed ==
    scanned > 0 =>
        \A r \in DOMAIN table \intersect chain[scanned].claimed : table[r].claimed \/ r \in late

(* An alert that sets its throttle for a day is answered with its block,      *)
(* unless the queue's balance could not be read after it.                     *)
AlertsLeave ==
    \A k \in Daily : lastAlert[k] # 0 =>
        \/ <<k, lastAlert[k]>> \in told
        \/ \E c \in Calls : k \in call[c].found /\ time(call[c].block) = lastAlert[k]
        \/ k = "unclaimedRate" /\ lastAlert[k] \in dropped

(* README: a sum of requests since the last rebase above the limit is         *)
(* alerted, here since a rebase the bot has seen.                             *)
BigRequestsAreReported ==
    lastTokenRebaseTimestamp # 0 /\ amountRequested >= BigSum => bigReported
=============================================================================
