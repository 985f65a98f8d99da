-------------------------- MODULE WithdrawalsMonitor --------------------------
(***************************************************************************)
(* The WithdrawalsMonitor sub-agent of lido-on-polygon                      *)
(* (agent-withdrawals-monitor.ts).  Every block drops old withdrawals from  *)
(* a cache, asks the node for the size of the pool, and then sums up what   *)
(* the cache holds by that time: meanwhile transactions have added to it,   *)
(* and a call of another block, whose run has timed out, may have emptied   *)
(* it.  A report names the period since the last one and removes what it    *)
(* has counted.                                                             *)
(*                                                                          *)
(* A block is named by its timestamp and its number alike, a withdrawal by  *)
(* its block; every withdrawal has the same amount.                         *)
(***************************************************************************)
EXTENDS Integers, FiniteSets

CONSTANTS
    Window,     \* MAX_WITHDRAWALS_WINDOW
    Cadence,    \* a report is made at multiples of this block number: 10
    Limits,     \* the numbers of withdrawals that make up 5% of the pool
    Epoch,      \* the block the bot starts at
    MaxTime,    \* bound: the last block
    MaxEvents   \* bound: withdrawals in one block

ASSUME MonitorAssumption ==
    /\ {Window, Epoch, MaxTime, MaxEvents} \subseteq Nat
    /\ 0 < Window /\ Window < Epoch /\ Epoch <= MaxTime
    /\ Limits \subseteq Nat \ {0}

VARIABLES
    now,                           \* the last block the scan node has sent
    withdrawalsCache,
    lastReportedToManyWithdrawals,
    call,      \* what became of every block's call
    timedOut,  \* the blocks whose run has lost against its timer
    seen,      \* history: all withdrawals
    counted    \* history: which withdrawals a block's report has summed up

vars == <<now, withdrawalsCache, lastReportedToManyWithdrawals, call, timedOut,
          seen, counted>>

Blocks == Epoch..MaxTime
Withdrawals == [time : 0..MaxTime, nr : 1..MaxEvents]

TypeOK ==
    /\ now \in Epoch - 1..MaxTime
    /\ withdrawalsCache \subseteq Withdrawals
    /\ lastReportedToManyWithdrawals \in {0} \union Blocks
    /\ call \in [Blocks -> {"none", "waiting", "done", "failed"}]
    /\ timedOut \subseteq Blocks
    /\ seen \subseteq Withdrawals
    /\ counted \in [Blocks -> SUBSET Withdrawals]

(* initialize fetches the events of the window before the current block.      *)
Init ==
    /\ now = Epoch - 1
    /\ \E past \in SUBSET {w \in Withdrawals : w.nr = 1 /\ w.time \in Epoch - Window..Epoch - 1} :
          withdrawalsCache = past /\ seen = past
    /\ lastReportedToManyWithdrawals = 0
    /\ call = [b \in Blocks |-> "none"]
    /\ timedOut = {}
    /\ counted = [b \in Blocks |-> {}]

-----------------------------------------------------------------------------
isRecent(w, b) == w.time > b - Window

(* The start of handleToManyWithdrawals, on the first or on a later attempt.  *)
handleBlock(b) ==
    /\ withdrawalsCache' = {w \in withdrawalsCache : isRecent(w, b)}
    /\ call' = [call EXCEPT ![b] = "waiting"]

nextBlock ==
    /\ now < MaxTime
    /\ now \in Blocks => call[now] \in {"done", "failed"} \/ now \in timedOut
    /\ now' = now + 1
    /\ handleBlock(now + 1)
    /\ UNCHANGED <<lastReportedToManyWithdrawals, timedOut, seen, counted>>

(* The request fails: the runner tries again, or gives up.                    *)
requestFails(b) ==
    /\ call[b] = "waiting"
    /\ \/ handleBlock(b)
       \/ call' = [call EXCEPT ![b] = "failed"] /\ UNCHANGED withdrawalsCache
    /\ UNCHANGED <<now, lastReportedToManyWithdrawals, timedOut, seen, counted>>

(* What is summed up: the cache as it is now; a bug would sum up what the     *)
(* block's check has found in it, the withdrawals of earlier blocks.          *)
summedEarly(b) == {w \in withdrawalsCache : w.time < b}
summed(b) == withdrawalsCache

(* What a report leaves in the cache; a bug would take lastReported... before *)
(* it is set.                                                                 *)
notReportedBefore(b) == {w \in withdrawalsCache : w.time > lastReportedToManyWithdrawals}
notReported(b) == {w \in withdrawalsCache : w.time > b}

(* What makes a report; a bug would ask for more than the limit.              *)
isHuger(b, limit) == Cardinality(summed(b)) > limit /\ b % Cadence = 0
isHuge(b, limit) == Cardinality(summed(b)) >= limit /\ b % Cadence = 0

(* The rest of handleToManyWithdrawals.                                       *)
poolAnswered(b) ==
    /\ call[b] = "waiting"
    /\ call' = [call EXCEPT ![b] = "done"]
    /\ \E limit \in Limits :
       \/ /\ isHuge(b, limit)
          /\ counted' = [counted EXCEPT ![b] = summed(b)]
          /\ lastReportedToManyWithdrawals' = b
          /\ withdrawalsCache' = notReported(b)
       \/ /\ ~isHuge(b, limit)
          /\ UNCHANGED <<counted, lastReportedToManyWithdrawals, withdrawalsCache>>
    /\ UNCHANGED <<now, timedOut, seen>>

timeout(b) ==
    /\ call[b] = "waiting" /\ b \notin timedOut
    /\ timedOut' = timedOut \union {b}
    /\ UNCHANGED <<now, withdrawalsCache, lastReportedToManyWithdrawals, call, seen, counted>>

(* A withdrawal in a transaction of the last block; it may come before or     *)
(* after the block itself is done.                                            *)
handleWithdrawalEvent ==
    /\ now \in Blocks
    /\ \E nr \in 1..MaxEvents :
          LET w == [time |-> now, nr |-> nr]
          IN  /\ w \notin seen
              /\ seen' = seen \union {w}
              /\ withdrawalsCache' = withdrawalsCache \union {w}
    /\ UNCHANGED <<now, lastReportedToManyWithdrawals, call, timedOut, counted>>

Next ==
    \/ nextBlock \/ handleWithdrawalEvent
    \/ \E b \in Blocks : poolAnswered(b) \/ requestFails(b) \/ timeout(b)

Spec == Init /\ [][Next]_vars

-----------------------------------------------------------------------------
Counted == UNION {counted[b] : b \in Blocks}

(* Although a report empties a cache that transactions and other calls change *)
(* while it waits, no withdrawal of the window is dropped uncounted.          *)
NothingIsLost ==
    \A w \in seen : isRecent(w, now) => w \in withdrawalsCache \union Counted

(* "Huge withdrawals during the last N hours": what a report counts lies in   *)
(* the window and not before the block of the last report, so that only what  *)
(* is newer than a report is ever counted again.                              *)
CountedInPeriod ==
    [][\A b \in Blocks : \A w \in counted'[b] \ counted[b] :
          isRecent(w, b) /\ w.time >= lastReportedToManyWithdrawals]_vars

(* Once the check of a block at the cadence has been answered in time, the    *)
(* earlier withdrawals of its window that no report has counted are below the *)
(* limit, whatever other runs do to the cache.                                *)
BurstIsReported ==
    \A b \in Blocks \ timedOut : b % Cadence = 0 /\ call[b] = "done" =>
        \E limit \in Limits :
            Cardinality({w \in seen \ Counted : isRecent(w, b) /\ w.time < b}) < limit
=============================================================================
