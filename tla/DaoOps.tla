------------------------------- MODULE DaoOps -------------------------------
(***************************************************************************)
(* The DaoOps sub-agent of lido-on-polygon (agent-dao-ops.ts) under the     *)
(* runner of agent.ts: what its throttles and timers are worth when a       *)
(* handler is retried.                                                      *)
(*                                                                          *)
(* A call of handleBlock starts all its checks.  The rewards check runs to  *)
(* its end at once, the others wait for the node.  When one of them throws, *)
(* Promise.all rejects: the findings of the call are dropped and the runner *)
(* calls handleBlock again, while the other checks of the failed call go on *)
(* and change the sub-agent's state.  So does a run that has timed out.     *)
(*                                                                          *)
(* The scan node sends one block after the other; a block is named by its   *)
(* timestamp.  handleProxyAdmin has a module of its own (ProxyAdminCheck).  *)
(***************************************************************************)
EXTENDS Naturals, FiniteSets

CONSTANTS
    Checks,      \* the throttled checks: proxy owner, executor balance
    Cadence,     \* the block numbers a check runs at: the multiples of Cadence[c]
    Window,      \* REPORT_WINDOW_... of every check, of "buffered" and of "rewards"
    Huge, High,  \* how long the buffer must be huge, or high, for an alert
    MaxInterval, \* MAX_REWARDS_DISTRIBUTION_INTERVAL
    maxHandlerRetries,
    Levels,      \* the levels of the buffer: all of Level, or fewer to keep a run small
    Epoch,       \* the time at which the bot starts
    MaxTime,     \* bound: the last block
    MaxOpen      \* bound: reward distributions handled at the same time

DaoOpsAssumption ==
    /\ {"buffered", "rewards"} \intersect Checks = {}
    /\ Cadence \in [Checks -> Nat \ {0}]
    /\ Window \in [Checks \union {"buffered", "rewards"} -> Nat]
    /\ {Huge, High, MaxInterval, maxHandlerRetries, Epoch, MaxTime, MaxOpen} \subseteq Nat
    /\ maxHandlerRetries >= 1
    /\ Levels \subseteq {"normal", "high", "huge"}
    /\ Epoch <= MaxTime
    /\ \A w \in DOMAIN Window : Window[w] < Epoch

Kinds == Checks \union {"buffered", "rewards"}
Blocks == Epoch + 1..MaxTime
Time == 0..MaxTime

VARIABLES
    now,           \* the last block the scan node has sent
    run,           \* the runner's call for every block
    pending,       \* the checks that wait for the node
    lastReported,  \* lastReportedBufferedMatic, ...Rewards, ...InvalidProxyOwner, ...
    hugePooledMaticStart,
    highPooledMaticStart,
    lastRewardsDistributeTime,
    distribution,  \* the reward distributions handleTransaction is working on
    delivered,     \* history: the alerts that were answered
    due,           \* history: the alerts that a block gave reason for
    lastSeen,      \* history: the last block at which a check has seen each level
    overtaken      \* history: a check of an older block was answered after a newer one came

timers == <<lastReported, hugePooledMaticStart, highPooledMaticStart>>
rewards == <<lastRewardsDistributeTime, distribution>>
vars == <<now, run, pending, timers, rewards, delivered, due, lastSeen,
          overtaken>>

Level == {"normal", "high", "huge"}

(* found: the findings of the current call; bad and level: what the node says *)
(* of the block, to every call alike.                                         *)
NoRun == [at |-> "none", retries |-> 0, found |-> {}, failed |-> FALSE,
          bad |-> {}, level |-> "normal"]
Over(r, at) == [NoRun EXCEPT !.at = at, !.failed = r.failed]

TypeOK ==
    /\ now \in Epoch..MaxTime
    /\ run \in [Blocks -> [at : {"none", "running", "answered", "errored", "timedOut", "late"},
                           retries : 0..maxHandlerRetries,
                           found : SUBSET Kinds, failed : BOOLEAN,
                           bad : SUBSET Checks, level : Level]]
    /\ pending \subseteq [block : Blocks, check : Kinds, live : BOOLEAN,
                          bad : BOOLEAN, level : Level]
    /\ lastReported \in [Kinds -> Time]
    /\ hugePooledMaticStart \in Time /\ highPooledMaticStart \in Time
    /\ lastRewardsDistributeTime \in Time
    /\ distribution \subseteq Time
    /\ delivered \subseteq Kinds \X Blocks
    /\ due \subseteq Kinds \X Blocks
    /\ lastSeen \in [Level -> Time]
    /\ overtaken \in BOOLEAN

Init ==
    /\ now = Epoch
    /\ run = [b \in Blocks |-> NoRun]
    /\ pending = {}
    /\ lastReported = [k \in Kinds |-> 0]
    /\ hugePooledMaticStart = 0 /\ highPooledMaticStart = 0
    /\ lastRewardsDistributeTime \in {0, Epoch}
    /\ distribution = {}
    /\ delivered = {} /\ due = {}
    /\ lastSeen = [l \in Level |-> 0]
    /\ overtaken = FALSE

-----------------------------------------------------------------------------
(* lastReported... + REPORT_WINDOW... < now lets a check report; a bug would   *)
(* hold it back for a block more.                                             *)
throttledLonger(k, b) == lastReported[k] + Window[k] + 1 >= b
throttled(k, b) == lastReported[k] + Window[k] >= b
delayed(b) == b - lastRewardsDistributeTime > MaxInterval

(* The checks that ask the node for something.                                *)
asking(b) == {c \in Checks : ~throttled(c, b) /\ b % Cadence[c] = 0}
             \union (IF throttled("buffered", b) THEN {} ELSE {"buffered"})

(* The checks of a call that has failed go on.                                *)
orphaned(waiting, b) == {[p EXCEPT !.live = @ /\ p.block # b] : p \in waiting}

(* A call of the sub-agent's handleBlock: handleRewardsDistribution reports   *)
(* and sets its throttle, the others are under way.                           *)
calls(b, r, waiting) ==
    LET late == delayed(b) /\ ~throttled("rewards", b)
    IN  /\ lastReported' = [lastReported EXCEPT !["rewards"] = IF late THEN b ELSE @]
        /\ run' = [run EXCEPT ![b] = [r EXCEPT !.found = IF late THEN {"rewards"} ELSE {}]]
        /\ pending' = orphaned(waiting, b) \union
               {[block |-> b, check |-> c, live |-> TRUE, bad |-> c \in r.bad,
                 level |-> IF c = "buffered" THEN r.level ELSE "normal"] : c \in asking(b)}

(* The next block, with what the chain holds at it.                           *)
handleBlock ==
    /\ now < MaxTime
    /\ now \in Blocks => run[now].at \in {"answered", "errored", "timedOut", "late"}
    /\ now' = now + 1
    /\ \E level \in Levels :
       \E bad \in SUBSET {c \in Checks : (now + 1) % Cadence[c] = 0} :
          /\ calls(now + 1, [NoRun EXCEPT !.at = "running", !.retries = maxHandlerRetries - 1,
                                          !.bad = bad, !.level = level], pending)
          /\ due' = due \union ((IF delayed(now + 1) THEN bad \union {"rewards"} ELSE bad)
                                \X {now + 1})
    /\ UNCHANGED <<hugePooledMaticStart, highPooledMaticStart, rewards, delivered, lastSeen,
                   overtaken>>

finds(p, kinds) ==
    run' = [run EXCEPT ![p.block].found = IF p.live THEN @ \union kinds ELSE @]

(* The throttle is set with the finding, whoever gets it.  A bug would set it *)
(* for every answer.                                                          *)
reportsAlways(p, isBad) == [lastReported EXCEPT ![p.check] = p.block]
reports(p, isBad) == [lastReported EXCEPT ![p.check] = IF isBad THEN p.block ELSE @]

(* handleProxyOwner and handleDepositExecutorBalance: the node's answer.      *)
checkAnswered(p) ==
    /\ p.check \in Checks
    /\ pending' = pending \ {p}
    /\ finds(p, IF p.bad THEN {p.check} ELSE {})
    /\ lastReported' = reports(p, p.bad)
    /\ overtaken' = (overtaken \/ p.block < now)
    /\ UNCHANGED <<now, hugePooledMaticStart, highPooledMaticStart, rewards,
                   delivered, due, lastSeen>>

(* A start stays as it is while the level lasts, and is forgotten otherwise;  *)
(* a bug would keep it.                                                       *)
keepsStart(start, holds, b) == IF holds /\ start = 0 THEN b ELSE start
startOf(start, holds, b) == IF ~holds THEN 0 ELSE IF start # 0 THEN start ELSE b

(* "More than": a subtraction that must not go below zero in the model.       *)
lasts(start, long, b) == start # 0 /\ b > start + long

(* handleBufferedMatic: both balances have come.                              *)
bufferedAnswered(p) ==
    /\ p.check = "buffered"
    /\ pending' = pending \ {p}
    /\ LET b == p.block
           huge == startOf(hugePooledMaticStart, p.level = "huge", b)
           high == startOf(highPooledMaticStart, p.level \in {"high", "huge"}, b)
           alert == lasts(huge, Huge, b) \/ lasts(high, High, b)
       IN  /\ hugePooledMaticStart' = huge
           /\ highPooledMaticStart' = high
           /\ lastReported' = reports(p, alert)
           /\ finds(p, IF alert THEN {"buffered"} ELSE {})
           /\ lastSeen' = [lastSeen EXCEPT ![p.level] = b]
    /\ overtaken' = (overtaken \/ p.block < now)
    /\ UNCHANGED <<now, rewards, delivered, due>>

(* retries-- > 0; a bug would count one attempt too many.                     *)
mayRetryOnceMore(b) == run[b].retries + 1 > 0
mayRetry(b) == run[b].retries > 0

(* A request fails.  In the current call this is an exception: the runner     *)
(* calls again, or reports the error when no attempt is left.                 *)
requestFails(p) ==
    /\ \/ /\ p.live /\ mayRetry(p.block)
          /\ calls(p.block, [run[p.block] EXCEPT !.retries = @ - 1, !.failed = TRUE],
                   pending \ {p})
       \/ /\ p.live /\ ~mayRetry(p.block)
          /\ run' = [run EXCEPT ![p.block] =
                Over([@ EXCEPT !.failed = TRUE],
                     IF @.at = "running" THEN "errored" ELSE "late")]
          /\ pending' = orphaned(pending \ {p}, p.block)
          /\ UNCHANGED lastReported
       \/ ~p.live /\ pending' = pending \ {p} /\ UNCHANGED <<run, lastReported>>
    /\ UNCHANGED <<now, hugePooledMaticStart, highPooledMaticStart, rewards,
                   delivered, due, lastSeen, overtaken>>

(* All checks of the current call are done: its findings are the answer,      *)
(* unless the run has timed out.                                              *)
callReturns(b) ==
    /\ run[b].at \in {"running", "timedOut"}
    /\ ~\E p \in pending : p.block = b /\ p.live
    /\ \/ /\ run[b].at = "running"
          /\ run' = [run EXCEPT ![b] = Over(@, "answered")]
          /\ delivered' = delivered \union (run[b].found \X {b})
       \/ /\ run[b].at = "timedOut"
          /\ run' = [run EXCEPT ![b] = Over(@, "late")]
          /\ UNCHANGED delivered
    /\ UNCHANGED <<now, pending, timers, rewards, due, lastSeen, overtaken>>

timeout(b) ==
    /\ run[b].at = "running"
    /\ run' = [run EXCEPT ![b].at = "timedOut", ![b].failed = TRUE]
    /\ UNCHANGED <<now, pending, timers, rewards, delivered, due, lastSeen,
                   overtaken>>

(* A DistributeRewardsEvent in a transaction of the last block.  Before any   *)
(* distribution is known it is taken over at once; later, the checkpoints are *)
(* counted first, and if that fails on all attempts it is not recorded.       *)
handleRewardDistributionEvent ==
    /\ now \in Blocks /\ Cardinality(distribution) < MaxOpen
    /\ \/ /\ lastRewardsDistributeTime = 0
          /\ lastRewardsDistributeTime' = now
          /\ UNCHANGED distribution
       \/ /\ lastRewardsDistributeTime # 0
          /\ distribution' = distribution \union {now}
          /\ UNCHANGED lastRewardsDistributeTime
    /\ UNCHANGED <<now, run, pending, timers, delivered, due, lastSeen, overtaken>>

checkpointsCounted(t) ==
    /\ distribution' = distribution \ {t}
    /\ lastRewardsDistributeTime' \in {t, lastRewardsDistributeTime}
    /\ UNCHANGED <<now, run, pending, timers, delivered, due, lastSeen, overtaken>>

Next ==
    \/ handleBlock \/ handleRewardDistributionEvent
    \/ \E p \in pending : checkAnswered(p) \/ bufferedAnswered(p) \/ requestFails(p)
    \/ \E b \in Blocks : callReturns(b) \/ timeout(b)
    \/ \E t \in distribution : checkpointsCounted(t)

Spec == Init /\ [][Next]_vars

-----------------------------------------------------------------------------
(* The block was answered, and no call for it failed.                         *)
Smooth(b) == run[b].at = "answered" /\ ~run[b].failed
Since(k, b) == {a \in Blocks : a <= b /\ a + Window[k] >= b}

(* What an answered block gave reason for is reported with it, or was within  *)
(* the throttle's window, unless a call of that window failed or timed out:   *)
(* throttles, cadences and failures of other checks lose nothing else.        *)
DueIsReported ==
    \A k \in Kinds, b \in Blocks :
        <<k, b>> \in due /\ run[b].at = "answered" =>
            \E a \in Since(k, b) : <<k, a>> \in delivered \/ ~Smooth(a)

(* "for more than ... hours": as long as no check was overtaken by a newer    *)
(* block, none has seen the buffer at a lower level since the recorded start, *)
(* whatever failed or was retried.                                            *)
StartIsSustained ==
    ~overtaken =>
        /\ hugePooledMaticStart # 0 => /\ lastSeen["normal"] < hugePooledMaticStart
                                      /\ lastSeen["high"] < hugePooledMaticStart
        /\ highPooledMaticStart # 0 => lastSeen["normal"] < highPooledMaticStart
=============================================================================
