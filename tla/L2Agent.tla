------------------------------- MODULE L2Agent -------------------------------
(***************************************************************************)
(* The agent of l2-bridge-scroll, which the Base, Linea, Mantle and ZkSync  *)
(* bots repeat: agent.ts with the block client.  Forta does not know the L2 *)
(* network, so every L1 block makes the bot ask for the L2 blocks since the *)
(* last call: it keeps the newest L2 block it knows as a cursor, asks for   *)
(* the blocks from there on, and for the logs of the blocks it was given.   *)
(* A flag keeps the calls for L1 blocks apart: one that finds it set        *)
(* returns at once.  What is done with the logs is in L2ProxyWatcher.       *)
(*                                                                          *)
(* Every request is retried by its client; here it is answered or fails.    *)
(* Blocks and logs are asked for in chunks, of which any may fail.          *)
(***************************************************************************)
EXTENDS Integers

CONSTANTS
    Calls,      \* the calls of handleBlock that may be open at the same time
    Lag,        \* how far behind the node that is asked may be
    MaxBlock    \* bound: the last L2 block

ASSUME AgentAssumption == Lag \in Nat /\ MaxBlock \in Nat \ {0}

Undefined == 0
Blocks == 1..MaxBlock

VARIABLES
    head,                  \* the chain: the newest L2 block
    isHandleBLockRunning,
    cachedBlockDto,        \* the cursor
    call,                  \* what every call of handleBlock waits for
    findingsRW,            \* whether the "Agent launched" finding is waiting
    passed,                \* history: the newest block the cursor was ever at
    looked,                \* history: the blocks whose logs were seen
    passedOver,            \* history: the blocks before the start, or after an error that
                           \* was alerted or thrown
    missed                 \* history: the blocks that a failed request has hidden

vars == <<head, isHandleBLockRunning, cachedBlockDto, call, findingsRW, passed, looked,
          passedOver, missed>>

(* from: the first block of workingL2Blocks, or the one asked from; to: the   *)
(* latest block; thrown: the call has ended with an exception.                *)
Idle == [at |-> "idle", from |-> Undefined, to |-> Undefined]

TypeOK ==
    /\ head \in Blocks
    /\ isHandleBLockRunning \in BOOLEAN
    /\ cachedBlockDto \in Blocks \union {Undefined}
    /\ call \in [Calls -> [at : {"idle", "findings", "latest", "blocks", "logs", "watchers", "thrown"},
                           from : Blocks \union {Undefined}, to : Blocks \union {Undefined}]]
    /\ findingsRW \in BOOLEAN
    /\ passed \in Blocks \union {Undefined}
    /\ looked \subseteq Blocks
    /\ passedOver \subseteq Blocks /\ missed \subseteq Blocks

(* initialize has succeeded; the cursor is not set before the first L1 block. *)
Init ==
    /\ head = 1
    /\ isHandleBLockRunning = FALSE
    /\ cachedBlockDto = Undefined
    /\ call = [c \in Calls |-> Idle]
    /\ findingsRW = TRUE
    /\ passed = Undefined
    /\ looked = {} /\ passedOver = {} /\ missed = {}

-----------------------------------------------------------------------------
newL2Block ==
    /\ head < MaxBlock
    /\ head' = head + 1
    /\ UNCHANGED <<isHandleBLockRunning, cachedBlockDto, call, findingsRW, passed, looked, passedOver, missed>>

(* A call for an L1 block; one that finds the flag set returns [].  A bug     *)
(* would not look at the flag.                                                *)
alwaysEnters == TRUE
mayEnter == ~isHandleBLockRunning

handleBlock(c) ==
    /\ call[c].at = "idle" /\ mayEnter
    /\ isHandleBLockRunning' = TRUE
    /\ call' = [call EXCEPT ![c].at = "findings"]
    /\ UNCHANGED <<head, cachedBlockDto, findingsRW, passed, looked, passedOver, missed>>

findingsRead(c) ==
    /\ call[c].at = "findings"
    /\ call' = [call EXCEPT ![c].at = "latest"]
    /\ findingsRW' = FALSE
    /\ UNCHANGED <<head, isHandleBLockRunning, cachedBlockDto, passed, looked, passedOver, missed>>

(* The call returns; a bug would leave the flag set.                          *)
returnsOnly(c) ==
    /\ call' = [call EXCEPT ![c] = Idle]
    /\ UNCHANGED isHandleBLockRunning
returns(c) ==
    /\ call' = [call EXCEPT ![c] = Idle]
    /\ isHandleBLockRunning' = FALSE

newest(n) == IF n > passed THEN n ELSE passed

(* The cursor is set to the latest block; a bug would set it behind it.       *)
cursorBehind(n) == n + 1
cursorAt(n) == n

(* getLatestL2Block for an unset cursor: the bot starts over at this block,   *)
(* and the blocks since the cursor was unset are passed over.                 *)
startsOver(c, n) ==
    /\ cachedBlockDto = Undefined
    /\ cachedBlockDto' = cursorAt(n)
    /\ call' = [call EXCEPT ![c] = [at |-> "logs", from |-> n, to |-> n]]
    /\ passed' = newest(n)
    /\ passedOver' = passedOver \union (passed + 1..n - 1)

(* Otherwise the blocks from the cursor to the one before it are asked for.   *)
goesOn(c, n) ==
    /\ cachedBlockDto # Undefined
    /\ call' = [call EXCEPT ![c] = [at |-> "blocks", from |-> cachedBlockDto, to |-> n]]
    /\ UNCHANGED <<cachedBlockDto, passed, passedOver>>

latestAnswered(c) ==
    /\ call[c].at = "latest"
    /\ \E n \in Blocks \intersect (head - Lag..head) : startsOver(c, n) \/ goesOn(c, n)
    /\ UNCHANGED <<head, isHandleBLockRunning, findingsRW, looked, missed>>

(* An alert is returned instead of the findings, and the cursor is cleared.   *)
latestFails(c) ==
    /\ call[c].at = "latest"
    /\ cachedBlockDto' = Undefined
    /\ returns(c)
    /\ UNCHANGED <<head, findingsRW, passed, looked, passedOver, missed>>

(* workingL2Blocks[0]: the first block that was fetched, or the latest one.   *)
(* The logs of what is before it are not asked for.  A bug would always take  *)
(* the latest one.                                                            *)
alwaysLatest(got, n) == n
firstOf(got, n) == CHOOSE b \in got \union {n} : \A a \in got \union {n} : b <= a

blocksFetched(c) ==
    LET n == call[c].to
        before == call[c].from..n - 1
    IN  /\ call[c].at = "blocks"
        /\ \E got \in SUBSET before :
              LET first == firstOf(got, n)
              IN  /\ call' = [call EXCEPT ![c] = [at |-> "logs", from |-> first, to |-> n]]
                  /\ missed' = missed \union {b \in before \ got : b < first}
        /\ cachedBlockDto' = cursorAt(n)
        /\ passed' = newest(n)
        /\ UNCHANGED <<head, isHandleBLockRunning, findingsRW, looked, passedOver>>

(* The logs of some chunks; a chunk that failed is logged and left out.       *)
logsFetched(c) ==
    LET asked == call[c].from..call[c].to
    IN  /\ call[c].at = "logs"
        /\ \E got \in SUBSET asked :
              /\ looked' = looked \union got
              /\ missed' = missed \union (asked \ got)
        /\ call' = [call EXCEPT ![c] = [Idle EXCEPT !.at = "watchers"]]
        /\ UNCHANGED <<head, isHandleBLockRunning, cachedBlockDto, findingsRW, passed, passedOver>>

(* The watchers never throw: the findings are returned.                       *)
watched(c) ==
    /\ call[c].at = "watchers"
    /\ returns(c)
    /\ UNCHANGED <<head, cachedBlockDto, findingsRW, passed, looked, passedOver, missed>>

(* The node answers null, for the latest block or for logs: an exception that *)
(* nothing catches, and the flag stays as it is.                              *)
throws(c) ==
    /\ call[c].at \in {"latest", "logs"}
    /\ passedOver' = passedOver \union
                        (IF call[c].at = "logs" THEN call[c].from..call[c].to ELSE {})
    /\ call' = [call EXCEPT ![c] = [Idle EXCEPT !.at = "thrown"]]
    /\ UNCHANGED <<head, isHandleBLockRunning, cachedBlockDto, findingsRW, passed, looked,
                   missed>>

continues(c) ==
    findingsRead(c) \/ latestAnswered(c) \/ latestFails(c) \/ blocksFetched(c)
    \/ logsFetched(c) \/ watched(c)

Next ==
    \/ newL2Block
    \/ \E c \in Calls : handleBlock(c) \/ continues(c) \/ throws(c)

Spec == Init /\ [][Next]_vars

(* L1 blocks keep coming, every request is answered or fails, and the one for *)
(* the latest block does not fail for ever.                                   *)
Fairness ==
    /\ WF_vars(\E c \in Calls : handleBlock(c))
    /\ \A c \in Calls : WF_vars(continues(c)) /\ SF_vars(latestAnswered(c))

FairSpec == Spec /\ Fairness

-----------------------------------------------------------------------------
UnderWay == UNION {call[c].from..call[c].to : c \in Calls}

(* Every block the cursor has passed was looked at, is being looked at, came  *)
(* before the start or an error that was told, or was hidden by a failed      *)
(* request: nothing else makes a gap.                                         *)
EveryBlockIsAccounted ==
    1..passed \subseteq looked \union UnderWay \union passedOver \union missed

(* Calls do not disturb each other: the cursor goes back no further than a    *)
(* node that is behind can make it.                                           *)
CursorKeepsUp ==
    [][cachedBlockDto # Undefined /\ cachedBlockDto' # Undefined
           => cachedBlockDto' >= cachedBlockDto - Lag]_vars

(* As long as no call throws, the bot gets to every L2 block, whatever fails. *)
EveryBlockIsReached ==
    \A b \in Blocks :
        head >= b + Lag ~> passed >= b \/ \E c \in Calls : call[c].at = "thrown"
=============================================================================
